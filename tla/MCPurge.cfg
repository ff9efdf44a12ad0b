CONSTANTS
  w1 = w1
  w2 = w2
  acme = acme
  k = k
  l = l
  s = s
  u = u
  v = v
  Tenants = {acme}
  Char <- Chars
  Users <- NoUser
  Sessions <- NoSessionOrOne
  Keys <- TwoKeys
  ProfileKeys <- NoKeys
  Workers = {w1, w2}
  Calls = {"set", "list", "delete"}
  Interfaces <- Muninn
  ToolCalls = {"set"}
  Tasks = {"purge"}
  Faults = {}
  Limits <- OneLimit
  RecallLimit = 1
  Ages = {0}
  BatchSize = 1
  PageSize = 2
  ActLimit = 2
  NewestFirst = TRUE
  Ahead = 0
  MaxEngrams = 2
  MaxTime = 2
SPECIFICATION ManagerSpec
SYMMETRY GoroutinesAndKeys
INVARIANTS ManagerTypeOK PurgeCountsForgotten
PROPERTIES PurgeStaysWithEntry PurgeSparesFreshConcepts
