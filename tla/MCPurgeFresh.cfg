CONSTANTS
  w1 = w1
  w2 = w2
  acme = acme
  k = k
  l = l
  s = s
  u = u
  v = v
  Tenants = {acme}
  Char <- Chars
  Users <- NoUserOrOne
  Sessions <- NoSession
  Keys <- OneKey
  ProfileKeys <- NoKeys
  Workers = {w1}
  Calls = {"set", "list", "delete"}
  Interfaces <- Muninn
  ToolCalls = {"set"}
  Tasks = {"purge"}
  Faults = {}
  Limits <- OneLimit
  RecallLimit = 1
  Ages = {0, 1}
  BatchSize = 1
  PageSize = 2
  ActLimit = 2
  NewestFirst = FALSE
  Ahead = 1
  MaxEngrams = 2
  MaxTime = 2
SPECIFICATION ManagerSpec
PROPERTY PurgeSparesFresh
