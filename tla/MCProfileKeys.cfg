CONSTANTS
  w1 = w1
  w2 = w2
  acme = acme
  k = k
  l = l
  s = s
  u = u
  v = v
  Tenants = {acme}
  Char <- Chars
  Users <- NoUserOrOne
  Sessions <- NoSession
  Keys <- TwoKeys
  ProfileKeys <- OneKey
  Workers = {w1}
  Calls = {"list", "batch"}
  Interfaces <- Muninn
  ToolCalls = {}
  Tasks = {"extract", "ingest", "profile"}
  Faults = {}
  Limits <- OneLimit
  RecallLimit = 1
  Ages = {}
  BatchSize = 1
  PageSize = 2
  ActLimit = 2
  NewestFirst = FALSE
  Ahead = 0
  MaxEngrams = 2
  MaxTime = 0
SPECIFICATION ManagerSpec
INVARIANT ProfileRecallOnlyIngested
