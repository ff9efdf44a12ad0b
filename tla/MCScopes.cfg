CONSTANTS
  w1 = w1
  w2 = w2
  acme = acme
  k = k
  l = l
  s = s
  u = u
  v = v
  Tenants = {acme, globex}
  Char <- Chars
  Users <- OneUser
  Sessions <- NoSessionOrOne
  Keys <- OneKey
  ProfileKeys <- NoKeys
  Workers = {w1, w2}
  Calls = {"set", "get", "delete"}
  Interfaces <- Muninn
  ToolCalls = {"set", "get", "delete"}
  Tasks = {}
  Faults = {"transport", "twice"}
  Limits <- OneLimit
  RecallLimit = 1
  Ages = {}
  BatchSize = 1
  PageSize = 1
  ActLimit = 2
  NewestFirst = FALSE
  Ahead = 0
  MaxEngrams = 2
  MaxTime = 0
SPECIFICATION ManagerSpec
SYMMETRY GoroutinesAndTenants
INVARIANTS TypeOK CacheSound InFlightSound AnswersInScope
PROPERTY ForgetsOnlyRequested
