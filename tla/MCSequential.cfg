CONSTANTS
  w1 = w1
  w2 = w2
  acme = acme
  k = k
  l = l
  s = s
  u = u
  v = v
  Tenants = {acme}
  Char <- Chars
  Users <- TwoUsers
  Sessions <- OneSession
  Keys <- KeysWithColon
  ProfileKeys <- NoKeys
  Workers = {w1}
  Calls = {"set", "get", "delete", "search", "recall", "list", "batch"}
  Interfaces <- PlainOrMuninn
  ToolCalls = {"set", "get", "delete", "search", "recall", "list", "batch"}
  Tasks = {"extract"}
  Faults = {"restart"}
  Limits <- OneLimit
  RecallLimit = 1
  Ages = {}
  BatchSize = 2
  PageSize = 2
  ActLimit = 2
  NewestFirst = TRUE
  Ahead = 0
  MaxEngrams = 2
  MaxTime = 0
SPECIFICATION ManagerSpec
INVARIANTS CacheSound CacheLive BatchOkMeansAllStored ReportedAreStored
PROPERTY ImplementsMemory
SYMMETRY TheUsers
