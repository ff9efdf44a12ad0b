CONSTANTS
  w1 = w1
  w2 = w2
  acme = acme
  k = k
  l = l
  s = s
  u = u
  v = v
  Tenants = {acme}
  Char <- Chars
  Users <- NoUserOrOne
  Sessions <- NoSession
  Keys <- OneKey
  ProfileKeys <- NoKeys
  Workers = {w1, w2}
  Calls = {"list", "batch", "recall", "search"}
  Interfaces <- Muninn
  ToolCalls = {}
  Tasks = {"extract", "ingest", "profile", "recall"}
  Faults = {}
  Limits <- OneLimit
  RecallLimit = 1
  Ages = {}
  BatchSize = 1
  PageSize = 1
  ActLimit = 2
  NewestFirst = FALSE
  Ahead = 0
  MaxEngrams = 2
  MaxTime = 0
SPECIFICATION ManagerSpec
SYMMETRY Goroutines
INVARIANTS ProfileRecallOnlyIngested ListIsComplete RecallInScope
