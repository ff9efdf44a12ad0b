CONSTANTS
  w1 = w1
  w2 = w2
  acme = acme
  k = k
  l = l
  s = s
  u = u
  v = v
  Tenants = {acme}
  Char <- Chars
  Users <- NoUser
  Sessions <- NoSession
  Keys <- OneKey
  ProfileKeys <- NoKeys
  Workers = {w1, w2}
  Calls = {"set", "delete", "list", "batch"}
  Interfaces <- PlainOrMuninn
  ToolCalls = {}
  Tasks = {"ingest", "purge", "profile"}
  Faults = {"silent", "twice"}
  Limits <- OneLimit
  RecallLimit = 1
  Ages = {0}
  BatchSize = 1
  PageSize = 1
  ActLimit = 2
  NewestFirst = TRUE
  Ahead = 0
  MaxEngrams = 2
  MaxTime = 0
SPECIFICATION ManagerLiveSpec
PROPERTIES CallsTheStore OperationEnds CallReturns
