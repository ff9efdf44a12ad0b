CONSTANTS
  w1 = w1
  w2 = w2
  acme = acme
  globex = globex
  Tenants = {acme}
  Char <- Chars
  Users <- OneUser
  Sessions <- OneSession
  Keys <- TwoKeys
  ProfileKeys <- NoKeys
  Workers = {w1, w2}
  Calls = {"set", "delete", "list"}
  Faults = {}
  Limits <- NoLimits
  BatchSize = 1
  PageSize = 1
  ActLimit = 1
  NewestFirst = FALSE
  Ahead = 0
  MaxEngrams = 2
  MaxTime = 0
SPECIFICATION Spec
INVARIANT ListIsComplete
