CONSTANTS
  w1 = w1
  w2 = w2
  acme = acme
  globex = globex
  Tenants = {acme}
  Char <- Chars
  Users <- OneUser
  Sessions <- MaybeSession
  Keys <- OneKey
  ProfileKeys <- NoKeys
  Workers = {w1}
  Calls = {"set", "get", "delete"}
  Faults = {}
  Limits <- NoLimits
  BatchSize = 1
  PageSize = 1
  ActLimit = 1
  NewestFirst = FALSE
  Ahead = 0
  MaxEngrams = 1
  MaxTime = 0
SPECIFICATION Spec
INVARIANT GetMissingIsNil
