CONSTANTS
  ann = ann
  bob = bob
  acme = acme
  globex = globex
  Chunks <- Four
  FileOf <- FileOfChunk
  WordsOf <- Words
  ParentWords <- Section
  Users <- TwoUsers
  Tenants <- TwoTenants
  Projects <- OneProject
  FileIds = {"f", "g"}
  AskedLimits = {0, 3}
  DefaultLimit = 1
  MaxLimit = 2
  Tools <- SomeTools
  MaxRewrites = 1
  Scores = {1, 2, 3}
  AskedScores = {0}
  defaultMinScore = 2
  InvalidIndex = FALSE
SPECIFICATION Spec
SYMMETRY Symmetry
INVARIANTS TypeOK AnswersReadable BestOfFileAnswered NoTwinsAnswered OnlyTwinsDropped FoundIsAnswered
