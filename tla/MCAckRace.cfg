\* DAPO with two policy replicas: one may answer the last, empty DataFetch before
\* the other has answered the one before it.
SPECIFICATION FairSpec

CONSTANTS
  p1 = p1
  p2 = p2
  r1 = r1
  r2 = r2
  Policies <- TwoPolicies
  Rollouts <- OneRollout
  LeadPolicy = p1
  LeadRollout = r1
  TrainBatch = 1
  NGen = 1
  FetchBatch = 1
  OutdatedFetch = 1
  AllowedOutdated = 1
  SyncInterval = 1
  NumPrompts = 6
  MaxNumSteps = 0
  Dapo = TRUE
  OnPolicy = FALSE
  ValFreq = 0
  NumVal = 1
  MaxVersion = 12

PROPERTY Terminates
CHECK_DEADLOCK FALSE
