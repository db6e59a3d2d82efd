\* Fully synchronised training with two policy replicas.
SPECIFICATION FairSpec

CONSTANTS
  p1 = p1
  p2 = p2
  r1 = r1
  r2 = r2
  Policies <- TwoPolicies
  Rollouts <- TwoRollouts
  LeadPolicy = p1
  LeadRollout = r1
  TrainBatch = 2
  NGen = 2
  FetchBatch = 1
  OutdatedFetch = 0
  AllowedOutdated = 0
  SyncInterval = 1
  NumPrompts = 12
  MaxNumSteps = 0
  Dapo = FALSE
  OnPolicy = TRUE
  ValFreq = 0
  NumVal = 1
  MaxVersion = 12

INVARIANT NoneDropped
