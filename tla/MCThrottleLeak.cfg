\* As MCAsyncOutdated, with the default outdated_rollout_fetch_batch_size of 0.
SPECIFICATION FairSpec

CONSTANTS
  p1 = p1
  p2 = p2
  r1 = r1
  r2 = r2
  Policies <- OnePolicy
  Rollouts <- TwoRollouts
  LeadPolicy = p1
  LeadRollout = r1
  TrainBatch = 3
  NGen = 2
  FetchBatch = 1
  OutdatedFetch = 0
  AllowedOutdated = 1
  SyncInterval = 1
  NumPrompts = 6
  MaxNumSteps = 0
  Dapo = FALSE
  OnPolicy = FALSE
  ValFreq = 0
  NumVal = 1
  MaxVersion = 12

PROPERTY Terminates
CHECK_DEADLOCK FALSE
