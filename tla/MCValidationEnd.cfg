\* DAPO with validation at every second step: all prompts may be used up, with
\* too few samples left for a step, while a validation is active.
SPECIFICATION FairSpec

CONSTANTS
  p1 = p1
  p2 = p2
  r1 = r1
  r2 = r2
  Policies <- OnePolicy
  Rollouts <- OneRollout
  LeadPolicy = p1
  LeadRollout = r1
  TrainBatch = 2
  NGen = 1
  FetchBatch = 1
  OutdatedFetch = 1
  AllowedOutdated = 1
  SyncInterval = 1
  NumPrompts = 6
  MaxNumSteps = 0
  Dapo = TRUE
  OnPolicy = FALSE
  ValFreq = 2
  NumVal = 1
  MaxVersion = 12

PROPERTY Terminates
CHECK_DEADLOCK FALSE
