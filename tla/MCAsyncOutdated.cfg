\* GRPO, two rollout replicas whose samples arrive in any order; the global batch
\* (3) is not a multiple of the samples per prompt (2) and samples get outdated.
SPECIFICATION FairSpec

CONSTANTS
  p1 = p1
  p2 = p2
  r1 = r1
  r2 = r2
  Policies <- OnePolicy
  Rollouts <- TwoRollouts
  LeadPolicy = p1
  LeadRollout = r1
  TrainBatch = 3
  NGen = 2
  FetchBatch = 1
  OutdatedFetch = 1
  AllowedOutdated = 1
  SyncInterval = 1
  NumPrompts = 10
  MaxNumSteps = 0
  Dapo = FALSE
  OnPolicy = FALSE
  ValFreq = 0
  NumVal = 1
  MaxVersion = 12

INVARIANT StaleBound
INVARIANT RemainIsExact
INVARIANT OnTheFlyCovers
PROPERTY Terminates
