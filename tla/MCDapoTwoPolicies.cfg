\* DAPO, two policy and two rollout replicas, a limit on the steps.
\* Deadlock is not checked: such a run may really stop, see MCAckRace.
SPECIFICATION FairSpec

CONSTANTS
  p1 = p1
  p2 = p2
  r1 = r1
  r2 = r2
  Policies <- TwoPolicies
  Rollouts <- TwoRollouts
  LeadPolicy = p1
  LeadRollout = r1
  TrainBatch = 1
  NGen = 1
  FetchBatch = 1
  OutdatedFetch = 1
  AllowedOutdated = 1
  SyncInterval = 1
  NumPrompts = 6
  MaxNumSteps = 2
  Dapo = TRUE
  OnPolicy = FALSE
  ValFreq = 0
  NumVal = 1
  MaxVersion = 12

INVARIANT StatusIsTrue
INVARIANT EndIsLast
INVARIANT StopMeansFinished
CHECK_DEADLOCK FALSE
