\* Much room for asynchrony: one sample a step, ten steps, weights every second step, and
\* validation at step 7, whose weights are sent for it alone, and at the last one.
SPECIFICATION FairSpec

CONSTANTS
  p1 = p1
  p2 = p2
  r1 = r1
  r2 = r2
  Policies <- OnePolicy
  Rollouts <- TwoRollouts
  LeadPolicy = p1
  LeadRollout = r1
  TrainBatch = 1
  NGen = 1
  FetchBatch = 1
  OutdatedFetch = 0
  AllowedOutdated = 7
  SyncInterval = 2
  NumPrompts = 10
  MaxNumSteps = 0
  Dapo = FALSE
  OnPolicy = FALSE
  ValFreq = 7
  NumVal = 2
  MaxVersion = 12

INVARIANT TypeOK
INVARIANT ValidationIsConserved
INVARIANT ValidationIsOpen
PROPERTY Terminates
INVARIANT LabelsAreTrue
INVARIANT CollectivesMatch
INVARIANT LagIsBounded
PROPERTY VersionsAdvance
