\* Three steps of two prompts and a last, short batch; validation at every second step.
SPECIFICATION FairSpec
CONSTANTS
  MaxConcurrent = 2
  BatchSize = 2
  NumPrompts = 7
  NumVal = 3
  StepPrompts = 2
  TotalSteps = 3
  ValFreq = 2
  AllowedOutdated = 1
  MaxFail = 1
INVARIANT TypeOK
INVARIANT InFlightIsBounded
INVARIANT EndLeavesAtMostOne
PROPERTY ValidationEnds
PROPERTY RunEnds
CHECK_DEADLOCK FALSE
