\* Shares of the same size: a step takes one prompt for each policy, in any of three orders.
SPECIFICATION FairSpec
CONSTANTS
  NumPolicies = 2
  NumRollouts = 2
  Size = 4
  Epochs = 2
  Orders <- Shuffled
  TrainBatch = 2
  NGen = 2
  FetchBatch = 2
  OutdatedFetch = 1
  AllowedOutdated = 2
  SyncInterval = 2
  MaxVersion = 8
INVARIANT ThrottleIsExact
PROPERTY StaleBound
PROPERTY Terminates
CHECK_DEADLOCK FALSE
