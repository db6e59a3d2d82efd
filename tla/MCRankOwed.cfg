\* The last end signal comes with a global batch in one buffer.
SPECIFICATION FairSpec
CONSTANTS
  NumPolicies = 2
  NumRollouts = 2
  Size = 6
  Epochs = 2
  Orders <- InOrder
  TrainBatch = 3
  NGen = 2
  FetchBatch = 2
  OutdatedFetch = 2
  AllowedOutdated = 1
  SyncInterval = 1
  MaxVersion = 14
INVARIANT NoStepIsOwed
CHECK_DEADLOCK FALSE
