\* Three prompts for two policies, twice: one policy has twice as many as the other.
SPECIFICATION FairSpec
CONSTANTS
  NumPolicies = 2
  NumRollouts = 2
  Size = 3
  Epochs = 2
  Orders <- InOrder
  TrainBatch = 1
  NGen = 1
  FetchBatch = 1
  OutdatedFetch = 1
  AllowedOutdated = 1
  SyncInterval = 1
  MaxVersion = 8
PROPERTY Terminates
CHECK_DEADLOCK FALSE
