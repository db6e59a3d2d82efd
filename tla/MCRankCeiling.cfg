\* Fully synchronised, with a share of one prompt and a half.
SPECIFICATION FairSpec
CONSTANTS
  NumPolicies = 2
  NumRollouts = 2
  Size = 6
  Epochs = 2
  Orders <- InOrder
  TrainBatch = 3
  NGen = 2
  FetchBatch = 1
  OutdatedFetch = 1
  AllowedOutdated = 0
  SyncInterval = 1
  MaxVersion = 12
PROPERTY Terminates
CHECK_DEADLOCK FALSE
