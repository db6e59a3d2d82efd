\* A share of a step is one prompt and a half: samples are left over and some get outdated.
SPECIFICATION FairSpec
CONSTANTS
  NumPolicies = 2
  NumRollouts = 2
  Size = 6
  Epochs = 2
  Orders <- InOrder
  TrainBatch = 3
  NGen = 2
  FetchBatch = 2
  OutdatedFetch = 2
  AllowedOutdated = 1
  SyncInterval = 1
  MaxVersion = 14
INVARIANT TypeOK
INVARIANT RemainIsExact
INVARIANT PromptsAreSeparate
INVARIANT OnTheFlyCovers
CHECK_DEADLOCK FALSE
