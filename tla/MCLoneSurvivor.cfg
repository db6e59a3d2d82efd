\* Two policies of which one may hang.
SPECIFICATION FairSpec
CONSTANTS
  Policies = {1, 2}
  NumOps = 2
  MaxRetry = 3
  MayDie = {}
  MayHang = {2}
  MaxStops = 1
PROPERTY TimeoutDoesNotBlock
CHECK_DEADLOCK FALSE
