\* Three policies of which one may die and another hang.
SPECIFICATION FairSpec
CONSTANTS
  Policies = {1, 2, 3}
  NumOps = 2
  MaxRetry = 2
  MayDie = {1}
  MayHang = {2}
  MaxStops = 2
INVARIANT TypeOK
INVARIANT SameGradient
INVARIANT ReadyMeansUsable
PROPERTY Recovers
CHECK_DEADLOCK FALSE
