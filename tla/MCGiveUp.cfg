\* One try each, and one of three policies dies: the other two get out of step.
SPECIFICATION Spec
CONSTANTS
  Policies = {1, 2, 3}
  NumOps = 2
  MaxRetry = 1
  MayDie = {1}
  MayHang = {}
  MaxStops = 1
INVARIANT AlignedAfterGivingUp
CHECK_DEADLOCK FALSE
