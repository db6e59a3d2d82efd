\* A group of two or three policies that take two messages each to register, and two
\* rollouts; the first policy may die at any time and the first rollout may exit.
SPECIFICATION FairSpec

CONSTANTS
  p1 = p1
  p2 = p2
  p3 = p3
  r1 = r1
  r2 = r2
  Policies <- ThreePolicies
  Rollouts <- TwoRollouts
  PolicyAtoms = 2
  RolloutAtoms = 1
  InitPolicies = 2
  InitRollouts = 1
  Prompts = 4
  MaxNumSteps = 2
  SyncInterval = 1
  AllowedOutdated = 0
  MayExit <- OneRollout
  MayCrash <- OnePolicy

\* The run ends, or it stops where the controller leaves it.
CHECK_DEADLOCK FALSE

INVARIANT TypeOK
INVARIANT MeshIsCurrent
INVARIANT PoliciesAgree
INVARIANT TotalIsReachable
INVARIANT OnTheFlyCovers
INVARIANT RolloutsAreServed
PROPERTY TrainsInLockstep
PROPERTY RunCompletes
