SPECIFICATION Spec
CONSTANTS
  d1 = d1
  d2 = d2
  d3 = d3
  Deposit <- Deposits
  GlobalExitRoot <- Roots
  TriggerNumberOfClaims = 2
  MaxNumberOfClaimsPerGroup = 2
  TriggerRetainedClaimPeriod = 1
  MaxRetries = 2
  RetryInterval = 1
  RetryTimeout = 1
  MaxAge = 2
  MaxFaults = 0
INVARIANT GroupsPartitionRows
INVARIANT OnePendingClaim
INVARIANT SuccessIsKept

SYMMETRY SwapEqualRoots
PROPERTY LifecycleSpec
