SPECIFICATION FairSpec
CONSTANTS
  d1 = d1
  d2 = d2
  d3 = d3
  Deposit <- TwoDeposits
  GlobalExitRoot <- TwoRoots
  TriggerNumberOfClaims = 2
  MaxNumberOfClaimsPerGroup = 2
  TriggerRetainedClaimPeriod = 1
  MaxRetries = 2
  RetryInterval = 1
  RetryTimeout = 1
  MaxAge = 2
  MaxFaults = 1
INVARIANT SendsBounded
PROPERTY EverythingSettles
