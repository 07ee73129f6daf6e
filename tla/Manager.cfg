SPECIFICATION Spec
CONSTANTS
  n1 = n1
  elsewhere = elsewhere
  Network = {n1}
  NumRoots = 3
  L1Deposit = {1, 2, 3}
  Dest <- MCDest
  Mainnet <- MCMainnet
  Rollup <- MCRollup
  MaxFaults = 1
INVARIANTS
  QueuedOnDestination
  ReadyOnL1
  ReadyIsQueued
  IInv
CHECK_DEADLOCK FALSE
