SPECIFICATION MCSpec
CONSTANTS
  Height = 2
  Content = {10, 11}
  Synced = 3
  Foreign = 1
  L2Deposits = 1
  MaxBlocks = 2
  MaxRoots = 2
  MaxLate = 3
  MaxReorgs = 1
  MaxRemovals = 1
INVARIANTS
  LeavesFollowL1
  RowsCompleted
  ReadyCovered
  ProofsGood
CHECK_DEADLOCK FALSE
PROPERTIES
  DepositsBecomeReady
  ExitsBecomeReady
