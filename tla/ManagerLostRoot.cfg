SPECIFICATION MCFairSpec
CONSTANTS
  n1 = n1
  elsewhere = elsewhere
  Network = {n1}
  NumRoots = 3
  L1Deposit = {1, 2, 3}
  Dest <- MCDest
  Mainnet <- MCMainnet
  Rollup <- MCRollup
  MaxFaults = 0
PROPERTY AutoClaimed
CHECK_DEADLOCK FALSE
