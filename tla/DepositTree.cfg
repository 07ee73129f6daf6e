SPECIFICATION Spec
CONSTANTS
  c1 = c1
  c2 = c2
  Content <- MCContent
  Height = 3
  MaxInBlock = 3
  MaxDeposits = 7
  MaxFaults = 2
SYMMETRY Swap
INVARIANTS
  RootsRight
  ProofsVerify
  RefusesOnlyAfterFailure
  RestartAccepts
