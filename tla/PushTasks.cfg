SPECIFICATION Spec
CONSTANTS
  Instance = {i1, i2}
  L1Deposit <- MCL1Deposit
  L2Deposit <- MCL2Deposit
  BlockOf <- MCBlockOf
  TxOf <- MCTxOf
  MaxHead = 3
  Confirmations = 1
  Batches = 3
  BatchEnd <- MCBatchEnd
  PageLimit = 1
  ListLen = 1
  MaxReorgs <- MCMaxReorgs
  MaxFaults = 1
INVARIANTS LockExclusive NoneSkipped PushedOnce
PROPERTIES NumbersOnlyGrow Announced
