SPECIFICATION HFairSpec
CONSTANTS
  Block <- L2Block
  NoHash = NoHash
  Number <- L2Number
  Anc <- L2Anc
  Events <- L2Events
  FirstDeposit <- L2FirstDeposit
  DepositCount <- L2DepositCount
  Ger <- L2Ger
  GenBlock = 0
  SyncChunkSize = 1
  IsL1 = FALSE
  ForceSyncChunk = TRUE
  Sovereign = FALSE
  TrustedRoots = {3}
  MaxFaults = 0
  DbFaults = FALSE
  HeadMayDrop = TRUE
  ReorgUnchecked = FALSE
INVARIANTS
  OneForkUnlessStray
PROPERTIES
  CatchesUp
