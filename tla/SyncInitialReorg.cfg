SPECIFICATION HSpec
CONSTANTS
  Block <- MCBlock
  NoHash = NoHash
  Number <- MCNumber
  Anc <- MCAnc
  Events <- MCEvents
  FirstDeposit <- MCFirstDeposit
  DepositCount <- MCDepositCount
  Ger <- MCGer
  GenBlock = 1
  SyncChunkSize = 1
  IsL1 = TRUE
  ForceSyncChunk = FALSE
  Sovereign = FALSE
  TrustedRoots = {}
  MaxFaults = 0
  DbFaults = FALSE
  HeadMayDrop = FALSE
  ReorgUnchecked = TRUE
INVARIANTS
  OneFork
