SPECIFICATION HFairSpec
CONSTANTS
  Block <- MCBlock
  NoHash = NoHash
  Number <- MCNumber
  Anc <- MCAnc
  Events <- MCEvents
  FirstDeposit <- MCFirstDeposit
  DepositCount <- MCDepositCount
  Ger <- MCGer
  GenBlock = 1
  SyncChunkSize = 1
  IsL1 = TRUE
  ForceSyncChunk = FALSE
  Sovereign = FALSE
  TrustedRoots = {}
  MaxFaults = 1
  DbFaults = TRUE
  HeadMayDrop = TRUE
  ReorgUnchecked = FALSE
INVARIANTS
  HInv
  TreeUnlessTorn
  AnnouncedUnlessCut
PROPERTIES
  LedgerSpec
  NoNeedlessRewind
  Recovers
