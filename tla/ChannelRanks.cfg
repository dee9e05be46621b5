SPECIFICATION Spec
CONSTANTS
  NumRanks = 2
  NumBanks = 2
  BanksPerGroup = 1
  BL = 2
  AL = 0
  RL = 2
  WL = 1
  tCCDS = 1
  tCCDL = 2
  tRCDRD = 2
  tRCDWR = 1
  tRAS = 3
  tRC = 5
  tRP = 2
  tRRDS = 1
  tRRDL = 2
  tRTPL = 3
  tRTRS = 1
  tWR = 1
  tWTRS = 0
  tWTRL = 1
  tRFC = 3
  CmdQueueDepth = 1
  RankThenBank = FALSE
  TransQueueDepth = 1
  tREFI = 14
  Locations <- TwoRanks
  Batch = FALSE
  NumTrans = 2
  NumValues = 1
INVARIANT NoCheckFails
INVARIANT OnFlyExact
INVARIANT ReadsAccounted
PROPERTY ImplementsTiming
