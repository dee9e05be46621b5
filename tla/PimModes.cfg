SPECIFICATION PimFairSpec
CONSTANTS
  NumRanks = 1
  NumBanks = 16
  BanksPerGroup = 4
  BL = 4
  AL = 0
  RL = 5
  WL = 2
  tCCDS = 2
  tCCDL = 3
  tRCDRD = 4
  tRCDWR = 3
  tRAS = 8
  tRC = 12
  tRP = 4
  tRRDS = 1
  tRRDL = 2
  tRTPL = 2
  tRTRS = 1
  tWR = 4
  tWTRS = 1
  tWTRL = 2
  tRFC = 20
  CmdQueueDepth = 64
  RankThenBank = TRUE
  TransQueueDepth = 64
  tREFI = 100
  Locations <- HostLocations
  Batch = TRUE
  NumTrans = 1
  NumValues = 2
  NumGrf = 8
  Kernels = {"ELTWISE", "GEMV", "REDUCTION", "BANDWIDTH", "CONV1D"}
  Preloads <- FewPreloads
INVARIANT PimTypeOK
INVARIANT RankNeverExits
INVARIANT FoundInMode
INVARIANT BarriersStand
PROPERTY SwitchesQuiet
PROPERTY HostEnds
CHECK_DEADLOCK FALSE
