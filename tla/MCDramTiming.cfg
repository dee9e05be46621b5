SPECIFICATION Spec
CONSTANTS
  NumRanks = 1
  NumBanks = 3
  BanksPerGroup = 2
  BL = 2
  AL = 0
  RL = 2
  WL = 1
  tCCDS = 1
  tCCDL = 2
  tRCDRD = 2
  tRCDWR = 1
  tRAS = 3
  tRC = 5
  tRP = 2
  tRRDS = 1
  tRRDL = 2
  tRTPL = 3
  tRTRS = 1
  tWR = 1
  tWTRS = 0
  tWTRL = 1
  tRFC = 3
  Rows = {0, 8192}
INVARIANT TypeOK
INVARIANT NeverExits
INVARIANT ShadowConservative
