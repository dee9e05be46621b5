SPECIFICATION Spec
CONSTANTS
  Rows = {r1, r2, r3, r4}
  Dummy = none
  NumEntries = 2
  Threshold = 3
  Period = 16
  nRC = 2
  TwiceRows = {r1, r2, r3}
  RhThreshold = 4
  PruneRate = 2
  MaxRefs = 5
INVARIANT GrapheneTypeOK
INVARIANT GrapheneGuards
INVARIANT TwiceGuards
