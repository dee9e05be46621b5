SPECIFICATION FairSpec
CONSTANTS
  LineSize = 2
  NumSets = 2
  Associativity = 2
  NumMshrs = 3
  Latency = 1
  NumCores = 2
  Ipc = 2
  Depth = 3
  Expected = 4
  TraceSets <- TwoTraces
  BufferSize = 0
  MaxLines = 4
INVARIANT TypeOK
INVARIANT LinesRegistered
INVARIANT NoneForgotten
INVARIANT StoresKept
PROPERTY Finishes
