SPECIFICATION Spec
CONSTANTS
  PseudoChannels = 2
  Ranks = 1
  BankGroups = 2
  Banks = 2
  T <- SmallTimings
  Programs <- DramPrograms
  Eager <- NoPrograms
  Stray <- NoTypes
  MaxSize = 2
  PrioritySize = 4
  HighMark = 1
  LowMark = 1
PROPERTY TimingRespected
CHECK_DEADLOCK FALSE
