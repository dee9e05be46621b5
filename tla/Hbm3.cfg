SPECIFICATION FairSpec
CONSTANTS
  PseudoChannels = 2
  Ranks = 1
  BankGroups = 2
  Banks = 2
  T <- SmallTimings
  Programs <- AllPrograms
  Eager <- EagerPrograms
  Stray <- AllTypes
  MaxSize = 2
  PrioritySize = 4
  HighMark = 1
  LowMark = 1
INVARIANT TypeOK
INVARIANT NeverThrows
INVARIANT OneRowOpen
PROPERTY EveryRequestServed
PROPERTY ServesInOrder
PROPERTY Drains
CHECK_DEADLOCK FALSE
