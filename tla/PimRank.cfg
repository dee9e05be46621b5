SPECIFICATION RankSpec
CONSTANTS
  NumBlocks = 2
  CrfSize = 8
  Zero = 0
  AddOf <- Both
  MulOf <- Both
  MacOf <- AllThree
  MadOf <- AllThree
  ReluOf <- Only
  LaneOf <- Both
  Content <- Only
  Packets <- ClientPackets
INVARIANT TypeOK
INVARIANT SequencerInside
INVARIANT RepeatBelongs
CHECK_DEADLOCK FALSE
