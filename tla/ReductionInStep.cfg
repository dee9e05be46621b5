SPECIFICATION Spec
CONSTANTS
  NumBlocks = 8
  CrfSize = 16
  Zero = {}
  AddOf <- Sum
  MulOf <- Product
  MacOf <- SumOnto
  MadOf <- SumWith
  ReluOf <- Rectify
  LaneOf <- LaneOfBurst
  Content <- Formal
  Packets <- KernelPackets
  Jobs <- ReductionJob
INVARIANT InStep
