CONSTANTS
  HeaderLen = 3
  SizeLen = 2
  Base = 2
  FrameSizes = {0, 1, 2}
  ReadSizes = {1, 2}
  MaxFrames = 3
SPECIFICATION Spec
INVARIANT ResultHoldsOutput
CHECK_DEADLOCK FALSE
