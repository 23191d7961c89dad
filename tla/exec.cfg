CONSTANTS
  HeaderLen = 3
  SizeLen = 2
  Base = 2
  FrameSizes = {0, 1, 2}
  ReadSizes = {1, 2}
  MaxFrames = 3
SPECIFICATION FairSpec
INVARIANTS TypeOK Conserved ConnAccounted
PROPERTIES KeepsPipe ExecReturns ReadsReturn
CHECK_DEADLOCK FALSE
