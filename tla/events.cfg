CONSTANTS
  MaxEvents = 4
  None = None
SPECIFICATION RangingSpec
INVARIANTS TypeOK NoLoss ClosedSaysWhy
PROPERTY Ends
CHECK_DEADLOCK FALSE
