CONSTANTS
  MaxEvents = 4
  None = None
SPECIFICATION FairSpec
PROPERTY CancelCloses
CHECK_DEADLOCK FALSE
