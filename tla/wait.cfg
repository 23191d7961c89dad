CONSTANTS
  Waits = {w1, w2}
  ExitCodes = {0, 1}
  None = None
SPECIFICATION FairSpec
INVARIANTS TypeOK Inv BothTell OneOutcome
PROPERTY EndsAlone
CHECK_DEADLOCK FALSE
