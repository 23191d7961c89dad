CONSTANTS
  Callers = {c1, c2}
  Conns = {k1}
  Used <- OneOfEach
  None = None
SPECIFICATION FairSpec
INVARIANTS TypeOK Accounted
PROPERTIES OkMeansWhole CancelReturns
