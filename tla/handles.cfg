CONSTANTS
  Names = {n1}
  Refs = {r1, r2}
  Images = {m1, m2}
  MaxCtrs = 2
  MaxCalls = 3
  MaxOthers = 1
  None = None
SPECIFICATION Spec
INVARIANTS TypeOK Inv StaysOnTarget DeletedMeansGone NotFoundMeansGone
PROPERTY KeepsEffects
CHECK_DEADLOCK FALSE
SYMMETRY Alike
