CONSTANTS
  Vals = {v1, v2}
  Keys = {k1}
  Ports = {0, 80, 8080}
  Assigned = 49152
  Bare = bare
  MaxOpts = 3
  None = None
SPECIFICATION Spec
INVARIANTS TypeOK GetsWhatWasSaid ListsPublished OneNetwork CloneRunsSame NetworkReadsBack
CHECK_DEADLOCK FALSE
