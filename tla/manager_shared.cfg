CONSTANTS
  Managers = {m1}
  Callers = {c1, c2}
  Procs = {p1, p2, e}
  External = {e}
  Contexts = {x1}
  MaxPolls = 1
  Flaky = TRUE
  Crashing = {m1}
  None = None
  Unstarted = Unstarted
SYMMETRY Alike
VIEW Seen
SPECIFICATION Spec
INVARIANTS Inv BootsOnFreePath
PROPERTIES SignalsOnlyOwn FailedStartReaps ReadyIsOwn KeepsPromise
