CONSTANTS
  Managers = {m1}
  Callers = {c1, c2}
  Procs = {p1, p2}
  External = {}
  Contexts = {x1, x2}
  MaxPolls = 1
  Flaky = FALSE
  Crashing = {}
  None = None
  Unstarted = Unstarted
SPECIFICATION Spec
PROPERTY RemovesOnlyStale
