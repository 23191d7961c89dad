CONSTANTS
  Managers = {m1}
  Callers = {c1, c2}
  Procs = {p1, p2}
  External = {}
  Contexts = {x1}
  MaxPolls = 1
  Flaky = TRUE
  Crashing = {}
  None = None
  Unstarted = Unstarted
SPECIFICATION FairSpec
INVARIANT TypeOK
PROPERTY CallsReturn
