SPECIFICATION Spec
CONSTANTS
  Procs = {p1, p2}
  Root = p1
  Threads = {t1, t2}
  Hooks = {h1}
  Explicit = {h1}
  Slots = 2
CHECK_DEADLOCK FALSE
INVARIANTS
  ReturnedIsListed
