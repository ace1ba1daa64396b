SPECIFICATION Spec
CONSTANTS
  Procs = {p1, p2}
  Root = p1
  Threads = {t1, t2}
  Hooks = {h1, h2}
  Explicit = {h2}
  Slots = 2
CHECK_DEADLOCK FALSE
SYMMETRY Symmetry
INVARIANTS
  HookInv
  RunsOwnCode
  InsideIsTranslated
PROPERTIES
  SlotWrittenOnce
