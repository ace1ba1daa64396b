SPECIFICATION Spec
CONSTANTS
  N = 5
  Plans <- PlanNames
  Steps <- PlanSteps
  Locks <- PlanLocks
  Entries <- PlanEntries
  ProbeUnits = {5}
  Scopes <- LeaseScopes
  Publishers = {p1, p2}
  Executors = {e1}
SYMMETRY PublisherSymmetry
CHECK_DEADLOCK FALSE
INVARIANTS
  OwnershipInv
  NoLostThread
  ReceiptIsVisible
  RetiredIsGone
PROPERTIES
  PoisonIsFinal
  RunsHooksAtomically
