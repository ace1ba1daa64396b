SPECIFICATION Spec
CONSTANTS
  Pages = {1, 2, 3}
  Snapshots <- MCSnapshots
  Extras <- MCExtras
  NoSnapshot = NoSnapshot
INVARIANTS
  GateInv
  AdmittedIsCurrent
  BundleInv
CHECK_DEADLOCK FALSE
