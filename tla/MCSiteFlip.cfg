SPECIFICATION Spec
CONSTANTS
  Executors = {e1, e2, e3}
  Islands = {i1, i2, i3}
  NoIsland = NoIsland
  ForeignWriter = TRUE
SYMMETRY Symmetry
CHECK_DEADLOCK FALSE
INVARIANTS
  SiteInv
  BranchesLeadSomewhere
  BrkIsOwned
PROPERTIES
  ForeignWordKept
