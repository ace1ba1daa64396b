SPECIFICATION CampaignSpec
CONSTANTS
  Cases = {1, 2}
  Workers = {w1, w2, w3, w4}
SYMMETRY Symmetry
INVARIANTS
  VerdictInv
  TornDown
PROPERTIES
  OnlyOwnKilled
CHECK_DEADLOCK FALSE
