SPECIFICATION FairSpec
CONSTANTS
  Threads = {t1, t2, t3}
  AppRaces = FALSE
CHECK_DEADLOCK FALSE
INVARIANTS
  RouterInv
  NoGuardLost
  DelegatesToReplaced
PROPERTIES
  CustomIsKept
  PreparationReturns
