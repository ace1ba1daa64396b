SPECIFICATION Spec
CONSTANTS
  Threads = {t1, t2}
  AppRaces = TRUE
CHECK_DEADLOCK FALSE
PROPERTIES
  CustomIsKept
