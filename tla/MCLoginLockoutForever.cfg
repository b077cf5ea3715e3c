SPECIFICATION FairSpec
CONSTANTS
  Proc = {p1}
  MaxAttempts = 5
  Window = 2
  MaxCrashes = 1
CHECK_DEADLOCK FALSE
PROPERTIES LockAlwaysEnds
