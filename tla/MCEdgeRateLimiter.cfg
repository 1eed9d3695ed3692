SPECIFICATION FairSpec
CONSTANTS
  c1 = c1
  c2 = c2
  c3 = c3
  None = None
  Check <- ThreeChecks
  Limit = 2
  Window = 2
  MaxTime = 9
  LastSend = 5
  MayCrash = TRUE
INVARIANTS AlarmFitsRecord WindowLimit
PROPERTY StorageIsReclaimed
CHECK_DEADLOCK FALSE
