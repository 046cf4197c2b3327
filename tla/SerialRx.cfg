SPECIFICATION FairSpec
CONSTANTS
  N = 3  SemMax = 2  MaxBytes = 5  MaxLen = 2  MaxSessions = 1
INVARIANTS TypeOK NoLostWakeup IndicatorAlive
PROPERTIES BoundedQueue EveryByteServed
CHECK_DEADLOCK FALSE
