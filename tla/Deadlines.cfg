SPECIFICATION Spec
CONSTANTS
  MaxScheduleStarts = 3
  MaxConcurrentTimers = 2
  MaxDepth = 4
CHECK_DEADLOCK FALSE
INVARIANTS
  CleanCloseIsClean
PROPERTIES
  CalledInTime
  CloseSettles
