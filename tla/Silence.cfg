SPECIFICATION Spec
CONSTANTS
  FaultMin = 1
  FaultMax = 3
  HotTTL = 2
  MarkTTL = 7
  Timeout = 3
  MaxLag = 1
  MaxFlight = 3
INVARIANTS TypeOK FaultSeen MarkedForCause SilenceNoticed LatestNotStale
CHECK_DEADLOCK FALSE
