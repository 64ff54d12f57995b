SPECIFICATION Spec
CONSTANTS
  Sensors = {s1}
  BatchMaxSize = 2
  MaxReadings = 1
  MaxStamp = 1
  MaxFaults = 1
  s1 = s1
PROPERTY FailedBatchRetried
CHECK_DEADLOCK FALSE
