SPECIFICATION Spec
CONSTANTS
  Sensors = {s1}
  BatchMaxSize = 2
  MaxReadings = 3
  MaxStamp = 2
  MaxFaults = 2
  s1 = s1
INVARIANTS TypeOK WrittenInOrder NothingDropped HotStateFresh AnswerUpToDate
PROPERTY PersistedUnlessDisturbed
CHECK_DEADLOCK FALSE
