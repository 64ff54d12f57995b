SPECIFICATION Spec
CONSTANTS
  sensor = sensor
  area = area
  level = level
  Sensors = {sensor}
  Areas = {area}
  Params = {level}
  AreaOf <- Registered
  Values <- ValueSet
  NoBound = NoBound
  Rules <- RuleSet
  TTL = 2
  TrendWindow = 3
  HistoryMax = 3
  MaxDelay = 1
  MaxReadings = 4
  MaxChanges = 2
  MaxFaults = 1
INVARIANTS TypeOK TrendOverWindow
PROPERTY JudgedByRecentRules
CHECK_DEADLOCK FALSE
