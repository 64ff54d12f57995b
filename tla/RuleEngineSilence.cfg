SPECIFICATION SpecTasks
CONSTANTS
  s1 = s1
  s2 = s2
  a1 = a1
  p1 = p1
  p2 = p2
  Sensors = {s1, s2}
  Areas = {a1}
  Parameters = {p1}
  AreaOf <- OneArea
  Measures <- AllMeasure
  Seeded = TRUE
  Statuses = {0, 1}
  Breaches = {FALSE}
  MaxReadings = 3
  MaxScans = 1
  MaxCrashes = 0
  MaxLosses = 0
INVARIANT FaultAnnounced
CHECK_DEADLOCK FALSE
