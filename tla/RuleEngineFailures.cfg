SPECIFICATION Spec
CONSTANTS
  s1 = s1
  s2 = s2
  a1 = a1
  p1 = p1
  p2 = p2
  Sensors = {s1}
  Areas = {a1}
  Parameters = {p1}
  AreaOf <- OneArea
  Measures <- AllMeasure
  Seeded = FALSE
  Statuses = {0, 1}
  Breaches = {FALSE}
  MaxReadings = 3
  MaxScans = 2
  MaxCrashes = 1
  MaxLosses = 1
INVARIANTS TypeOK OneAlertPerEpisode DriftBounded
CHECK_DEADLOCK FALSE
