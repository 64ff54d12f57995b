SPECIFICATION SpecConsumer
CONSTANTS
  s1 = s1
  s2 = s2
  a1 = a1
  p1 = p1
  p2 = p2
  Sensors = {s1, s2}
  Areas = {a1}
  Parameters = {p1, p2}
  AreaOf <- OneArea
  Measures <- Overlap
  Seeded = FALSE
  Statuses = {0, 1, 2}
  Breaches = {TRUE}
  MaxReadings = 4
  MaxScans = 0
  MaxCrashes = 0
  MaxLosses = 0
INVARIANT EscalationMeansTotalLoss
CHECK_DEADLOCK FALSE
