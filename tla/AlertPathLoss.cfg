SPECIFICATION Spec
CONSTANTS
  low = low
  high = high
  area = area
  other = other
  local = local
  region = region
  session = session
  bad = bad
  Nobody = Nobody
  Alerts = {low, high}
  Areas = {area, other}
  Users = {local, region}
  Sessions = {session}
  KindOf <- Kind
  SeverityOf <- Severity
  AreaOf <- InArea
  Malformed = {low}
  UserOf <- User
  Scope <- Reach
  Regional = {region}
  MaxSends <- Sends
  MaxFaults = 1
PROPERTY EveryAlertRecorded
CHECK_DEADLOCK FALSE
