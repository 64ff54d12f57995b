SPECIFICATION Spec
CONSTANTS
  low = low
  high = high
  area = area
  other = other
  local = local
  region = region
  session = session
  Nobody = Nobody
  Alerts = {low, high, bad}
  bad = bad
  Areas = {area, other}
  Users = {local, region}
  Sessions = {session}
  KindOf <- Kind
  SeverityOf <- Severity
  AreaOf <- InArea
  Malformed = {bad}
  UserOf <- User
  Scope <- Reach
  Regional = {region}
  MaxSends <- Sends
  MaxFaults = 1
INVARIANTS TypeOK SeenIsRecorded PushedOnce OneAcknowledger
PROPERTIES LiveDelivery ImplementsLedger
CHECK_DEADLOCK FALSE
