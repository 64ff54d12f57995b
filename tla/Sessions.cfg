SPECIFICATION Spec
CONSTANTS
  area = area
  city = city
  region = region
  a1 = a1
  c1 = c1
  r1 = r1
  j1 = j1
  q1 = q1
  q2 = q2
  a2 = a2
  c2 = c2
  r2 = r2
  Users = {area, city, region}
  Jtis = {j1}
  Requests = {q1, q2}
  Regions = {r1, r2}
  Cities = {c1, c2}
  Areas = {a1, a2}
  RegionOf <- InRegion
  CityOf <- InCity
  RoleOf <- Role
  Jurisdiction <- Charge
  AccessTTL = 0
  RefreshTTL = 2
  ScopeTTL = 1
  MaxDelay = 1
  MaxRestarts = 1
SYMMETRY Symmetry
INVARIANTS TypeOK NotExtendedAfterLogout AnswersEnd ScopeCurrent
CHECK_DEADLOCK FALSE
