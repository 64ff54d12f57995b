SPECIFICATION Spec
CONSTANTS
  s1 = s1
  s2 = s2
  here = here
  there = there
  Unknown = Unknown
  Sensors = {s1}
  Areas = {here, there}
  AreaOf <- Registered
  TTL = 2
  MaxDelay = 1
  MaxMessages = 3
  MaxFaults = 2
INVARIANT TypeOK
PROPERTIES AdmittedWhileBound RejectedForCause LockoutEnds
CHECK_DEADLOCK FALSE
