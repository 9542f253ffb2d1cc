SPECIFICATION Spec
CONSTANTS
  c1 = c1
  c2 = c2
  m1 = m1
  m2 = m2
  m3 = m3
  Clients <- MCClients1
  Monitors <- MCMonitors1
  Owner <- MCOwner1
  RegisterFirst = TRUE
  CallsMayFail = FALSE
  ServiceMayDie = FALSE
INVARIANT
  AutorefreshRestored
CHECK_DEADLOCK FALSE
