SPECIFICATION Spec
CONSTANTS
  c1 = c1
  c2 = c2
  m1 = m1
  m2 = m2
  m3 = m3
  Clients <- MCClients
  Monitors <- MCMonitors
  Owner <- MCOwner
  RegisterFirst = TRUE
  CallsMayFail = FALSE
  ServiceMayDie = FALSE
INVARIANT
  NobodyLeftMeansZero
CHECK_DEADLOCK FALSE
