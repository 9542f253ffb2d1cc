SPECIFICATION FairSpec
CONSTANTS
  c1 = c1
  c2 = c2
  m1 = m1
  m2 = m2
  m3 = m3
  Clients <- MCClients
  Monitors <- MCMonitors
  Owner <- MCOwner
  RegisterFirst = FALSE
  CallsMayFail = TRUE
  ServiceMayDie = TRUE
INVARIANTS
  TypeOK
  CountExact
PROPERTIES
  RestoreOnlyWhenNobody
  DeadForgotten
  RestoredInTheEnd
CHECK_DEADLOCK FALSE
