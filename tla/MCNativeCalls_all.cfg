SPECIFICATION FairSpec
CONSTANTS
  c1 = c1
  c2 = c2
  Nobody = Nobody
  Calls <- MCCalls
  Values <- MCValues
  Initial = "0"
  MaxLives = 2
INVARIANTS
  TypeOK
  OutcomeTrue
  ReadFresh
  ListenerGated
  ServedByThisLife
PROPERTIES
  CallReturns
CHECK_DEADLOCK FALSE
