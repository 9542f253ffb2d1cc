SPECIFICATION Spec
CONSTANTS
  c1 = c1
  c2 = c2
  Nobody = Nobody
  Calls <- MCCalls
  Values <- MCValues
  Initial = "0"
  MaxLives = 2
INVARIANT
  SchedulerArgsKept
CHECK_DEADLOCK FALSE
