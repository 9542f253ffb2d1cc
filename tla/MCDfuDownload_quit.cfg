SPECIFICATION Spec
CONSTANTS
  d1 = d1
  d2 = d2
  Nobody = Nobody
  Downloads <- MCDownloads2
  Sizes <- MCSizes1
  MaxInt = 255
  MaxInFlight = 1
  Faults = FALSE
INVARIANT
  FailureMeansQuit
CHECK_DEADLOCK FALSE
