SPECIFICATION FairSpec
CONSTANTS
  d1 = d1
  d2 = d2
  Nobody = Nobody
  Downloads <- MCDownloads2
  Sizes <- MCSizes
  MaxInt = 127
  MaxInFlight = 1
  Faults = TRUE
INVARIANTS
  TypeOK
  OneAtATime
  AddressHeld
  OutcomeTold
  PercentGrows
PROPERTIES
  DownloadReturns
  AddressReleased
CHECK_DEADLOCK FALSE
