SPECIFICATION FairSpec
CONSTANT MaxBroadcasts = 3
INVARIANTS
  TypeOK
  LockMatchesSensor
PROPERTIES
  TakenOffReleases
  UnpluggedReleases
CHECK_DEADLOCK FALSE
