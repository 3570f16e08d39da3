SPECIFICATION FairSpec
CONSTANTS
  NumJobs = 3
  Depth <- Depths
  Files <- OneDevice
  RingCap = 2
  MinLimit = 2
  NULL = NULL
INVARIANT InUseIsHeld
INVARIANT NothingReleasedTwice
INVARIANT OnlyKnownLeaks
INVARIANT JobHasDevice
INVARIANT DepthTrue
PROPERTY OpenReturns
PROPERTY JobGoesOn
CHECK_DEADLOCK FALSE
