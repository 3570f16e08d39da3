SPECIFICATION Spec
CONSTANTS
  NumJobs = 3
  Depth <- Depths
  Files <- TwoDevices
  RingCap = 2
  MinLimit = 2
  NULL = NULL
INVARIANT RightDevice
CHECK_DEADLOCK FALSE
