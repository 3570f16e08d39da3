SPECIFICATION FairSpec
CONSTANTS
  OUTRING_SIZE = 3
  MaxOut = 3
  MinCounts = {1, 2}
  Timeouts <- SomeTimeouts
  MaxTime = 2
  StoreBuffer = 2
  Signals = TRUE
INVARIANT OversleepsOnce
INVARIANT Collectable
PROPERTY ForeverMeansForever
PROPERTY CompletedReturns
