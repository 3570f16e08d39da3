SPECIFICATION Spec
CONSTANTS
  Threads = {t1, t2}
  t1 = t1
  t2 = t2
  NULL = NULL
  Requests <- Calls
  BlockSize = 3
  NumBlocks = 3
  XferMod = 3
INVARIANT CountTellsFailure
PROPERTY SyncReported
PROPERTY SyncReadReturned
PROPERTY SyncWellPlaced
CHECK_DEADLOCK FALSE
