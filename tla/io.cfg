SPECIFICATION FairSpec
CONSTANTS
  Reqs = {r1, r2}
  r1 = r1
  r2 = r2
  NULL = NULL
  Requests <- Inside
  BlockSize = 3
  NumBlocks = 3
  XferMod = 16
INVARIANT TaskLayout
INVARIANT AssertResid
INVARIANT FullResult
PROPERTY Reported
PROPERTY ReadReturned
PROPERTY WellPlaced
PROPERTY EventuallyDone
CHECK_DEADLOCK FALSE
