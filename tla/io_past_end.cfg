SPECIFICATION Spec
CONSTANTS
  Reqs = {r1}
  r1 = r1
  NULL = NULL
  Requests <- PastEnd
  BlockSize = 2
  NumBlocks = 2
  XferMod = 16
INVARIANT AssertResid
CHECK_DEADLOCK FALSE
