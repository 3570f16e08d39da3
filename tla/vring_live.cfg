CONSTANTS
  p1 = p1
  p2 = p2
  t1 = t1
  t2 = t2
  NULL = NULL
  Threads = {p1, p2}
  Tasks = {t1, t2}
  Num = 4
  IdxMod = 4
  Counts = {3}
  MaxPut = 2
  InOrder = FALSE
  DeviceSleeps = TRUE
SPECIFICATION SerialFairSpec
INVARIANTS
  NoLostKick
PROPERTIES
  Delivered
  PutReturns
