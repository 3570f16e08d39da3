CONSTANTS
  p1 = p1
  t1 = t1
  t2 = t2
  NULL = NULL
  Threads = {p1}
  Tasks = {t1, t2}
  Num = 8
  IdxMod = 8
  Counts = {2, 4}
  MaxPut = 9
  InOrder = TRUE
  DeviceSleeps = FALSE
SPECIFICATION Spec
SYMMETRY Symmetry
INVARIANTS
  ChainIntact
  ExactlyOnce
