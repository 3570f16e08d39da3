CONSTANTS
  p1 = p1
  p2 = p2
  t1 = t1
  t2 = t2
  t3 = t3
  NULL = NULL
  Threads = {p1, p2}
  Tasks = {t1, t2, t3}
  Num = 4
  IdxMod = 4
  Counts = {2}
  MaxPut = 4
  InOrder = FALSE
  DeviceSleeps = FALSE
SPECIFICATION Spec
SYMMETRY Symmetry
INVARIANTS
  AssertOwned
