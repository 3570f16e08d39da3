CONSTANTS
  c1 = c1
  t1 = t1
  q1 = q1
  NULL = NULL
  Clients = {c1}
  Tasks = {t1}
  Pollers = {q1}
  Cap = 2
  MaxCount = 2
  IopsHigh = 1
  SleepMin = 5
  SleepMax = 150
  IntMod = 1048576
SPECIFICATION SpuriousSpec
SYMMETRY Symmetry
INVARIANTS
  SyncResult
CHECK_DEADLOCK FALSE
