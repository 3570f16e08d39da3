CONSTANTS
  c1 = c1
  c2 = c2
  t1 = t1
  t2 = t2
  q1 = q1
  q2 = q2
  NULL = NULL
  Clients = {c1, c2}
  Tasks = {t1, t2}
  Pollers = {q1, q2}
  Cap = 1
  MaxCount = 2
  IopsHigh = 1
  SleepMin = 1
  SleepMax = 3
  IntMod = 768
SPECIFICATION FairSpec
INVARIANTS
  OnePoller
  SyncArgAlive
  SyncResult
  TuningSane
PROPERTIES
  StopReturns
  SyncReturns
CHECK_DEADLOCK FALSE
