CONSTANTS
  t1 = t1
  t2 = t2
  t3 = t3
  t4 = t4
  sem = sem
  NoThread = NoThread
  Threads = {t1, t2, t3, t4}
  Queues = {sem}
  SemQueue = sem
  Abstimes = {"null", "valid", "invalid"}
  SemValues = {0, 1}
  MaxUnits = 3
SPECIFICATION SemFairSpec
INVARIANT
  OneMessageOwed
  UnitsConserved
PROPERTY
  PostCompletes
CHECK_DEADLOCK FALSE
