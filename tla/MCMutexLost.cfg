CONSTANTS
  t1 = t1
  t2 = t2
  m1 = m1
  NoThread = NoThread
  Threads = {t1, t2}
  Mutexes = {m1}
  Queues = {m1}
  MutexTypes = {"normal"}
  Abstimes = {"valid"}
  NDEBUG = FALSE
  UIntMax = 3
  MaxLocks = 2
SPECIFICATION MutexSpec
INVARIANT
  HeldByACaller
CHECK_DEADLOCK FALSE
