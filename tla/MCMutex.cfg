CONSTANTS
  t1 = t1
  t2 = t2
  t3 = t3
  m1 = m1
  NoThread = NoThread
  Threads = {t1, t2, t3}
  Mutexes = {m1}
  Queues = {m1}
  MutexTypes = {"normal", "errorcheck", "recursive"}
  Abstimes = {"null"}
  NDEBUG = FALSE
  UIntMax = 3
  MaxLocks = 2
SPECIFICATION MutexFairSpec
INVARIANT
  MutexTypeOK
  MutualExclusion
  NeverOrphaned
  OwnerIsHolder
PROPERTY
  ImplementsAbstract
  WaiterServed
