CONSTANTS
  t1 = t1
  t2 = t2
  t3 = t3
  m1 = m1
  NoThread = NoThread
  Threads = {t1, t2, t3}
  Mutexes = {m1}
  Queues = {m1}
  MutexTypes = {"normal", "errorcheck", "recursive"}
  Abstimes = {"null", "valid", "invalid"}
  NDEBUG = FALSE
  UIntMax = 1
  MaxLocks = 1
SPECIFICATION MutexScheduledSpec
INVARIANT
  WakeupDelivered
  NoLostWakeup
  NoStrayMessage
PROPERTY
  HandOffCompletes
CHECK_DEADLOCK FALSE
