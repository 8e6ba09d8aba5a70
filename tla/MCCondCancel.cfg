CONSTANTS
  w1 = w1
  w2 = w2
  s1 = s1
  lock1 = lock1
  lock2 = lock2
  lock3 = lock3
  user = user
  cond = cond
  NoThread = NoThread
  Threads = {w1, s1}
  Mutexes = {user, lock1, lock2, lock3}
  Queues = {user, lock1, lock2, lock3, cond}
  TheCond = cond
  UserMutex = user
  CancelLock <- MCCancelLock
  EnterThreads = {w1}
  WaitThreads = {w1}
  OtherThreads = {s1}
  HurdThreads = {}
  MutexTypes = {"normal"}
  Abstimes = {"null"}
  NDEBUG = FALSE
  UIntMax = 1
  MaxLocks = 1
SPECIFICATION CondSpec
INVARIANT
  CancelLockExclusion
