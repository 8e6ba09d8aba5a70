CONSTANTS
  t1 = t1
  t2 = t2
  t3 = t3
  rq = rq
  wq = wq
  NoThread = NoThread
  Threads = {t1, t2, t3}
  Queues = {rq, wq}
  ReaderQueue = rq
  WriterQueue = wq
  Abstimes = {"null", "valid", "invalid"}
  MaxReads = 2
SPECIFICATION RWFairSpec
INVARIANT
  ReadersExcludeWriters
  LocksAccounted
  RWAssertions
PROPERTY
  UnlockCompletes
CHECK_DEADLOCK FALSE
