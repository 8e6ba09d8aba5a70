CONSTANTS
  t1 = t1
  t2 = t2
  t3 = t3
  t4 = t4
  b = b
  Threads = {t1, t2, t3, t4}
  Queues = {b}
  TheBarrier = b
  Counts = {1, 2, 3}
  MaxRounds = 3
SPECIFICATION BarrierSpec
INVARIANT
  RoundsAreFull
  NobodyEarlyNorTwice
PROPERTY
  RoundReturns
CHECK_DEADLOCK FALSE
