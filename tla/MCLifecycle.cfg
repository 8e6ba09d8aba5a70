CONSTANTS
  MaxThreads = 4
  MaxPending = 1
  TableSize = 3
  Threads = {1, 2, 3, 4}
  Queues = {0, 1, 2, 3, 4}
  StackSize = 4
  PageSize = 1
  Monotonic = TRUE
  NDEBUG = FALSE
  MallocZeroes = TRUE
  Failures = {"table", "stack", "kernel", "tls"}
  CallerAttrs <- SomeAttrs
SPECIFICATION LifecycleSpec
INVARIANT
  FreeListSound
  StackAlive
  FoundByID
  LastThreadExits
PROPERTY
  ExitCompletes
  JoinReturns
CHECK_DEADLOCK FALSE
