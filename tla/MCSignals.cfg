CONSTANTS
  Threads = {1, 2}
  NoThread = 0
  Signals = {"SIGUSR1", "SIGCONT"}
  WaitSets = {{"SIGUSR1"}}
  SigActions <- SomeActions
  Mask <- SomeMask
  MaxCalls = 6
SPECIFICATION SignalsSpec
INVARIANT
  PendingIsBlocked
  MaskRestored
CHECK_DEADLOCK FALSE
