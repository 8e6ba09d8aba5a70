CONSTANTS
  NoThread = 0
  Threads = {1, 2}
  InitialKeys = 1
  RescanMin = 1
  MaxSize = 2
  MaxResets = 1
SPECIFICATION SpecificSpec
INVARIANT
  KeysSound
  NewKeyIsNull
  NoValueLeft
  KeyLockReady
PROPERTY
  ExitsInTheEnd
