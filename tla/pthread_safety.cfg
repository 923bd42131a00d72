\* One channel that two clients use in turn, two workers, a ring of two slots.
CONSTANTS
  ConnectNum = 1
  Clients = {k1, k2}
  NoClient = NoClient
  BUFFSIZE = 1
  MaxSend = 2
  MaxBytes = 2
  Workers = {w1, w2}
  Main = main
  NoThread = NoThread
  QueueSize = 2
  MaxTasks = 3
SPECIFICATION Spec
INVARIANTS
  JamExplained
  OrderUnlessDoubled
  HeldOnce
  StrangerHasLeft
PROPERTIES
  UsesPool
\* the process exits, jams or is undefined
CHECK_DEADLOCK FALSE
