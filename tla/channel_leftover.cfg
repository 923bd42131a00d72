\* One channel that two clients use in turn; two bytes do not fit one frame.
CONSTANTS
  ConnectNum = 1
  Clients = {k1, k2}
  NoClient = NoClient
  BUFFSIZE = 1
  MaxSend = 2
SPECIFICATION Spec
INVARIANTS
  BufferCleared
\* the process exits
CHECK_DEADLOCK FALSE
