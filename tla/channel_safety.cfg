\* Two channels, three clients and two bytes each.
CONSTANTS
  ConnectNum = 2
  Clients = {k1, k2, k3}
  NoClient = NoClient
  BUFFSIZE = 1
  MaxSend = 2
SYMMETRY Symmetry
SPECIFICATION Spec
INVARIANTS
  ChannelsAccounted
  ChannelOwnsClient
  FreedOnce
  HooksBalanced
  EchoInOrder
  IsolatedIfSmall
PROPERTIES
  ImplementsConnectionLimit
\* the process exits
CHECK_DEADLOCK FALSE
