\* Two channels, so that one client may be in the way of the other; two bytes
\* each.
CONSTANTS
  ConnectNum = 2
  Clients = {k1, k2}
  NoClient = NoClient
  BUFFSIZE = 1
  MaxSend = 2
SPECIFICATION FairSpec
PROPERTIES
  EchoArrives
  ChannelComesBack
\* the process exits
CHECK_DEADLOCK FALSE
