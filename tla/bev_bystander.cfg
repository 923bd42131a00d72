\* Two clients, two bytes each: one may be in the way of the other.
SPECIFICATION FairSpec
CONSTANTS
  Accepted = {k1, k2}
  Outgoing = {}
  BUFFSIZE = 1
  MaxRead = 1
  MaxWrite = 2
  SndBuf = 1
  MaxSend = 2
PROPERTIES
  EchoComesBack
\* the process may be killed
CHECK_DEADLOCK FALSE
