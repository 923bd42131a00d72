\* One client; two bytes are enough.
SPECIFICATION Spec
CONSTANTS
  Accepted = {k}
  Outgoing = {}
  BUFFSIZE = 1
  MaxRead = 2
  MaxWrite = 2
  SndBuf = 1
  MaxSend = 2
INVARIANT ServerSurvives
\* the process may be killed
CHECK_DEADLOCK FALSE
