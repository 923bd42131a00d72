\* A client and a connection to another server, three bytes from each peer,
\* of which a socket takes one, a frame echoes one or two.
SPECIFICATION FairSpec
CONSTANTS
  Accepted = {k}
  Outgoing = {s}
  BUFFSIZE = 2
  MaxRead = 2
  MaxWrite = 2
  SndBuf = 1
  MaxSend = 3
INVARIANTS
  WaitsAreWatched
  OnlyTheFinalizer
  SuccessIsTrue
  SuccessInTheRound
PROPERTIES
  IsByteStream
  ConnectIsAnswered
\* the process may be killed
CHECK_DEADLOCK FALSE
