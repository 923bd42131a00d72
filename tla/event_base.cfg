SPECIFICATION FairSpec
CONSTANTS
  r = r
  w = w
  tmr = tmr
  d = d
  fd = fd
  Events <- MCEvents
  Deferred = {d}
  Fds = {fd}
  ev_fd <- MCfd
  ev_events <- MCevents
  ev_pri <- MCpri
  nactivequeues = 2
  MAX_DEFERREDS_QUEUED = 0
  NoEvent = NoEvent
  Groups <- MCGroups
  Timeouts = {1}
  MaxTime = 1
  MaxOps = 3
INVARIANTS
  AssertOk
  FinalizedOnce
  TimeoutNotEarly
  TimedIsWatched
PROPERTIES
  DeletedStaysQuiet
  PriorityFirst
  FinalizerRuns
  QuietReturns
\* the base may be freed
CHECK_DEADLOCK FALSE
