\* A ring of three slots that six tasks wrap around, fill or leave room in,
\* two workers, the main thread and another producer, closed in every state.
CONSTANTS
  Workers = {w1, w2}
  Producers = {main, aux}
  Main = main
  NoThread = NoThread
  QueueSize = 3
  MaxTasks = 6
SPECIFICATION FairSpec
INVARIANTS
  NoLostWakeup
  JamsOnlyWhenFull
PROPERTIES
  ImplementsTaskPool
  DrainsUnlessFull
  CloseReturns
\* a jammed or freed pool really stops
CHECK_DEADLOCK FALSE
