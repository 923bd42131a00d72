\* The mutex is kept once the ring is full: nobody serves it any more.
CONSTANTS
  Workers = {w1, w2}
  Producers = {main}
  Main = main
  NoThread = NoThread
  QueueSize = 2
  MaxTasks = 3
SPECIFICATION FairSpec
PROPERTY FullQueueDrains
\* a jammed pool really stops
CHECK_DEADLOCK FALSE
