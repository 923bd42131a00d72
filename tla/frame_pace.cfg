\* A period of 4 ms, and a clock that is set and starts again at 24.
CONSTANTS
  FrameTime = 4
  LoopTime = 3
  SkipTime = 2
  Range = 24
  Jumps <- ClockSet
  Horizon = 10
SPECIFICATION Spec
INVARIANTS
  NeverLate
PROPERTIES
  NeverEarly
