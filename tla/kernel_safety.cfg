\* Every configuration.
CONSTANTS
  Ports <- MCPorts
  ThreadNums <- MCThreadNums
  Models <- MCModels
SPECIFICATION Spec
INVARIANTS
  ReleasedOnce
  MisuseExplained
  WorkHasAll
  AllConnectUp
\* the process ends
CHECK_DEADLOCK FALSE
