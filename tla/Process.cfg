SPECIFICATION LiveSpec
CONSTANTS
  main = main
  NULL = NULL
  Slot = {main, p1, p2}
  Code = {7}
  NPages = 6
  MaxTid = 4
CHECK_DEADLOCK FALSE
INVARIANTS LinksThere WaitReturnsStatus
PROPERTIES ExecAwaitsLoad OrphansAreFreed CallsReturn
