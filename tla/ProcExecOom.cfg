SPECIFICATION LiveSpec
CONSTANTS
  main = main
  NULL = NULL
  Slot = {main, p1, p2}
  Code = {7}
  NPages = 5
  MaxTid = 3
CHECK_DEADLOCK FALSE
PROPERTIES ExecReturns
