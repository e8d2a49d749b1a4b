SPECIFICATION LiveSpec
CONSTANTS
  Reader = {r1, r2}
  Writer = {w1, w2}
  INTQ_BUFSIZE = 3
  MsgLen = 2
  MaxMsgs = 1
  MaxIn = 3
  MaxIrq = 1
  irq = irq
  NULL = NULL
CHECK_DEADLOCK FALSE
INVARIANTS InputInOrder OutputInOrder
PROPERTIES OutputIsSent InputIsRead
