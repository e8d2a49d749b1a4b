SPECIFICATION LiveSpec
CONSTANTS
  t1 = t1
  t2 = t2
  t3 = t3
  l1 = l1
  l2 = l2
  c1 = c1
  c2 = c2
  NULL = NULL
  Thread = {t1, t2, t3}
  Lock = {l1, l2}
  Cond = {c1, c2}
  LockOf <- TwoLocks
CHECK_DEADLOCK FALSE
INVARIANTS MutualExclusion WaitersReachable ElementsAlive
PROPERTIES BroadcastWakesAll
