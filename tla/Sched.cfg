SPECIFICATION FairSpec
CONSTANTS
  Thread = {main, idle, a}
  main = main
  idle = idle
  Sema = {idle_started, s}
  idle_started = idle_started
  TIME_SLICE = 2
  Delays = {0, 1, 2}
  MaxTicks = 3
  MaxValue = 2
  Ops = {"create", "exit", "yield", "sleep", "down", "up", "try_down", "intr_up"}
  NULL = NULL
INVARIANTS ElemExclusive NoThreadLost
PROPERTIES AlarmsKept SleeperWakes ImplementsSemaphore
