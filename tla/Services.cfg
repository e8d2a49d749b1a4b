SPECIFICATION MCSpec
CONSTANTS
  Proc = {p, q}
  Sector = {1, 2, 3}
  Path <- MCPath
  Self <- MCSelf
  MAX_FILE_CNT = 4
  MaxLen = 1
  MaxCalls = 4
  t1 = t1
  t2 = t2
  file1 = file1
  file2 = file2
  Nil = Nil
INVARIANTS  HeldInodesStay BlocksOwnedOnce ListsAreSequences HashIsSet MappedWritesKept
CHECK_DEADLOCK FALSE
SYMMETRY Symmetry
