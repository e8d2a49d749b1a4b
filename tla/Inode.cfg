SPECIFICATION LiveSpec
CONSTANTS
  a = a
  b = b
  f = f
  Thread = {a, b}
  Name = {f}
  DiskSize = 9
  BLOCK_SECTOR_SIZE = 2
  TOTAL_SECTOR_CNT = 3
  DIRECT_SECTOR_CNT = 1
  INDIRECT_SECTOR_CNT = 1
  FILESYS_LIMIT_SECTORS = 20
  InitialSizes = {0, 3}
  Offsets = {1, 2, 5}
  Sizes = {3}
  MaxOps = 6
INVARIANTS  FilesHoldWhatWasWritten ExtensionIsAtomic
PROPERTY CallsReturn
CHECK_DEADLOCK FALSE
