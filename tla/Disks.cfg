SPECIFICATION Spec
CONSTANTS
  User = {u, v}
  Hardware <- MCHardware
  Capacity <- MCCapacity
  BigDisk = 8
  Tables <- MCTables
  SECTORS = 8
  StackDepth = 4
  Data = {1}
  MaxRequests = 2
INVARIANTS DiskRequestsServed PartitionsFit
PROPERTY DiskRequestsReturn
CHECK_DEADLOCK FALSE
