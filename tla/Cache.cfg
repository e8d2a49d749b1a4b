SPECIFICATION LiveSpec
CONSTANTS
  c1 = c1
  c2 = c2
  s1 = s1
  s2 = s2
  s3 = s3
  v1 = v1
  NULL = NULL
  flusher = flusher
  Client = {c1, c2}
  Sector = {s1, s2, s3}
  Value = {v1}
  CACHE_SECTOR_CNT = 2
  MaxOps = 4
INVARIANTS UniqueEntry Coherent
PROPERTIES WritesReachDisk RequestsServed
