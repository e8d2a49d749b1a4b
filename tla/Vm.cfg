CONSTANTS
  Proc = {p, q}
  Page <- MCPage
  NFrames = 2
  NSlots = 1
  Stack <- MCStack
  Loaded <- MCLoaded
  MaxStarts = 3
  MaxOps = 4
  NULL = NULL
SPECIFICATION LiveSpec
INVARIANTS
  FramesOwnedOnce
  SlotsOwnedOnce
  
  ValidatedStaysMapped
PROPERTY
  FaultsReturn
CHECK_DEADLOCK FALSE
