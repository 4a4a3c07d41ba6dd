SPECIFICATION QuietSpec
CONSTANTS
  Threads = {t1, t2}
  NULL = NULL
  Garbage = Garbage
  BlockSlots = 2
  MaxBlocks = 2
  Threshold = 0
  MaxClock = 1
  MaxStamp = 10
  MaxHeld = 5
  ClientFrees = TRUE
  CtorThrows = FALSE
SYMMETRY ThreadSymmetry
INVARIANTS
  NoDoubleAllocation
