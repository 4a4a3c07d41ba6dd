SPECIFICATION QuietSpec
CONSTANTS
  Threads = {t1, t2}
  NULL = NULL
  Garbage = Garbage
  BlockSlots = 2
  MaxBlocks = 2
  Threshold = 0
  MaxClock = 2
  MaxStamp = 7
  MaxHeld = 3
  ClientFrees = TRUE
  CtorThrows = TRUE
SYMMETRY ThreadSymmetry
CHECK_DEADLOCK FALSE
INVARIANTS
  QuietTypeOK
  NothingLostInQuiet
  NoDoubleAllocationInQuiet
  NoABAInQuiet
  NoAssertionFailsInQuiet
  ThrottleKept
  BlocksConsistent
PROPERTIES
  NoWastedBlockInQuiet
