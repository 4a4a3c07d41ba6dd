SPECIFICATION Spec
CONSTANTS
  Threads = {t1, t2, t3}
  Capacity = 3
  NULL = NULL
  Junk = Junk
  UserData <- MCUserData
  MaxTag = 4
SYMMETRY ThreadSymmetry
INVARIANTS
  TypeOK
  FreeListIntact
  NoStaleSwap
  IInv
PROPERTIES
  NoDoubleAllocation
  HandedOutUntouched
  RefinesObjectPool
