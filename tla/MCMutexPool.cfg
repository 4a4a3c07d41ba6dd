SPECIFICATION Spec
CONSTANTS
  Threads = {t1, t2, t3}
  Capacity = 3
  NULL = NULL
  Junk = Junk
  UserData <- MCUserData
SYMMETRY ThreadSymmetry
INVARIANTS
  TypeOK
  FreeListWhenUnlocked
PROPERTIES
  HandedOutUntouched
  RefinesObjectPool
