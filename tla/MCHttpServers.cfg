SPECIFICATION FairSpec
CONSTANTS
  k1 = k1
  k2 = k2
  Clients <- MCClients
  Silent <- MCSilent
  Request <- MCRequest
  Main = Main
  ThreadCount = 2
  MaxFailures = 1
  NULL = NULL
CHECK_DEADLOCK FALSE
INVARIANTS
  TypeOK
  WorkersStay
  Balanced
PROPERTIES
  EveryRequestAnswered
  StopEndsRun
