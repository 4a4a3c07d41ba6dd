SPECIFICATION SleeperSpec
CONSTANTS
  w1 = w1
  w2 = w2
  Main = Main
  NULL = NULL
  Workers <- MCWorkers
  Threads <- MCThreads
  UserData <- MCWorkers
  PerThread = 3
  Capacity = 5
  MaxTag = 18
INVARIANTS
  TypeOK
  DataIntact
  NeverTurnedAway
  AllComeBack
PROPERTIES
  W2Finishes
  EndsUnlessAsleep
