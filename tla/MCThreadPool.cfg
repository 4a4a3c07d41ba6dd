SPECIFICATION FairSpec
CONSTANTS
  Workers = {w1, w2, w3}
  Owner = Owner
  NULL = NULL
  a = a
  b = b
  c = c
  d = d
  e = e
  f = f
  Tasks <- MCTasks
  Script <- MCScript
  MaxSpurious = 2
INVARIANTS
  TypeOK
  EveryTaskHasAWaker
  NobodySleepsThroughStop
  NothingLeftBehind
PROPERTIES
  RefinesTaskQueue
  Termination
