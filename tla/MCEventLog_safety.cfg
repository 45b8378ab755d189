SPECIFICATION FairSpec
CONSTANTS
  d1 = d1
  d2 = d2
  Device <- Pair
  Time <- Twice
  Press <- PushOnly
  History = 3
  LogQueueSize = 1
  MaxLosses = 1
  MaxRestarts = 1
INVARIANTS
  TypeOK
  Ordered
  NoDuplicates
  Accounted
  Agreement
PROPERTIES
  ImplementsSharedLog
  EveryPressArrives
CHECK_DEADLOCK FALSE
