SPECIFICATION Spec
CONSTANTS
  d1 = d1
  d2 = d2
  d3 = d3
  Speaker = d1
  Device <- Pair
  Capacity = 1
  QueueSize = 2
  AirSize = 1
  ErrorLimit = 2
  CounterRange = 4
  Lossy = TRUE
  Burst = 2
  Traffic <- AllTalk
  MaxCrashes <- AllMortal
INVARIANTS TypeOK NoOverrun PeersAreKnown
CHECK_DEADLOCK FALSE
