SPECIFICATION SettledFairSpec
CONSTANTS
  d1 = d1
  d2 = d2
  d3 = d3
  Speaker = d1
  Device <- Trio
  Capacity = 2
  QueueSize = 6
  AirSize = 4
  ErrorLimit = 2
  CounterRange = 4
  Lossy = FALSE
  Burst = 1
  Traffic <- SpeakerNotifies
  MaxCrashes <- SpeakerLasts
INVARIANTS DeathIsReal
PROPERTIES DeathSpreads
CHECK_DEADLOCK FALSE
