SPECIFICATION Spec
CONSTANTS
  d1 = d1
  d2 = d2
  Device <- Pair
  Starts <- Apart
  BalancerSize = 2
  DeviationLimit = 1
  DeviationMax = 1
  Int32Limit = 100
  MinDelay = 1
  MaxDelay = 2
  MaxWait = 1
  BootTime = 6
  Horizon = 10
  MaxFrames = 1
  MaxReigns = 2
  Overlap = TRUE
  MaxFailures = 0
  MaxPresses = 0
INVARIANTS OneTime
CHECK_DEADLOCK FALSE
