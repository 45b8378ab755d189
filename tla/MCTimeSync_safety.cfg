SPECIFICATION Spec
CONSTANTS
  d1 = d1
  d2 = d2
  Device <- Pair
  Starts <- TurnApart
  BalancerSize = 2
  DeviationLimit = 1
  DeviationMax = 1
  Int32Limit = 8
  MinDelay = 1
  MaxDelay = 2
  MaxWait = 1
  BootTime = 6
  Horizon = 10
  MaxFrames = 1
  MaxReigns = 2
  Overlap = FALSE
  MaxFailures = 1
  MaxPresses = 1
INVARIANTS TypeOK RttMeasured SyncedToLimit FairOrder
PROPERTIES NeverWorse Approaches
CHECK_DEADLOCK FALSE
