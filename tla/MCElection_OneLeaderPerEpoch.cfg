SPECIFICATION MCSpec
CONSTANTS
  d1 = d1
  d2 = d2
  Device <- Pair
  LinkLimit = 2
  Lossy = FALSE
  MaxCampaigns = 3
  MaxRestarts = 0
  MaxChatter = 0
INVARIANTS OneLeaderPerEpoch
CHECK_DEADLOCK FALSE
