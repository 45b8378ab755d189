SPECIFICATION MCFairSpec
CONSTANTS
  d1 = d1
  d2 = d2
  Device <- Pair
  LinkLimit = 2
  Lossy = FALSE
  MaxCampaigns = 2
  MaxRestarts = 0
  MaxChatter = 1
PROPERTIES CandidacyEnds RivalsYield LeaderIsHeard
CHECK_DEADLOCK FALSE
