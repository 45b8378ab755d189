SPECIFICATION MCSpec
CONSTANTS
  d1 = d1
  d2 = d2
  Device <- Pair
  LinkLimit = 2
  Lossy = TRUE
  MaxCampaigns = 2
  MaxRestarts = 1
  MaxChatter = 1
INVARIANTS TypeOK NoOrphanCandidate VotesBounded EpochsEarned
PROPERTIES RoleDiagram
CHECK_DEADLOCK FALSE
