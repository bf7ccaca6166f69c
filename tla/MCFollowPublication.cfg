CONSTANTS
    Members = {a1, a2}
    None = None
    Archive = TRUE
    a1 = a1
    a2 = a2
    Seeds <- MCSeeds
    MaxOps = 2
    MaxPolls = 2
    MaxKills = 1
SPECIFICATION FollowSpec
INVARIANTS FollowInv PublishedOnce
PROPERTIES DeploymentsReconciled
CHECK_DEADLOCK FALSE
