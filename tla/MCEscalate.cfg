SPECIFICATION FairSpec
CONSTANTS
    Requests = {r1, r2}
    MinPriority = 0
    MaxPriority = 1
    Top = 3
    Gated = {1, 2}
    Outages <- MCOutages
INVARIANTS OnePermit RungByRung
PROPERTIES TiersAreServices WalkEndsBarGhosts
CHECK_DEADLOCK FALSE
