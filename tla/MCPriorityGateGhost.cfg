SPECIFICATION FairSpec
CONSTANTS
    Requests = {r1, r2, r3}
    MinPriority <- MCMinPriority
    MaxPriority = 1
PROPERTIES WaiterServed
CHECK_DEADLOCK FALSE
