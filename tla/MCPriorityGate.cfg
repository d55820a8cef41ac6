SPECIFICATION FairSpec
CONSTANTS
    Requests = {r1, r2, r3, r4}
    MinPriority <- MCMinPriority
    MaxPriority = 1
INVARIANTS OnePerPriority WaitersBlocked
PROPERTIES AdmissionOrder ImplementsService WaiterServedBarGhosts
CHECK_DEADLOCK FALSE
