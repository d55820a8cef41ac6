SPECIFICATION DispatchFairSpec
CONSTANTS
    Requests = {r1, r2}
    MinPriority = 0
    MaxPriority = 1
    MaxRetries = 3
    RetryDelay = 800
    DelayCap = 2000
    MaxDelay = 2500
    TimeoutEnabled = TRUE
INVARIANTS PermitSpansLoop OneCallPerPriority BackoffSchedule
PROPERTIES DispatchEndsBarGhosts
CHECK_DEADLOCK FALSE
