SPECIFICATION DispatchSpec
CONSTANTS
    Requests = {r1}
    MinPriority = 0
    MaxPriority = 1
    MaxRetries = 1
    RetryDelay = 800
    DelayCap = 2000
    MaxDelay = 2500
    TimeoutEnabled = TRUE
INVARIANTS ClientErrorsNotRetried
CHECK_DEADLOCK FALSE
