SPECIFICATION PortSpec
CONSTANTS
    Requests = {r1, r2}
    Ips = {i1}
    Keys = {"k1"}
    Profiles = {"default", "team"}
    Backing = {"m1", "m2"}
    Models = {"default", "team", "t1"}
    Tiers = {"t1", "t2"}
    Config <- MCConfig
    None <- None0
    MaxRefills = 1
    Callers = {c1, c2}
    RPM = 3
    Window = 4
    MaxClock = 5
    Handlers = {h1, h2}
    Readers = {d1}
    Backends = {b1}
    Limit = 1
    LogCapacity = 2
    HealthWindow = 3
    ErrorsIn = 7
    Of = 10
    MaxCalls = 3
SYMMETRY MCSymmetry
INVARIANTS QuotaAccounted KeyProfile OneConfig
    CreditBound SteadyRate RetryExact NewestKept PagesInOrder
CHECK_DEADLOCK FALSE
