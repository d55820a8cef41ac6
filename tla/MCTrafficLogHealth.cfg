SPECIFICATION LogSpec
CONSTANTS
    Handlers = {h1, h2}
    Readers = {r1}
    Backends = {b1}
    Limit = 1
    LogCapacity = 4
    HealthWindow = 3
    ErrorsIn = 7
    Of = 10
    MaxCalls = 4
PROPERTIES FailingBackendFound
CHECK_DEADLOCK FALSE
