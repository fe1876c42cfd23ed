SPECIFICATION ClientsSpec
CONSTANTS
    c1 = c1
    coarse = coarse
    fine = fine
    None = None
    Requests = {coarse, fine}
    Pills <- NoPills
    Clients = {c1}
    Owner <- OneOwner
    Priority <- ByLevel
    MaxSizes = {0, 1}
    FirstThreads = 1
    MaxThreads = 2
    PoolSizes = {0, 2}
CHECK_DEADLOCK FALSE
INVARIANTS
    ServiceTypeOK
    RequestsAccounted
    RunOncePerAdd
    PoolMatchesCount
    BoundKept
PROPERTIES
    ImplementsPool
    LowestNumberFirst
    RequestsServed
    DestructorReturns
