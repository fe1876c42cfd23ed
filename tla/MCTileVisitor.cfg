SPECIFICATION Spec
CONSTANTS
    v = v
    t1 = t1
    t2 = t2
    t3 = t3
    pill = pill
    None = None
    visitor = v
    Requests = {t1, t2, t3, pill}
    Pills = {pill}
    Clients = {v}
    Owner <- OnlyVisitor
    Priority <- DefaultPriority
    Visitors = {"multithreaded", "multiprocess"}
    TaskOrder <- InOrder
    RootKeys <- Roots
    MinLevel = 1
    MaxLevel = 1
    Data <- DataKeys
    Extents <- ExtentKeys
    BatchSizes = {2, 3}
    MaxSizes = {100000}
    FirstThreads = 3
    MaxThreads = 3
CHECK_DEADLOCK FALSE
INVARIANTS
    TypeOK
    FinishedMeansHandled
    PillComesLast
PROPERTIES
    UncanceledRunReturns
