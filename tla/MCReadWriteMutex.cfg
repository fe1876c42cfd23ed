SPECIFICATION FairSpec
CONSTANTS
    Threads = {t1, t2, t3, t4}
    NoThread = NoThread
INVARIANTS
    TypeOK
    MutualExclusion
    NoLostWakeup
    Accounting
    GateDiscipline
PROPERTIES
    ImplementsLock
    WriterGetsLock
    LockIsGranted
