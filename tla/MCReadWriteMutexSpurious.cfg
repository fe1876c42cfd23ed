SPECIFICATION SpuriousSpec
CONSTANTS
    Threads = {t1, t2}
    NoThread = NoThread
INVARIANT WriterWaitsForReaders
