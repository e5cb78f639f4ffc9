CONSTANTS
    t1 = t1
    t2 = t2
    Threads = {t1, t2}
    Worker = Worker
    Null = Null
    QueueCapacity = 1
    MaxRequests = 2
    MaxSections = 2
SPECIFICATION FairSpec
INVARIANTS InternalExclusive RefCountCovers InternalDrained
PROPERTIES ImplementsExecutor QueuedExecuted
CHECK_DEADLOCK FALSE
