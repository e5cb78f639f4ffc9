CONSTANTS
    t1 = t1
    t2 = t2
    Threads = {t1, t2}
    Worker = Worker
    Null = Null
    QueueCapacity = 2
    MaxRequests = 2
    MaxSections = 1
SPECIFICATION Spec
INVARIANT NeverPushWhileHolding
CHECK_DEADLOCK FALSE
