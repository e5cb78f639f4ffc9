CONSTANTS
    s1 = s1
    s2 = s2
    Scripts = {s1, s2}
    Null = Null
    MaxTasks = 2
    MaxTimeouts = 1
    MaxOps = 2
    QueueSize = 1
    MaxRequests = 2
SPECIFICATION Spec
INVARIANTS WaitsForWork CallerWaits
PROPERTIES CallAnswered QuitEnds TimeoutRuns
CHECK_DEADLOCK FALSE
