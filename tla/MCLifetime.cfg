CONSTANTS
    c1 = c1
    c2 = c2
    r1 = r1
    r2 = r2
    Conns = {c1, c2}
    Receivers = {r1, r2}
    MaxSessions = 2
    MaxRequests = 2
SPECIFICATION Spec
INVARIANT NothingFreedInUse
PROPERTIES LoggedOutFreed SuspendEnds
CHECK_DEADLOCK FALSE
