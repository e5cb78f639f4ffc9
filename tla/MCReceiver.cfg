CONSTANTS
    Lengths <- PacketLengths
    NeedsSession = {3}
    Base = 2
    Word = 32
    RecvSize = 2
SPECIFICATION Spec
INVARIANTS TypeOK HandledOnce EventDrains
PROPERTY HeldHandled
CHECK_DEADLOCK FALSE
