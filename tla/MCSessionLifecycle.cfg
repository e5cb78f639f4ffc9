CONSTANTS
    c1 = c1
    c2 = c2
    c3 = c3
    Conns = {c1, c2, c3}
    Null = Null
    MaxPacketId = 2
    MaxPublish = 0
    QueueCapacity = 2
    CleanChoices = {TRUE, FALSE}
    WillChoices = {TRUE, FALSE}
    PublishQoS = {1}
    RetainedQoS <- NoSub
    InPackets <- LifecyclePackets
SPECIFICATION Spec
SYMMETRY Symmetry
INVARIANTS SessionLink SingleLogin CleanSessionAttached LoginOnce
PROPERTIES PersistentSessionKept WillPublished
CHECK_DEADLOCK FALSE
