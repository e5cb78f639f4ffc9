CONSTANTS
    c1 = c1
    c2 = c2
    c3 = c3
    Conns = {c1, c2}
    Null = Null
    MaxPacketId = 2
    MaxPublish = 2
    QueueCapacity = 1
    CleanChoices = {TRUE, FALSE}
    WillChoices = {FALSE}
    PublishQoS = {0, 1, 2}
    RetainedQoS = 1
    InPackets <- AllPackets
SPECIFICATION Spec
SYMMETRY Symmetry
INVARIANTS TypeOK StaleOnlyAfterLogout
CHECK_DEADLOCK FALSE
