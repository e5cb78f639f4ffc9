CONSTANTS
    c1 = c1
    c2 = c2
    c3 = c3
    Conns = {c1, c2, c3}
    Null = Null
    MaxPacketId = 3
    MaxPublish = 2
    QueueCapacity = 1
    CleanChoices = {FALSE}
    WillChoices = {FALSE}
    PublishQoS = {2}
    RetainedQoS <- NoSub
    InPackets = {}
    MaxSend = 2
    ClientIds = 1
    MaxOut = 1
    MaxFailures = 1
SPECIFICATION DSpec
INVARIANT LostOnlyByMark
PROPERTIES ForwardedUnlessMarked Delivered
CHECK_DEADLOCK FALSE
