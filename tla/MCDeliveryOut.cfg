CONSTANTS
    c1 = c1
    c2 = c2
    c3 = c3
    Conns = {c1, c2, c3}
    Null = Null
    MaxPacketId = 3
    MaxPublish = 2
    QueueCapacity = 2
    CleanChoices = {FALSE}
    WillChoices = {FALSE}
    PublishQoS = {1, 2}
    RetainedQoS <- NoSub
    InPackets = {}
    MaxSend = 0
    ClientIds = 1
    MaxOut = 2
    MaxFailures = 2
SPECIFICATION DSpec
INVARIANTS NoLoss OrderedFirstDelivery ExactlyOnceOut
CHECK_DEADLOCK FALSE
