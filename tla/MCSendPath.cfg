CONSTANTS
    Threads = {1, 2}
    Receivers = {"r1", "r2"}
    Null = 0
    Types = {"PUBLISH", "PUBLISH0", "PUBACK", "PINGRESP"}
    PartSizes <- Sizes
    BufferSize = 4
    Batch = 2
    MaxPackets = 3
SPECIFICATION Spec
INVARIANTS TypeOK WireFaithful
PROPERTY QueueDrains
CHECK_DEADLOCK FALSE
