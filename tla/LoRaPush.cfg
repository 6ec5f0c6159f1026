\* Frames shorter and longer than a packet, a queue of two.
CONSTANTS
    PacketSize = 2
    QueueMax = 2
    FrameSizes = {1, 3}
    MaxBytes = 6
SPECIFICATION FairSpec
INVARIANTS
    TypeOK
    PortReleased
PROPERTIES
    ImplementsStream
    NoByteLingers
CHECK_DEADLOCK FALSE
