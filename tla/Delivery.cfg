SPECIFICATION FairSpec
CONSTANTS
    PacketSize = 2
    SessionCap = 6
    DestCap = 11
    UdpMark = 4
    UdpSize = 2
    McastMark = 2
    MaxDatagram = 6
    Block = 3
    HttpMark = 4
    MaxRead = 3
    Kinds <- AllKinds
    ThreadSets <- OneOrTwo
    MaxBytes = 12
CHECK_DEADLOCK FALSE
INVARIANTS
    TypeOK
    NoOverrun
    WholePackets
    AtMostOnce
PROPERTIES
    PipeSteps
    Drains
