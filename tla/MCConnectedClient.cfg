\* A remote client of either byte order, every kind of packet.
SPECIFICATION Spec
CONSTANTS
    Messages <- MCMessages
    BadFrames <- MCBadFrames
    MaxFrames = 2
    MaxPackets = 1
    Chunks = 2
INVARIANTS TypeOK DeafIsKnown HeardOut PacketsAccounted
PROPERTIES ImplementsConnection LossIsReported
