\* The kernel takes frames piece by piece.
SPECIFICATION Spec
CONSTANTS
    MaxConnections = 1
    MaxMessages = 2
    Chunks = 2
    PartialWrites = TRUE
    Headers <- MCValidHeaders
INVARIANT FramesContiguous
