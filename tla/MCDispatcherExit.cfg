\* The accept fails while clients are connected.
SPECIFICATION Spec
CONSTANTS
    MaxConnections = 1
    MaxMessages = 1
    Chunks = 1
    PartialWrites = FALSE
    Headers <- MCValidHeaders
INVARIANT DeletedAfterHandlers
