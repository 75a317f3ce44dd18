\* Every class of header.
SPECIFICATION Spec
CONSTANTS
    MaxConnections = 1
    MaxMessages = 1
    Chunks = 1
    PartialWrites = FALSE
    Headers <- MCHeaders
INVARIANT RunThrowsNothing
