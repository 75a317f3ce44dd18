\* Reference counting while frames leave piece by piece.
SPECIFICATION Spec
CONSTANTS
    MaxConnections = 2
    MaxMessages = 2
    Chunks = 2
    PartialWrites = TRUE
    Headers <- MCRejectedAndValid
INVARIANT HandlersCounted
