\* The first connection of a client, strings that do not parse, and its end.
SPECIFICATION Spec
CONSTANTS
    MaxRequests = 1
    MaxMessages = 2
    MaxRecords = 2
    BadDestinations = TRUE
    Destroys = TRUE
INVARIANTS TypeOK ConnectedListens FirstConnectionInv
PROPERTY AttemptEnds
