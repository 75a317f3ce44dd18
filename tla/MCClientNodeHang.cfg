\* A second request after the first connection ended.
SPECIFICATION Spec
CONSTANTS
    MaxRequests = 2
    MaxMessages = 0
    MaxRecords = 1
    BadDestinations = FALSE
    Destroys = FALSE
PROPERTY AttemptEnds
