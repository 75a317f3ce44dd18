\* A client is destroyed at any moment of its first connection.
SPECIFICATION Spec
CONSTANTS
    MaxRequests = 1
    MaxMessages = 0
    MaxRecords = 1
    BadDestinations = FALSE
    Destroys = TRUE
PROPERTY DestructorReturns
