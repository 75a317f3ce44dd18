\* A second request while handlers of the first attempt are left.
SPECIFICATION Spec
CONSTANTS
    MaxRequests = 2
    MaxMessages = 0
    MaxRecords = 2
    BadDestinations = FALSE
    Destroys = FALSE
INVARIANT ConnectedToLastRequest
