\* User calls beside the handlers of the I/O thread.
SPECIFICATION Spec
CONSTANTS
    MaxRequests = 1
    MaxMessages = 1
    MaxRecords = 1
    BadDestinations = FALSE
    Destroys = TRUE
INVARIANT MachineExclusive
