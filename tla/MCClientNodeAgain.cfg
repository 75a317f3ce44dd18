\* A second connection while threads and handlers of the first remain.
SPECIFICATION Spec
CONSTANTS
    MaxRequests = 2
    MaxMessages = 1
    MaxRecords = 1
    BadDestinations = FALSE
    Destroys = FALSE
INVARIANTS ReportIsCurrent SendReportedOnce MessagesAccounted ClientInv
