\* Lifecycle of the server's peers: every header class, no partial writes.
SPECIFICATION Spec
CONSTANTS
    MaxConnections = 2
    MaxMessages = 2
    Chunks = 2
    PartialWrites = FALSE
    Headers <- MCHeaders
INVARIANTS TypeOK DispatcherInv NoUseAfterDelete NoPeerForgotten DeafPeerIsClosed BodiesAccounted BroadcastInv
PROPERTIES ClosedForGood PeerDrains BrokenPeerErased ImplementsBroadcast
