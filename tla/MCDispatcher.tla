----------------------------- MODULE MCDispatcher -----------------------------
(* Instances of Dispatcher for TLC. *)
EXTENDS ServerBroadcast

\* One header of each class, at the boundaries of the size check.
MCHeaders ==
    {[valid |-> TRUE, packetsize |-> 3],
     [valid |-> TRUE, packetsize |-> 4],
     [valid |-> TRUE, packetsize |-> 36863],
     [valid |-> TRUE, packetsize |-> 36864],
     [valid |-> FALSE, packetsize |-> 100]}

MCValidHeaders == {[valid |-> TRUE, packetsize |-> 100]}

MCRejectedAndValid ==
    {[valid |-> TRUE, packetsize |-> 100], [valid |-> FALSE, packetsize |-> 100]}
=============================================================================
