---------------------------- MODULE ServerBroadcast ----------------------------
(***************************************************************************)
(* Dispatcher seen as a Broadcast: the members are the peers whose socket  *)
(* is open, and what a client gets is what it reads off its stream frame   *)
(* by frame, a frame being Chunks chunks long.                             *)
(***************************************************************************)
EXTENDS Dispatcher

\* Whole frames on the stream to p, and the message at the end of each.
Frames(p) == Len(wire[p]) \div Chunks
Delivered(p) == [i \in 1..Frames(p) |-> wire[p][i * Chunks].msg]

Broadcaster ==
    INSTANCE Broadcast WITH
        Clients   <- Conns,
        members   <- {p \in Conns : socketOpen[p]},
        past      <- 1..current_conn_id,
        published <- distributed,
        since     <- joined,
        stream    <- [p \in Conns |-> Delivered(p)]

(* The server implements the abstract broadcast: the complete frames on    *)
(* the stream to a client are a gapless run, in the order of distribution, *)
(* of the messages received after the client was accepted, whatever the    *)
(* order in which handlers run, writes fail and peers go.  This is so if   *)
(* the kernel takes each frame in one piece (PartialWrites = FALSE).       *)
ImplementsBroadcast == Broadcaster!Spec

-----------------------------------------------------------------------------
(* The inductive invariant behind the refinement *)

\* The chunk at position j of a stream whose first frame is message first.
Expected(first, j) ==
    [msg |-> first + ((j - 1) \div Chunks), chunk |-> 1 + ((j - 1) % Chunks)]

\* A stream consists of whole frames, which are the messages distributed
\* since the peer joined, in order and without a gap.
StreamIsRun ==
    \A p \in Conns :
        /\ Len(wire[p]) = Frames(p) * Chunks
        /\ \A j \in 1..Len(wire[p]) : wire[p][j] = Expected(joined[p] + 1, j)

\* What is still to be written to a client is the rest of the run, untouched,
\* up to the last message distributed, unless a write met a reset.
QueueIsRest ==
    \A p \in Conns : socketOpen[p] /\ link[p] # "reset" =>
        /\ joined[p] + Frames(p) + Len(writeQ[p]) = distributed
        /\ \A i \in 1..Len(writeQ[p]) :
              writeQ[p][i] = [msg |-> joined[p] + Frames(p) + i, taken |-> 0]

\* Nothing was written to an id that was not handed out yet.
FreshSilent == \A p \in Conns : p > current_conn_id => wire[p] = <<>>

(* While the kernel takes every frame in one piece, the streams and the    *)
(* write queues together are, for each client, one gapless run.            *)
BroadcastInv == StreamIsRun /\ QueueIsRest /\ FreshSilent
=============================================================================
