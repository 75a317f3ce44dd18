------------------------------ MODULE Dispatcher ------------------------------
(***************************************************************************)
(* The message server: DispatchingServer, its RemotePeer objects and their *)
(* ReferenceCounter.                                                       *)
(*                                                                         *)
(* One thread runs the io_service, so a completion handler runs to its end *)
(* before the next one starts and is one action here.  What interleaves    *)
(* are the handlers of different operations, the completions of the        *)
(* operations themselves (an operation that has completed keeps its result *)
(* while its handler waits in the queue), and the remote clients.          *)
(*                                                                         *)
(* A RemotePeer lives exactly as long as its entry in peers_list: the map  *)
(* holds the only lasting shared_ptr.  Every asynchronous operation        *)
(* carries a CountedReference to the peer, and the release of the last one *)
(* sends ID_CAN_DELETE, which erases the entry.                            *)
(***************************************************************************)
EXTENDS Integers, Sequences, FiniteSets

CONSTANTS
    MaxConnections, \* bound: connections accepted in one behaviour
    MaxMessages,    \* bound: message bodies received in one behaviour
    Chunks,         \* pieces in which a frame can be handed to the kernel
    PartialWrites,  \* may the kernel take only a part of a frame at a time?
    Headers         \* headers clients send: [valid |-> .., packetsize |-> ..]

\* Layer identifier and trailing zero are right / wrong, 16 bit size field.
HeaderType == [valid : BOOLEAN, packetsize : 0..65535]

ASSUME BoundsAssumption == MaxConnections \in Nat /\ MaxMessages \in Nat
ASSUME ChunksAssumption == Chunks \in Nat \ {0}
ASSUME WritesAssumption == PartialWrites \in BOOLEAN
ASSUME HeadersAssumption == Headers \subseteq HeaderType

header_length == 4
MAX_PACKETSIZE == 36863 \* 0x8FFF

Conns == 1..MaxConnections

VARIABLES
    service,         \* state of the process around io_service.run()
    peers_list,      \* connection ids in the map, hence the live RemotePeers
    current_conn_id, \* last id handed out
    reference_count, \* per peer: ReferenceCounter::reference_count
    error_happened,  \* per peer: an error was already reported
    socketOpen,      \* per peer: peer_socket has not been closed
    link,            \* per peer: the TCP connection behind the socket
    readOp,          \* per peer: the receive operation, see ReadStates
    writeQ,          \* per peer: write operations waiting in the reactor
    writesOk,        \* per peer: successful writes whose handler is queued
    writesFailed,    \* per peer: failed writes whose handler is queued
    wire,            \* per peer: what the kernel took, in order (history)
    joined,          \* per peer: value of distributed when it was accepted
    received,        \* bodies read from all sockets (history)
    distributed      \* messages distributed so far; numbers the messages

peerVars == <<reference_count, error_happened, socketOpen>>
writeVars == <<writeQ, writesOk, writesFailed>>
history == <<wire, joined, received, distributed>>
vars == <<service, peers_list, current_conn_id, peerVars, link, readOp,
          writeVars, history>>

\* "header"/"body": started and pending; _done/_error: handler is queued.
ReadStates == {"none", "header", "header_done", "header_error",
               "body", "body_done", "body_error"}

\* A write operation: the message number and the chunks already taken.
WriteOp == [msg : Nat, taken : 0..Chunks]
Chunk == [msg : Nat, chunk : 1..Chunks]

TypeOK ==
    /\ service \in {"running", "stopped", "destroyed", "terminated"}
    /\ peers_list \subseteq Conns
    /\ current_conn_id \in 0..MaxConnections
    /\ reference_count \in [Conns -> Nat]
    /\ error_happened \in [Conns -> BOOLEAN]
    /\ socketOpen \in [Conns -> BOOLEAN]
    /\ link \in [Conns -> {"none", "up", "eof", "reset"}]
    /\ readOp \in [Conns -> ReadStates]
    /\ writeQ \in [Conns -> Seq(WriteOp)]
    /\ writesOk \in [Conns -> Nat]
    /\ writesFailed \in [Conns -> Nat]
    /\ wire \in [Conns -> Seq(Chunk)]
    /\ joined \in [Conns -> Nat]
    /\ received \in 0..MaxMessages
    /\ distributed \in Nat

-----------------------------------------------------------------------------
(* The constructor starts to accept; no client is connected yet. *)
Init ==
    /\ service = "running"
    /\ peers_list = {}
    /\ current_conn_id = 0
    /\ reference_count = [p \in Conns |-> 0]
    /\ error_happened = [p \in Conns |-> FALSE]
    /\ socketOpen = [p \in Conns |-> FALSE]
    /\ link = [p \in Conns |-> "none"]
    /\ readOp = [p \in Conns |-> "none"]
    /\ writeQ = [p \in Conns |-> <<>>]
    /\ writesOk = [p \in Conns |-> 0]
    /\ writesFailed = [p \in Conns |-> 0]
    /\ wire = [p \in Conns |-> <<>>]
    /\ joined = [p \in Conns |-> 0]
    /\ received = 0
    /\ distributed = 0

-----------------------------------------------------------------------------
(* ReferenceCounter and the pieces the handlers are made of *)

\* Slips of Release: the entry is never erased, it is erased one reference
\* too early, the reference is not given back, or given back twice.
ReleaseWithoutDelete(p, n) ==
    /\ reference_count' = [reference_count EXCEPT ![p] = n]
    /\ UNCHANGED peers_list

ReleaseAtOne(p, n) ==
    /\ reference_count' = [reference_count EXCEPT ![p] = n]
    /\ peers_list' = IF n <= 1 THEN peers_list \ {p} ELSE peers_list

ReleaseNothing(p, n) == UNCHANGED <<reference_count, peers_list>>

ReleaseTwice(p, n) ==
    /\ reference_count' = [reference_count EXCEPT ![p] = n - 1]
    /\ peers_list' = IF n <= 1 THEN peers_list \ {p} ELSE peers_list

(* The handler's CountedReference goes out of scope and n references       *)
(* remain: at zero, canDelete sends ID_CAN_DELETE and the entry is erased. *)
Release(p, n) ==
    /\ reference_count' = [reference_count EXCEPT ![p] = n]
    /\ peers_list' = IF n = 0 THEN peers_list \ {p} ELSE peers_list

\* Slip: the shutdown also discards a body that was already received.
AbortReadDone(r) ==
    IF r = "header" THEN "header_error"
    ELSE IF r \in {"body", "body_done"} THEN "body_error" ELSE r

\* What closing the socket does to a receive that is still pending.
AbortRead(r) ==
    IF r = "header" THEN "header_error"
    ELSE IF r = "body" THEN "body_error" ELSE r

\* Slip: a receive is started on a closed socket as if it could complete.
StartReadAlways(p, op) == op

\* A receive started now: on a closed socket it fails at once.
StartRead(p, op) ==
    IF socketOpen[p] THEN op ELSE AbortRead(op)

\* postError reports, and handleServerEvent does not ignore the report.
Reports(p) == ~error_happened[p] /\ p \in peers_list

\* Slip: the error is noted but the socket stays open.
PostErrorWithoutShutdown(p, own) ==
    /\ error_happened' = [error_happened EXCEPT ![p] = TRUE]
    /\ writesFailed' = [writesFailed EXCEPT ![p] = @ - own]
    /\ UNCHANGED <<socketOpen, writeQ>>

(* postError: the first error of a peer makes the server shut its socket   *)
(* down, which aborts every pending operation.  own is 1 when the handler  *)
(* that reports is the handler of a failed write, which is consumed.       *)
PostError(p, own) ==
    /\ error_happened' = [error_happened EXCEPT ![p] = TRUE]
    /\ socketOpen' = [socketOpen EXCEPT ![p] = @ /\ ~Reports(p)]
    /\ writeQ' = [writeQ EXCEPT ![p] = IF Reports(p) THEN <<>> ELSE @]
    /\ writesFailed' = [writesFailed EXCEPT
           ![p] = (@ - own) + IF Reports(p) THEN Len(writeQ[p]) ELSE 0]

-----------------------------------------------------------------------------
(* The acceptor *)

\* Slip: an id that is no longer listed is handed out again.
getFreedConnectionId ==
    IF current_conn_id \in Conns \ peers_list
      THEN current_conn_id ELSE current_conn_id + 1

getNextConnectionId == current_conn_id + 1

(* A client was accepted: a fresh id, a RemotePeer whose constructor       *)
(* starts to receive, its entry in the map, and the next accept.           *)
AcceptHandler ==
    /\ service = "running"
    /\ current_conn_id < MaxConnections
    /\ LET p == getNextConnectionId
       IN  /\ current_conn_id' = p
           /\ peers_list' = peers_list \union {p}
           /\ reference_count' = [reference_count EXCEPT ![p] = 1]
           /\ error_happened' = [error_happened EXCEPT ![p] = FALSE]
           /\ socketOpen' = [socketOpen EXCEPT ![p] = TRUE]
           /\ link' = [link EXCEPT ![p] = "up"]
           /\ readOp' = [readOp EXCEPT ![p] = "header"]
           /\ joined' = [joined EXCEPT ![p] = distributed]
    /\ UNCHANGED <<service, writeVars, wire, received, distributed>>

(* The accept failed: the handler stops the io_service and run() returns. *)
AcceptError ==
    /\ service = "running"
    /\ service' = "stopped"
    /\ UNCHANGED <<peers_list, current_conn_id, peerVars, link, readOp,
                   writeVars, history>>

(* main() returns: the members of the server are destroyed in reverse      *)
(* order, so peers_list with its RemotePeers goes before io_service and    *)
(* the handlers that it still holds.                                       *)
DestroyServer ==
    /\ service = "stopped"
    /\ service' = "destroyed"
    /\ peers_list' = {}
    /\ socketOpen' = [p \in Conns |-> FALSE]
    /\ UNCHANGED <<current_conn_id, reference_count, error_happened, link,
                   readOp, writeVars, history>>

-----------------------------------------------------------------------------
(* The clients and the kernel (external) *)

\* The client closes its end (data it sent before may still be read), or the
\* connection is reset.
LinkBreaks(p) ==
    /\ service = "running"
    /\ socketOpen[p]
    /\ \E l \in {"eof", "reset"} :
         /\ link[p] # l
         /\ link[p] # "reset"
         /\ link' = [link EXCEPT ![p] = l]
    /\ UNCHANGED <<service, peers_list, current_conn_id, peerVars, readOp,
                   writeVars, history>>

\* A pending receive gets all its bytes.
ReadCompletes(p) ==
    /\ service = "running"
    /\ link[p] # "reset"
    /\ \/ /\ readOp[p] = "header"
          /\ readOp' = [readOp EXCEPT ![p] = "header_done"]
          /\ UNCHANGED received
       \/ /\ readOp[p] = "body"
          /\ received < MaxMessages
          /\ readOp' = [readOp EXCEPT ![p] = "body_done"]
          /\ received' = received + 1
    /\ UNCHANGED <<service, peers_list, current_conn_id, peerVars, link,
                   writeVars, wire, joined, distributed>>

\* A pending receive meets the end of the stream or the reset.
ReadFails(p) ==
    /\ service = "running"
    /\ link[p] \in {"eof", "reset"}
    /\ readOp[p] \in {"header", "body"}
    /\ readOp' = [readOp EXCEPT ![p] = AbortRead(readOp[p])]
    /\ UNCHANGED <<service, peers_list, current_conn_id, peerVars, link,
                   writeVars, history>>

\* The kernel takes n chunks of the write at the head of the reactor's queue.
\* async_write continues an unfinished frame with a new write operation, and
\* that one queues up behind the writes which other messages have started.
WriteSome(p) ==
    /\ service = "running"
    /\ link[p] # "reset"
    /\ writeQ[p] # <<>>
    /\ LET op == Head(writeQ[p])
           left == Chunks - op.taken
       IN  \E n \in 1..left :
             /\ PartialWrites \/ n = left
             /\ wire' = [wire EXCEPT ![p] = @ \o
                    [i \in 1..n |-> [msg |-> op.msg, chunk |-> op.taken + i]]]
             /\ IF n = left
                  THEN /\ writeQ' = [writeQ EXCEPT ![p] = Tail(@)]
                       /\ writesOk' = [writesOk EXCEPT ![p] = @ + 1]
                  ELSE /\ writeQ' = [writeQ EXCEPT ![p] =
                            Append(Tail(@), [op EXCEPT !.taken = @ + n])]
                       /\ UNCHANGED writesOk
    /\ UNCHANGED <<service, peers_list, current_conn_id, peerVars, link,
                   readOp, writesFailed, joined, received, distributed>>

\* A write meets the reset.
WriteFails(p) ==
    /\ service = "running"
    /\ link[p] = "reset"
    /\ writeQ[p] # <<>>
    /\ writeQ' = [writeQ EXCEPT ![p] = Tail(@)]
    /\ writesFailed' = [writesFailed EXCEPT ![p] = @ + 1]
    /\ UNCHANGED <<service, peers_list, current_conn_id, peerVars, link,
                   readOp, writesOk, history>>

-----------------------------------------------------------------------------
(* The completion handlers of RemotePeer *)

\* A receive handler that reports an error: it starts nothing new.
ReadHandlerFails(p) ==
    /\ PostError(p, 0)
    /\ readOp' = [readOp EXCEPT ![p] = "none"]
    /\ Release(p, reference_count[p] - 1)
    /\ UNCHANGED <<service, current_conn_id, link, writesOk, history>>

\* rcvHeaderHandler with an error code.
RcvHeaderHandlerError(p) ==
    /\ service = "running"
    /\ readOp[p] = "header_error"
    /\ ReadHandlerFails(p)

\* decodeHeader and the size check throw no InvalidHeaderError.
AcceptableHeader(h) == h.valid /\ h.packetsize <= MAX_PACKETSIZE

(* rcvHeaderHandler with a header in the buffer: the body is received next *)
(* or the header is rejected.  A body of zero bytes is complete at once,   *)
(* whatever became of the socket.  A size below header_length wraps to a   *)
(* huge unsigned length; no clause catches what the vector then throws.    *)
RcvHeaderHandler(p) ==
    /\ service = "running"
    /\ readOp[p] = "header_done"
    /\ \E h \in Headers :
         \/ /\ AcceptableHeader(h)
            /\ h.packetsize > header_length
            /\ readOp' = [readOp EXCEPT ![p] = StartRead(p, "body")]
            /\ UNCHANGED <<service, peers_list, current_conn_id, peerVars,
                           link, writeVars, history>>
         \/ /\ AcceptableHeader(h)
            /\ h.packetsize = header_length
            /\ received < MaxMessages
            /\ readOp' = [readOp EXCEPT ![p] = "body_done"]
            /\ received' = received + 1
            /\ UNCHANGED <<service, peers_list, current_conn_id, peerVars,
                           link, writeVars, wire, joined, distributed>>
         \/ /\ ~AcceptableHeader(h)
            /\ ReadHandlerFails(p)
         \/ /\ AcceptableHeader(h)
            /\ h.packetsize < header_length
            /\ service' = "terminated"
            /\ UNCHANGED <<peers_list, current_conn_id, peerVars, link,
                           readOp, writeVars, history>>

\* rcvBodyHandler with an error code.
RcvBodyHandlerError(p) ==
    /\ service = "running"
    /\ readOp[p] = "body_error"
    /\ ReadHandlerFails(p)

\* Slip: the message is not echoed to the client it came from.
DistributeToOthers(originating_id, m) ==
    LET others == peers_list \ {originating_id}
    IN  /\ writeQ' = [q \in Conns |->
               IF q \in others /\ socketOpen[q]
                 THEN Append(writeQ[q], [msg |-> m, taken |-> 0])
                 ELSE writeQ[q]]
        /\ writesFailed' = [q \in Conns |-> writesFailed[q] +
               IF q \in others /\ ~socketOpen[q] THEN 1 ELSE 0]
        /\ reference_count' = [q \in Conns |-> reference_count[q] +
               IF q \in others THEN 1 ELSE 0]
        /\ distributed' = m

(* distributeMessage: every listed peer starts to write message m, the     *)
(* originator and the peers that were shut down included; on a closed      *)
(* socket the write fails at once.                                         *)
DistributeMessage(originating_id, m) ==
    /\ writeQ' = [q \in Conns |->
           IF q \in peers_list /\ socketOpen[q]
             THEN Append(writeQ[q], [msg |-> m, taken |-> 0])
             ELSE writeQ[q]]
    /\ writesFailed' = [q \in Conns |-> writesFailed[q] +
           IF q \in peers_list /\ ~socketOpen[q] THEN 1 ELSE 0]
    /\ reference_count' = [q \in Conns |-> reference_count[q] +
           IF q \in peers_list THEN 1 ELSE 0]
    /\ distributed' = m

(* rcvBodyHandler with a body: ID_MSG_RECEIVED distributes it (unless the  *)
(* peer is not listed), then the next header is awaited.  The reference of *)
(* the handler is replaced by the one of the new receive.                  *)
RcvBodyHandler(p) ==
    /\ service = "running"
    /\ readOp[p] = "body_done"
    /\ IF p \in peers_list
         THEN DistributeMessage(p, distributed + 1)
         ELSE UNCHANGED <<writeQ, writesFailed, reference_count, distributed>>
    /\ readOp' = [readOp EXCEPT ![p] = StartRead(p, "header")]
    /\ UNCHANGED <<service, peers_list, current_conn_id, error_happened,
                   socketOpen, link, writesOk, wire, joined, received>>

\* sendHandler after a complete write: only its reference is released.
SendHandler(p) ==
    /\ service = "running"
    /\ writesOk[p] > 0
    /\ writesOk' = [writesOk EXCEPT ![p] = @ - 1]
    /\ Release(p, reference_count[p] - 1)
    /\ UNCHANGED <<service, current_conn_id, error_happened, socketOpen,
                   link, readOp, writeQ, writesFailed, history>>

\* sendHandler with an error code.
SendHandlerError(p) ==
    /\ service = "running"
    /\ writesFailed[p] > 0
    /\ PostError(p, 1)
    /\ readOp' = [readOp EXCEPT
           ![p] = IF Reports(p) THEN AbortRead(@) ELSE @]
    /\ Release(p, reference_count[p] - 1)
    /\ UNCHANGED <<service, current_conn_id, link, writesOk, history>>

-----------------------------------------------------------------------------
Handler(p) ==
    \/ RcvHeaderHandlerError(p) \/ RcvHeaderHandler(p)
    \/ RcvBodyHandlerError(p)   \/ RcvBodyHandler(p)
    \/ SendHandler(p)           \/ SendHandlerError(p)

Environment(p) ==
    \/ LinkBreaks(p)
    \/ ReadCompletes(p) \/ ReadFails(p)
    \/ WriteSome(p)     \/ WriteFails(p)

\* The process is gone.
Over == service \in {"destroyed", "terminated"} /\ UNCHANGED vars

Next ==
    \/ AcceptHandler \/ AcceptError \/ DestroyServer \/ Over
    \/ \E p \in Conns : Handler(p) \/ Environment(p)

(* run() executes every queued handler sooner or later, and the reactor    *)
(* notices a broken connection.  A client need not send, nor take what is  *)
(* written to it.                                                          *)
Fairness ==
    \A p \in Conns :
        /\ WF_vars(ReadFails(p))
        /\ WF_vars(WriteFails(p))
        /\ WF_vars(RcvHeaderHandlerError(p) \/ RcvHeaderHandler(p)
                    \/ RcvBodyHandlerError(p) \/ RcvBodyHandler(p))
        /\ WF_vars(SendHandler(p))
        /\ WF_vars(SendHandlerError(p))

Spec == Init /\ [][Next]_vars /\ Fairness

-----------------------------------------------------------------------------
(* Properties *)

\* Operations of p whose handler has not returned.
Receives(p) == IF readOp[p] = "none" THEN 0 ELSE 1
Outstanding(p) ==
    Receives(p) + Len(writeQ[p]) + writesOk[p] + writesFailed[p]

BodiesWaiting == {p \in Conns : readOp[p] = "body_done"}

(* The reference count that decides over a peer's life is the number of    *)
(* its outstanding handlers, whatever they and the shutdown of the socket  *)
(* did to its operations (refcounter.hpp, RemotePeer's handlers).          *)
HandlersCounted ==
    \A p \in Conns : reference_count[p] = Outstanding(p)

(* Until the server is destroyed, no handler is left that refers to a      *)
(* RemotePeer which was already erased from peers_list ("deletion of this  *)
(* object is invalid until all handlers have returned").                   *)
NoUseAfterDelete ==
    service # "destroyed" =>
        \A p \in Conns : Outstanding(p) > 0 => p \in peers_list

(* A listed peer has a handler outstanding: otherwise no reference is left *)
(* whose release could erase it, and it would stay in peers_list forever.  *)
NoPeerForgotten ==
    \A p \in peers_list : Outstanding(p) > 0

(* A peer from which the server no longer receives is shut down: a client  *)
(* never stays connected to a server that is deaf to it.                   *)
DeafPeerIsClosed ==
    \A p \in peers_list : readOp[p] = "none" => ~socketOpen[p]

(* Every body that was read is distributed once, or its handler is still   *)
(* queued: an error on the same connection, reported between the two, does *)
(* not swallow it.                                                         *)
BodiesAccounted ==
    received = distributed + Cardinality(BodiesWaiting)

(* A socket that was shut down after an error is never opened again under  *)
(* the same connection id and nothing more is written to it.               *)
ClosedForGood ==
    [][\A p \in Conns : p <= current_conn_id /\ ~socketOpen[p] =>
          ~socketOpen'[p] /\ UNCHANGED wire[p]]_vars

\* New messages never cease to be distributed.
TrafficGoesOn == []<><<distributed' # distributed>>_vars

(* A peer whose connection broke is eventually erased from the server's    *)
(* list, unless the server ends first, or messages of the other peers never *)
(* cease: each of them starts a write to the broken peer as long as it is  *)
(* listed (distributeMessage), and may do so before the last one failed.   *)
BrokenPeerErased ==
    \/ TrafficGoesOn
    \/ \A p \in Conns :
          link[p] \in {"eof", "reset"} /\ p \in peers_list
              ~> p \notin peers_list \/ service # "running"

\* The runs of handlers that p can still have if no message is distributed
\* any more: at most three follow from a receive, one from each write.
HandlersLeft(r) ==
    IF r = "none" THEN 0
    ELSE IF r \in {"header_error", "body_error"} THEN 1
    ELSE IF r = "body_done" THEN 3 ELSE 4

Left(p) ==
    HandlersLeft(readOp[p]) + Len(writeQ[p]) + writesOk[p] + writesFailed[p]

(* A peer that was shut down drains, whatever its clients sent and whoever *)
(* else is served: each run of one of its handlers brings it closer to its *)
(* end, and nothing takes it further away but a message distributed to it, *)
(* and that by no more than the one write.  So nothing revives a closed    *)
(* peer, and one that stays listed for ever has messages to blame for it.  *)
PeerDrains ==
    [][\A p \in peers_list : ~socketOpen[p] /\ service' = "running" =>
          /\ Handler(p) => Left(p)' < Left(p)
          /\ Left(p)' <= Left(p) + (distributed' - distributed)]_vars

(* On the stream to each client the chunks of a frame follow each other:   *)
(* what the segmentation layer's length headers rely on.                   *)
FramesContiguous ==
    \A p \in Conns : \A i \in 1..Len(wire[p]) :
        LET c == wire[p][i]
        IN  IF c.chunk = 1
              THEN i = 1 \/ wire[p][i-1].chunk = Chunks
              ELSE i > 1 /\ wire[p][i-1] = [msg |-> c.msg,
                                            chunk |-> c.chunk - 1]

(* A RemotePeer is never deleted before all its handlers have returned,    *)
(* as remotepeer.hpp demands, the end of the process included.             *)
DeletedAfterHandlers ==
    \A p \in Conns : Outstanding(p) > 0 => p \in peers_list

(* run() returns normally: dispatcher.hpp promises that no exception       *)
(* leaves it.                                                              *)
RunThrowsNothing == service # "terminated"

-----------------------------------------------------------------------------
(* The inductive invariant behind the theorems of DispatcherProofs *)

\* Until the members are destroyed, the map lists the referenced peers.
ListedIffReferenced ==
    IF service = "destroyed"
      THEN peers_list = {}
      ELSE \A p \in Conns : p \in peers_list <=> reference_count[p] > 0

\* Nothing refers to an id that was not handed out yet.
FreshUnused ==
    \A p \in Conns : p > current_conn_id =>
        reference_count[p] = 0 /\ ~socketOpen[p]

\* A closed socket has nothing pending, and the socket of a peer that
\* reported an error or does not receive is closed.
ClosedIdle ==
    service # "destroyed" =>
        \A p \in Conns :
            /\ ~socketOpen[p] => /\ writeQ[p] = <<>>
                                 /\ readOp[p] \notin {"header", "body"}
            /\ error_happened[p] \/ readOp[p] = "none" => ~socketOpen[p]

(* The invariant that every step preserves: the reference counts are exact *)
(* and together with the socket states decide which peers are listed.      *)
DispatcherInv ==
    /\ TypeOK
    /\ HandlersCounted
    /\ ListedIffReferenced
    /\ FreshUnused
    /\ ClosedIdle
=============================================================================
