--------------------------- MODULE ConnectedClient ---------------------------
(***************************************************************************)
(* One client of the new server: ConnectedClient with its three handlers,  *)
(* the owner that holds the last shared_ptr, and the remote host at the    *)
(* other end of the socket.                                                *)
(*                                                                         *)
(* Handlers hold a weak_ptr.  A handler that can lock it keeps the object  *)
(* alive until it returns, also when the owner lets go meanwhile; then the *)
(* object is destroyed, which closes the socket and aborts what is pending.*)
(* So between handlers the object lives exactly while the owner holds it.  *)
(*                                                                         *)
(* The remote host sends bytes in its own byte order; shutdown() does not  *)
(* close the socket, what has arrived can still be read.                   *)
(***************************************************************************)
EXTENDS Layers, FiniteSets

CONSTANTS
    Messages,   \* messages the remote host can send
    BadFrames,  \* other packets it can send, as bytes
    MaxFrames,  \* bound: packets the remote host sends
    MaxPackets, \* bound: packets the owner sends
    Chunks      \* pieces in which a packet can be handed to the kernel

ASSUME MessagesAssumption == Messages \subseteq NearUserMessage
ASSUME BadFramesAssumption == BadFrames \subseteq Seq(Byte)
ASSUME CountsAssumption ==
    MaxFrames \in Nat /\ MaxPackets \in Nat /\ Chunks \in Nat \ {0}

VARIABLES
    orders,       \* byte orders of the two hosts
    service,      \* "terminated" once an exception has left run()
    held,         \* the owner holds the shared_ptr
    shut,         \* socket.shutdown() was called
    link,         \* the TCP connection as the remote end left it
    stream,       \* bytes that have arrived and were not read
    said,         \* what the remote host sent, see Utterances (history)
    cut,          \* the remote host died within a packet (history)
    read,         \* the receive operation
    received,     \* bodies passed to the receivedMessage callback (history)
    disconnected, \* calls of the disconnected callback (history)
    packets,      \* packets passed to sendPacket so far; numbers them
    writeQ,       \* write operations waiting in the reactor
    writesOk,     \* successful writes whose handler is queued
    writesFailed, \* failed writes whose handler is queued
    written,      \* packets the kernel took completely (history)
    closing       \* the owner called shutdown() (history)

remoteVars == <<orders, link, stream, said, cut>>
writeVars == <<packets, writeQ, writesOk, writesFailed, written>>
signals == <<received, disconnected>>
vars == <<remoteVars, service, held, shut, read, signals, writeVars, closing>>

\* A packet is said as <<message>>, a packet without a message as <<>>.
Utterances == {<<m>> : m \in Messages} \union {<<>>}

ReadStates == {"none", "header", "header_done", "header_error",
               "body", "body_done", "body_error"}
ReadOp == [op : ReadStates, wanted : Nat, data : Seq(Byte)]
WriteOp == [packet : 1..MaxPackets, taken : 0..Chunks]

TypeOK ==
    /\ orders \in [{"remote", "local"} -> Orders]
    /\ service \in {"running", "terminated"}
    /\ held \in BOOLEAN
    /\ shut \in BOOLEAN
    /\ link \in {"up", "eof", "reset"}
    /\ stream \in Seq(Byte)
    /\ said \in Seq(Utterances)
    /\ cut \in BOOLEAN
    /\ read \in ReadOp
    /\ received \in Seq(Seq(Byte))
    /\ disconnected \in Nat
    /\ packets \in 0..MaxPackets
    /\ writeQ \in Seq(WriteOp)
    /\ writesOk \in Nat
    /\ writesFailed \in Nat
    /\ written \subseteq 1..MaxPackets
    /\ closing \in BOOLEAN

-----------------------------------------------------------------------------
\* startReceive: the next header.
HeaderRead == [op |-> "header", wanted |-> header_length, data |-> <<>>]
NoRead == [op |-> "none", wanted |-> 0, data |-> <<>>]

(* makeInstance: a connected socket, and the first receive is started. *)
Init ==
    /\ orders \in [{"remote", "local"} -> Orders]
    /\ service = "running"
    /\ held = TRUE
    /\ shut = FALSE
    /\ link = "up"
    /\ stream = <<>>
    /\ said = <<>>
    /\ cut = FALSE
    /\ read = HeaderRead
    /\ received = <<>>
    /\ disconnected = 0
    /\ packets = 0
    /\ writeQ = <<>>
    /\ writesOk = 0
    /\ writesFailed = 0
    /\ written = {}
    /\ closing = FALSE

-----------------------------------------------------------------------------
(* The remote host and the reactor (external) *)

RemoteSends ==
    /\ service = "running"
    /\ link = "up"
    /\ Len(said) < MaxFrames
    /\ \/ \E m \in Messages :
            /\ said' = Append(said, <<m>>)
            /\ stream' = stream \o
                   Segmented(NearSerialized(m, orders.remote), orders.remote)
       \/ \E f \in BadFrames :
            /\ said' = Append(said, <<>>)
            /\ stream' = stream \o f
    /\ UNCHANGED <<orders, link, cut, service, held, shut, read, signals,
                   writeVars, closing>>

\* The remote host closes after its last packet, dies before the last byte of
\* it is sent, or resets the connection.
RemoteBreaks ==
    /\ service = "running"
    /\ link = "up"
    /\ \/ link' = "eof" /\ UNCHANGED <<stream, cut>>
       \/ /\ stream # <<>>
          /\ link' = "eof"
          /\ stream' = Front(stream)
          /\ cut' = TRUE
       \/ link' = "reset" /\ UNCHANGED <<stream, cut>>
    /\ UNCHANGED <<orders, said, service, held, shut, read, signals,
                   writeVars, closing>>

Pending == read.op \in {"header", "body"}
Readable == read.wanted = 0 \/ (link # "reset" /\ Len(stream) >= read.wanted)

\* The pending receive has all its bytes.
ReadCompletes ==
    /\ service = "running"
    /\ Pending
    /\ Readable
    /\ read' = [op     |-> IF read.op = "header" THEN "header_done"
                                                 ELSE "body_done",
                wanted |-> 0,
                data   |-> SubSeq(stream, 1, read.wanted)]
    /\ stream' = SubSeq(stream, read.wanted + 1, Len(stream))
    /\ UNCHANGED <<orders, link, said, cut, service, held, shut, signals,
                   writeVars, closing>>

\* What an error or the destruction of the socket does to a receive.
Abort(r) ==
    IF r.op = "header" THEN [r EXCEPT !.op = "header_error"]
    ELSE IF r.op = "body" THEN [r EXCEPT !.op = "body_error"] ELSE r

\* It meets the end of the stream, the shutdown or the reset.
ReadFails ==
    /\ service = "running"
    /\ Pending
    /\ ~Readable
    /\ link # "up" \/ shut
    /\ read' = Abort(read)
    /\ UNCHANGED <<remoteVars, service, held, shut, signals, writeVars,
                   closing>>

\* The kernel takes a part of the first packet in the reactor's queue; an
\* unfinished async_write goes on with a new operation, behind the others.
WriteSome ==
    /\ service = "running"
    /\ ~shut
    /\ link # "reset"
    /\ writeQ # <<>>
    /\ LET op == Head(writeQ)
       IN  \E n \in 1..(Chunks - op.taken) :
             IF op.taken + n = Chunks
               THEN /\ writeQ' = Tail(writeQ)
                    /\ writesOk' = writesOk + 1
                    /\ written' = written \union {op.packet}
               ELSE /\ writeQ' = Append(Tail(writeQ),
                                        [op EXCEPT !.taken = @ + n])
                    /\ UNCHANGED <<writesOk, written>>
    /\ UNCHANGED <<remoteVars, service, held, shut, read, signals, packets,
                   writesFailed, closing>>

\* A write meets the shutdown or the reset.
WriteFails ==
    /\ service = "running"
    /\ shut \/ link = "reset"
    /\ writeQ # <<>>
    /\ writeQ' = Tail(writeQ)
    /\ writesFailed' = writesFailed + 1
    /\ UNCHANGED <<remoteVars, service, held, shut, read, signals, packets,
                   writesOk, written, closing>>

-----------------------------------------------------------------------------
(* The owner *)

(* The receive, the writes and the failed writes after a step in which the *)
(* owner keeps the connection or lets go of it.                            *)
Settle(keeps, r, q, failed) ==
    /\ held' = keeps
    /\ IF keeps
         THEN read' = r /\ writeQ' = q /\ writesFailed' = failed
         ELSE /\ read' = Abort(r)
              /\ writeQ' = <<>>
              /\ writesFailed' = failed + Len(q)

\* async_write: the operation joins those in progress.
StartWrite(n) == writeQ' = Append(writeQ, [packet |-> n, taken |-> 0])

SendPacket ==
    /\ service = "running"
    /\ held
    /\ packets < MaxPackets
    /\ packets' = packets + 1
    /\ StartWrite(packets + 1)
    /\ UNCHANGED <<remoteVars, service, held, shut, read, signals, writesOk,
                   writesFailed, written, closing>>

CallsShutdown ==
    /\ shut' = TRUE
    /\ closing' = TRUE

Shutdown ==
    /\ service = "running"
    /\ held
    /\ CallsShutdown
    /\ UNCHANGED <<remoteVars, service, held, read, signals, writeVars>>

\* The last shared_ptr is destroyed.
Release ==
    /\ service = "running"
    /\ held
    /\ Settle(FALSE, read, writeQ, writesFailed)
    /\ UNCHANGED <<remoteVars, service, shut, signals, packets, writesOk,
                   written, closing>>

-----------------------------------------------------------------------------
(* The handlers *)

\* Slip: the error is reported but the connection stays open.
DisconnectWithoutShutdown(r, failed) ==
    /\ disconnected' = disconnected + 1
    /\ \E keeps \in BOOLEAN : Settle(keeps, r, writeQ, failed)
    /\ UNCHANGED <<received, shut>>

\* Slip: the connection is shut down but the owner is not told.
DisconnectSilently(r, failed) ==
    /\ shut' = TRUE
    /\ \E keeps \in BOOLEAN : Settle(keeps, r, writeQ, failed)
    /\ UNCHANGED <<received, disconnected>>

(* parent->shutdown() and the disconnected callback, in which the owner    *)
(* may let go of the connection.                                           *)
Disconnect(r, failed) ==
    /\ shut' = TRUE
    /\ disconnected' = disconnected + 1
    /\ \E keeps \in BOOLEAN : Settle(keeps, r, writeQ, failed)
    /\ UNCHANGED received

\* A receive handler that ends the connection.
ReadHandlerFails ==
    /\ Disconnect(NoRead, writesFailed)
    /\ UNCHANGED <<remoteVars, service, packets, writesOk, written, closing>>

\* The weak_ptr of a handler cannot be locked: it returns.
ReadHandlerOrphaned ==
    /\ read' = NoRead
    /\ UNCHANGED <<remoteVars, service, held, shut, signals, writeVars,
                   closing>>

Oversized(n) == n > MAX_PACKETSIZE

\* Slip: the size a header announces is taken for that of the body alone.
BodyLengthWhole(n) == n

\* Slip: the header is taken to be a byte longer than it is.
BodyLengthShort(n) == n - (header_length + 1)

\* Length of the body of a packet of n bytes.
BodyLength(n) == n - header_length

\* ReceiveHeaderHandler.  A size below header_length wraps to a length that
\* no vector can have, and only MsgLayerError is caught.
ReceiveHeaderHandler ==
    /\ service = "running"
    /\ read.op \in {"header_done", "header_error"}
    /\ LET h == decodeHeader(read.data, orders.local)
       IN  \/ ~held /\ ReadHandlerOrphaned
           \/ held /\ read.op = "header_error" /\ ReadHandlerFails
           \/ /\ held
              /\ read.op = "header_done"
              /\ ~h.valid \/ Oversized(h.packetsize)
              /\ ReadHandlerFails
           \/ /\ held
              /\ read.op = "header_done"
              /\ h.valid /\ ~Oversized(h.packetsize)
              /\ IF h.packetsize < header_length
                   THEN service' = "terminated" /\ UNCHANGED read
                   ELSE /\ read' = [op     |-> "body",
                                    wanted |-> BodyLength(h.packetsize),
                                    data   |-> <<>>]
                        /\ UNCHANGED service
              /\ UNCHANGED <<remoteVars, held, shut, signals, writeVars,
                             closing>>

\* Slip: an orphaned handler still delivers the body.
ReceiveBodyHandlerUnlocked ==
    /\ service = "running"
    /\ read.op \in {"body_done", "body_error"}
    /\ \/ ~held /\ read.op = "body_error" /\ ReadHandlerOrphaned
       \/ held /\ read.op = "body_error" /\ ReadHandlerFails
       \/ /\ read.op = "body_done"
          /\ received' = Append(received, read.data)
          /\ Settle(held, HeaderRead, writeQ, writesFailed)
          /\ UNCHANGED <<remoteVars, service, disconnected, packets, shut,
                         writesOk, written, closing>>

(* ReceiveBodyHandler: the body goes to the owner, who may call shutdown() *)
(* and let go within the callback; then the next receive is started,       *)
(* whatever the owner did.                                                 *)
ReceiveBodyHandler ==
    /\ service = "running"
    /\ read.op \in {"body_done", "body_error"}
    /\ \/ ~held /\ ReadHandlerOrphaned
       \/ held /\ read.op = "body_error" /\ ReadHandlerFails
       \/ /\ held
          /\ read.op = "body_done"
          /\ received' = Append(received, read.data)
          /\ \E keeps \in BOOLEAN : Settle(keeps, HeaderRead, writeQ, writesFailed)
          /\ CallsShutdown \/ UNCHANGED <<shut, closing>>
          /\ UNCHANGED <<remoteVars, service, disconnected, packets, writesOk,
                         written>>

\* SendHandler of a complete write.
SendHandler ==
    /\ service = "running"
    /\ writesOk > 0
    /\ writesOk' = writesOk - 1
    /\ UNCHANGED <<remoteVars, service, held, shut, read, signals, packets,
                   writeQ, writesFailed, written, closing>>

\* Slip: an error is ignored, as the receive will meet it, too.
SendHandlerErrorIgnored ==
    /\ service = "running"
    /\ writesFailed > 0
    /\ writesFailed' = writesFailed - 1
    /\ UNCHANGED <<remoteVars, service, held, shut, read, signals, packets,
                   writeQ, writesOk, written, closing>>

\* SendHandler with an error.
SendHandlerError ==
    /\ service = "running"
    /\ writesFailed > 0
    /\ IF held
         THEN Disconnect(read, writesFailed - 1)
         ELSE /\ writesFailed' = writesFailed - 1
              /\ UNCHANGED <<held, shut, read, signals, writeQ>>
    /\ UNCHANGED <<remoteVars, service, packets, writesOk, written, closing>>

-----------------------------------------------------------------------------
Owner == SendPacket \/ Shutdown \/ Release
Remote == RemoteSends \/ RemoteBreaks
Reactor == ReadCompletes \/ ReadFails \/ WriteSome \/ WriteFails
Handlers ==
    ReceiveHeaderHandler \/ ReceiveBodyHandler \/ SendHandler \/ SendHandlerError

\* The process is gone, or the object is.
Over == (service = "terminated" \/ ~held) /\ UNCHANGED vars

Next == Owner \/ Remote \/ Reactor \/ Handlers \/ Over

(* run() executes every queued handler, and the reactor completes what can *)
(* be completed.  Nothing makes the remote host send, close or take what   *)
(* is written to it, nor the owner act.                                    *)
Fairness ==
    /\ WF_vars(ReceiveHeaderHandler)
    /\ WF_vars(ReceiveBodyHandler)
    /\ WF_vars(SendHandlerError)
    /\ WF_vars(ReadCompletes)
    /\ WF_vars(ReadFails)
    /\ WF_vars(WriteFails)

Spec == Init /\ [][Next]_vars /\ Fairness

-----------------------------------------------------------------------------
(* Properties *)

(* A connection that no longer listens is shut down and its owner knows:   *)
(* there is no error path that stops receiving and says nothing.           *)
DeafIsKnown ==
    held /\ read.op = "none" => shut /\ disconnected > 0

(* A remote host that sends its packets, all of them proper, and closes is *)
(* heard to the end before its owner is told that it has gone, unless the  *)
(* owner itself sent something or shut the connection down.                *)
HeardOut ==
    held /\ disconnected > 0 /\ link = "eof" /\ ~cut
    /\ packets = 0 /\ ~closing
    /\ (\A i \in 1..Len(said) : said[i] # <<>>)
        => Len(received) = Len(said)

(* Once the connection broke or was shut down the owner is told, unless it *)
(* lets go of the connection or the server ends.                           *)
LossIsReported ==
    held /\ (link # "up" \/ shut)
        ~> disconnected > 0 \/ ~held \/ service = "terminated"

(* A packet passed to sendPacket is taken by the kernel, or will be tried, *)
(* or the owner was or will be told that the connection is lost: no packet *)
(* is dropped without a word.                                              *)
PacketsAccounted ==
    held => \A n \in 1..packets :
        \/ n \in written
        \/ \E i \in 1..Len(writeQ) : writeQ[i].packet = n
        \/ writesFailed > 0 \/ disconnected > 0

(* The header buffer is read and handed over as a whole.                   *)
Whole(r) ==
    /\ r.op = "header" => r.wanted = header_length
    /\ r.op = "header_done" => Len(r.data) = header_length

(* The inductive invariant behind the safety properties of one state.      *)
ClientInv == TypeOK /\ Whole(read) /\ DeafIsKnown /\ PacketsAccounted
=============================================================================
