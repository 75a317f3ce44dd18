-------------------------- MODULE ClientConnection --------------------------
(***************************************************************************)
(* ConnectedClient seen as a Connection: what the owner hears is what the  *)
(* bodies it is given mean to it, and what the remote host can send is     *)
(* made of whole packets.                                                  *)
(***************************************************************************)
EXTENDS ConnectedClient

\* What a body says to an owner that constructs a NearUserMessage from it.
Understood(body, order) ==
    IF NearError(body) = "none" THEN <<NearDecoded(body, order)>> ELSE <<>>

AbstractConnection ==
    INSTANCE Connection WITH
        Utterances <- Utterances,
        said       <- said,
        heard      <- [i \in 1..Len(received) |->
                          Understood(received[i], orders.local)],
        told       <- disconnected > 0,
        released   <- ~held

(* A ConnectedClient implements the abstract connection: what its owner is *)
(* given decodes to the messages the remote host sent, in order and field  *)
(* by field although the two hosts may differ in byte order, and after the *)
(* last shared_ptr is gone no callback is invoked.                         *)
ImplementsConnection == AbstractConnection!Spec

-----------------------------------------------------------------------------
(* The packets a remote host can send *)

\* A packet that starts with the header h is not read beyond it.
RefusedHeader(h, order) ==
    LET d == decodeHeader(h, order)
    IN  ~d.valid \/ Oversized(d.packetsize) \/ d.packetsize < header_length

\* The header h announces n bytes and no more than are allowed.
AnnouncedBy(h, n, order) ==
    decodeHeader(h, order) = [valid |-> TRUE, packetsize |-> n] /\ ~Oversized(n)

\* The packet says u to its receiver: it carries one body, which means u, or
\* it is refused and says nothing.
Says(packet, u, order) ==
    \E header, body \in Seq(Byte) :
        /\ packet = header \o body
        /\ Len(header) = header_length
        /\ \/ RefusedHeader(header, order) /\ u = <<>>
           \/ /\ AnnouncedBy(header, header_length + Len(body), order)
              /\ Understood(body, order) = u

\* Every message can be announced: the layers refuse none, but a receiver
\* refuses what is longer.
MessagesFit ==
    \A m \in Messages :
        ~Oversized(header_length + near_header_length + Len(m.text))

\* Every other packet has a whole header; if the header is accepted, what it
\* announces follows and is no message.
OthersAreRefused ==
    \A f \in BadFrames, order \in Orders :
        LET header == SubSeq(f, 1, header_length)
            body   == SubSeq(f, header_length + 1, Len(f))
        IN  /\ Len(f) >= header_length
            /\ \/ RefusedHeader(header, order)
               \/ /\ AnnouncedBy(header, Len(f), order)
                  /\ NearError(body) # "none"

-----------------------------------------------------------------------------
(* The inductive invariant behind the refinement *)

\* What the packets said, from each of them on, have put on the stream.
Outstanding(rest, s, order) ==
    /\ rest \in [1..(Len(s) + 1) -> Seq(Byte)]
    /\ rest[Len(s) + 1] = <<>>
    /\ \A i \in 1..Len(s) : \E packet \in Seq(Byte) :
          Says(packet, s[i], order) /\ rest[i] = packet \o rest[i + 1]

\* The receive r is at its place in packet k, and the bytes ahead of it are
\* the rest of that packet and the packets after it.
InStep(r, k, ahead, rest, s, order) ==
    /\ r.op = "header" => ahead = rest[k]
    /\ r.op = "header_done" => r.data \o ahead = rest[k]
    /\ r.op = "body" =>
          /\ k <= Len(s)
          /\ \E body \in Seq(Byte) :
                /\ ahead = body \o rest[k + 1]
                /\ Len(body) = r.wanted
                /\ Understood(body, order) = s[k]
    /\ r.op = "body_done" =>
          /\ k <= Len(s)
          /\ ahead = rest[k + 1]
          /\ Understood(r.data, order) = s[k]

\* What was received are the first things said, with their meaning.
HeardRight ==
    /\ Len(received) <= Len(said)
    /\ \A i \in 1..Len(received) :
          Understood(received[i], orders.local) = said[i]

\* The stream, with the bytes lost when the remote host died, is what is
\* left of the packets said; the receive never loses its place in it.
StreamInStep ==
    \E rest \in [1..(Len(said) + 1) -> Seq(Byte)], lost \in Seq(Byte) :
        /\ Outstanding(rest, said, orders.local)
        /\ ~cut => lost = <<>>
        /\ InStep(read, Len(received) + 1, stream \o lost, rest, said,
                  orders.local)

(* What the owner has heard, is hearing and has yet to hear is what the    *)
(* remote host said.                                                       *)
HearingInv == HeardRight /\ StreamInStep /\ (cut => link = "eof")

-----------------------------------------------------------------------------
(* The inductive invariant behind HeardOut *)

\* Neither host has done anything that could cost a packet.
Undisturbed ==
    /\ packets = 0 /\ ~closing
    /\ ~cut /\ link # "reset"
    /\ \A i \in 1..Len(said) : said[i] # <<>>

AllHeard == link = "eof" /\ Len(received) = Len(said)

\* Where nothing was sent no write can fail.
NothingToFail == packets = 0 => writeQ = <<>> /\ writesFailed = 0

(* An undisturbed connection ends, and meets an error, after the last      *)
(* packet only.                                                            *)
EndsHeard ==
    held /\ Undisturbed =>
        (shut \/ disconnected > 0 \/ read.op \in {"header_error", "body_error"}
            => AllHeard)

HeardInv == NothingToFail /\ EndsHeard
=============================================================================
