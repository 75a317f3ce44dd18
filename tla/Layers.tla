-------------------------------- MODULE Layers --------------------------------
(***************************************************************************)
(* The message layers and the byte order of the network, as operators:     *)
(* bytes.hpp, SegmentationLayer, StringwrapLayer and NearUserMessage.      *)
(*                                                                         *)
(* An unsigned integer of w bytes is the sequence of its bytes, the least  *)
(* significant one first, so that every width is exact.  How it lies in    *)
(* memory depends on the byte order of the host; the network's order is    *)
(* little endian.                                                          *)
(***************************************************************************)
EXTENDS Integers, Sequences, SequencesExt

Byte == 0..255
Orders == {"little", "big"}
Word(w) == [1..w -> Byte]

\* static_cast<uint2b_t>(n), and the number that such a word stands for.
uint2b(n) == <<n % 256, (n \div 256) % 256>>
Number(x) == x[1] + 256 * x[2]

-----------------------------------------------------------------------------
(* bytes.hpp *)

\* x << 8n and x >> 8n, x & (0xff in byte i), and | of words without a
\* byte in common.
ShiftLeft(x, n) == [i \in 1..Len(x) |-> IF i > n THEN x[i - n] ELSE 0]
ShiftRight(x, n) == [i \in 1..Len(x) |-> IF i + n <= Len(x) THEN x[i + n] ELSE 0]
ByteOf(x, i) == [j \in 1..Len(x) |-> IF j = i THEN x[j] ELSE 0]
Either(x, y) == [i \in 1..Len(x) |-> x[i] + y[i]]

\* The specialisations for two and four bytes work on values, the general
\* template reverses the memory.
reversebytes2(x) == Either(ShiftLeft(x, 1), ShiftRight(x, 1))
reversebytes4(x) ==
    Either(Either(ShiftLeft(x, 3), ByteOf(ShiftLeft(x, 1), 3)),
           Either(ByteOf(ShiftRight(x, 1), 2), ShiftRight(x, 3)))
reversebytes(x) ==
    IF Len(x) = 2 THEN reversebytes2(x)
    ELSE IF Len(x) = 4 THEN reversebytes4(x)
    ELSE Reverse(x)

\* to_netbo and to_hostbo of a host with the given byte order.
to_netbo(x, order) == IF order = "big" THEN reversebytes(x) ELSE x

\* The bytes of a variable in memory (writebytes), and back (readbytes).
InMemory(x, order) == IF order = "big" THEN Reverse(x) ELSE x

PutWord(x, order) == InMemory(to_netbo(x, order), order)
GetWord(bytes, order) == to_netbo(InMemory(bytes, order), order)

-----------------------------------------------------------------------------
(* SegmentationLayer *)

SEGMENTATION_ID == 128
header_length == 4
MAX_PACKETSIZE == 36863 \* 0x8FFF

\* The header of a packet of n bytes; the size field has two bytes only.
SegmentationHeader(n, order) ==
    <<SEGMENTATION_ID>> \o PutWord(uint2b(n), order) \o <<0>>

Segmented(body, order) ==
    SegmentationHeader(Len(body) + header_length, order) \o body

\* decodeHeader; not valid: InvalidHeaderError.
decodeHeader(h, order) ==
    [valid      |-> h[1] = SEGMENTATION_ID /\ h[4] = 0,
     packetsize |-> Number(GetWord(<<h[2], h[3]>>, order))]

-----------------------------------------------------------------------------
(* StringwrapLayer: the characters one by one, each of one byte *)

StringSerialized(text, order) ==
    [i \in 1..Len(text) |-> PutWord(<<text[i]>>, order)[1]]
StringDecoded(d, order) == [i \in 1..Len(d) |-> GetWord(<<d[i]>>, order)[1]]

-----------------------------------------------------------------------------
(* NearUserMessage, with the UniqueUserIDs and the StringwrapLayer in it *)

NEAR_ID == 65
near_header_length == 21

NearUserMessage ==
    [msg_id : Word(4), recipient : Word(8), sender : Word(8), text : Seq(Byte)]

NearSerialized(m, order) ==
    <<NEAR_ID>> \o PutWord(m.msg_id, order)
        \o PutWord(m.recipient, order) \o PutWord(m.sender, order)
        \o StringSerialized(m.text, order)

\* What the constructor from a SerializedData throws.
NearError(d) ==
    IF Len(d) < near_header_length THEN "UndersizedPacketError"
    ELSE IF d[1] # NEAR_ID THEN "InvalidHeaderError"
    ELSE "none"

\* The message it constructs otherwise.
NearDecoded(d, order) ==
    [msg_id    |-> GetWord(SubSeq(d, 2, 5), order),
     recipient |-> GetWord(SubSeq(d, 6, 13), order),
     sender    |-> GetWord(SubSeq(d, 14, 21), order),
     text      |-> StringDecoded(SubSeq(d, 22, Len(d)), order)]

=============================================================================
