--------------------------- MODULE ConnectionProofs ---------------------------
(***************************************************************************)
(* Theorems about what the owner of a ConnectedClient hears: a remote host *)
(* that says all and closes is heard to the end, and ConnectedClient       *)
(* implements Connection.                                                  *)
(***************************************************************************)
EXTENDS ClientConnection, ConnectedClientProofs

-----------------------------------------------------------------------------
(* Sequences of bytes *)

\* The length of a concatenation.
LEMMA ConcatBytes ==
    ASSUME NEW s \in Seq(Byte), NEW t \in Seq(Byte)
    PROVE  s \o t \in Seq(Byte) /\ Len(s \o t) = Len(s) + Len(t)
BY ConcatProperties

LEMMA JoinBytes ==
    ASSUME NEW s \in Seq(Byte), NEW t \in Seq(Byte), NEW u \in Seq(Byte)
    PROVE  (s \o t) \o u = s \o (t \o u)
BY ConcatAssociative

\* Two splits of the same bytes at the same place are the same.
LEMMA SameSplit ==
    ASSUME NEW a \in Seq(Byte), NEW b \in Seq(Byte),
           NEW c \in Seq(Byte), NEW d \in Seq(Byte),
           a \o b = c \o d, Len(a) = Len(c)
    PROVE  a = c /\ b = d
<1>1. Len(a) \in Nat /\ Len(b) \in Nat /\ Len(c) \in Nat /\ Len(d) \in Nat
    BY LenProperties
<1>2. /\ Len(a \o b) = Len(a) + Len(b)
      /\ \A i \in 1..(Len(a) + Len(b)) :
            (a \o b)[i] = IF i <= Len(a) THEN a[i] ELSE b[i - Len(a)]
    BY ConcatProperties
<1>3. /\ Len(c \o d) = Len(c) + Len(d)
      /\ \A i \in 1..(Len(c) + Len(d)) :
            (c \o d)[i] = IF i <= Len(c) THEN c[i] ELSE d[i - Len(c)]
    BY ConcatProperties
<1>4. Len(b) = Len(d)
    BY <1>1, <1>2, <1>3
<1>5. ASSUME NEW i \in 1..Len(a)
      PROVE  a[i] = c[i]
    BY <1>1, <1>2, <1>3, <1>4
<1>6. ASSUME NEW i \in 1..Len(b)
      PROVE  b[i] = d[i]
  <2>1. /\ Len(a) + i \in 1..(Len(a) + Len(b))
        /\ ~(Len(a) + i <= Len(a)) /\ (Len(a) + i) - Len(a) = i
      BY <1>1
  <2>2. (a \o b)[Len(a) + i] = b[i]
      BY <1>2, <2>1
  <2>3. (c \o d)[Len(a) + i] = d[i]
      BY <1>3, <1>4, <2>1
  <2> QED  BY <2>2, <2>3
<1>7. a = c
    BY <1>5, SeqEqual
<1>8. b = d
    BY <1>4, <1>6, SeqEqual
<1> QED  BY <1>7, <1>8

\* What is taken off the front of the bytes and what is left make the bytes.
LEMMA TakenAndLeft ==
    ASSUME NEW s \in Seq(Byte), NEW n \in Nat, n <= Len(s)
    PROVE  /\ SubSeq(s, 1, n) \in Seq(Byte) /\ Len(SubSeq(s, 1, n)) = n
           /\ SubSeq(s, n + 1, Len(s)) \in Seq(Byte)
           /\ SubSeq(s, 1, n) \o SubSeq(s, n + 1, Len(s)) = s
<1>1. Len(s) \in Nat
    BY LenProperties
<1>2. SubSeq(s, 1, n) \in Seq(Byte) /\ Len(SubSeq(s, 1, n)) = n
    BY Stretch
<1>3. SubSeq(s, n + 1, Len(s)) \in Seq(Byte)
    BY <1>1, Stretch
<1>4. SubSeq(s, 1, n) \o SubSeq(s, n + 1, Len(s)) = SubSeq(s, 1, Len(s))
  <2>1. 1 \in 1..(Len(s) + 1) /\ n \in (1 - 1)..Len(s) /\ Len(s) \in n..Len(s)
      BY <1>1
  <2> QED  BY <2>1, ConcatAdjacentSubSeq
<1>5. SubSeq(s, 1, Len(s)) = s
    BY SubSeqFull
<1> QED  BY <1>2, <1>3, <1>4, <1>5

-----------------------------------------------------------------------------
(* What packets say *)

\* The length of a serialized message.
LEMMA NearLength ==
    ASSUME NEW m \in NearUserMessage, NEW order \in Orders
    PROVE  /\ NearSerialized(m, order) \in Seq(Byte)
           /\ Len(NearSerialized(m, order)) = near_header_length + Len(m.text)
<1> DEFINE id == m.msg_id
           to == m.recipient
           from == m.sender
           text == m.text
           kind == <<NEAR_ID>>
           s1 == kind \o id
           s2 == s1 \o to
           s3 == s2 \o from
           d == NearSerialized(m, order)
<1>1. id \in Word(4) /\ to \in Word(8) /\ from \in Word(8) /\ text \in Seq(Byte)
    BY DEF NearUserMessage
<1>2. /\ PutWord(id, order) = id /\ PutWord(to, order) = to
      /\ PutWord(from, order) = from
    BY <1>1, WireOrder
<1>3. /\ id \in Seq(Byte) /\ Len(id) = 4 /\ to \in Seq(Byte) /\ Len(to) = 8
      /\ from \in Seq(Byte) /\ Len(from) = 8
    BY <1>1, WordIsSeq
<1>4. d = s3 \o text
  <2>1. StringSerialized(text, order) = text
      BY <1>1, TextUnchanged
  <2> QED  BY <1>2, <2>1 DEF NearSerialized
<1>5. kind \in Seq(Byte) /\ Len(kind) = 1
    BY DEF NEAR_ID, Byte
<1> HIDE DEF d, id, to, from, text, kind, s1, s2, s3
<1>6. s1 \in Seq(Byte) /\ Len(s1) = 5
  <2>1. kind \o id \in Seq(Byte) /\ Len(kind \o id) = Len(kind) + Len(id)
      BY <1>3, <1>5, ConcatBytes
  <2> QED  BY <1>3, <1>5, <2>1 DEF s1
<1>7. s2 \in Seq(Byte) /\ Len(s2) = 13
  <2>1. s1 \o to \in Seq(Byte) /\ Len(s1 \o to) = Len(s1) + Len(to)
      BY <1>3, <1>6, ConcatBytes
  <2> QED  BY <1>3, <1>6, <2>1 DEF s2
<1>8. s3 \in Seq(Byte) /\ Len(s3) = 21
  <2>1. s2 \o from \in Seq(Byte) /\ Len(s2 \o from) = Len(s2) + Len(from)
      BY <1>3, <1>7, ConcatBytes
  <2> QED  BY <1>3, <1>7, <2>1 DEF s3
<1>9. d \in Seq(Byte) /\ Len(d) = 21 + Len(text)
  <2>1. s3 \o text \in Seq(Byte) /\ Len(s3 \o text) = Len(s3) + Len(text)
      BY <1>1, <1>8, ConcatBytes
  <2> QED  BY <1>4, <1>8, <2>1
<1> QED  BY <1>9 DEF near_header_length, text, d

\* A header is four bytes long.
LEMMA HeaderBytes ==
    ASSUME NEW n \in Nat, NEW order \in Orders
    PROVE  /\ SegmentationHeader(n, order) \in Seq(Byte)
           /\ Len(SegmentationHeader(n, order)) = header_length
<1> DEFINE word == uint2b(n)
           id == <<SEGMENTATION_ID>>
           zero == <<0>>
           s == id \o word
<1>1. word \in Word(2)
    BY uint2bNumber
<1>2. word \in Seq(Byte) /\ Len(word) = 2 /\ PutWord(word, order) = word
    BY <1>1, WordIsSeq, WireOrder
<1>3. /\ id \in Seq(Byte) /\ Len(id) = 1
      /\ zero \in Seq(Byte) /\ Len(zero) = 1
    BY DEF SEGMENTATION_ID, Byte
<1>4. SegmentationHeader(n, order) = s \o zero
    BY <1>2 DEF SegmentationHeader
<1> HIDE DEF word, id, zero, s
<1>5. s \in Seq(Byte) /\ Len(s) = 3
  <2>1. id \o word \in Seq(Byte) /\ Len(id \o word) = Len(id) + Len(word)
      BY <1>2, <1>3, ConcatBytes
  <2> QED  BY <1>2, <1>3, <2>1 DEF s
<1>6. s \o zero \in Seq(Byte) /\ Len(s \o zero) = Len(s) + Len(zero)
    BY <1>3, <1>5, ConcatBytes
<1> QED  BY <1>3, <1>4, <1>5, <1>6 DEF header_length

\* The header of a packet that is not too long announces its size.
LEMMA SizeAnnounced ==
    ASSUME NEW n \in Nat, n <= MAX_PACKETSIZE,
           NEW sender \in Orders, NEW receiver \in Orders
    PROVE  AnnouncedBy(SegmentationHeader(n, sender), n, receiver)
<1> DEFINE size == n % 65536
<1>1. size = n
    BY DEF MAX_PACKETSIZE
<1>2. decodeHeader(SegmentationHeader(n, sender), receiver)
          = [valid |-> TRUE, packetsize |-> size]
    BY HeaderUnderstood
<1> HIDE DEF size
<1>3. ~Oversized(n)
    BY DEF Oversized, MAX_PACKETSIZE
<1> QED  BY <1>1, <1>2, <1>3 DEF AnnouncedBy

\* The packet of a message that fits says the message, on a host of any
\* byte order.
LEMMA MessageSaid ==
    ASSUME MessagesFit, NEW m \in Messages,
           NEW sender \in Orders, NEW receiver \in Orders
    PROVE  /\ Segmented(NearSerialized(m, sender), sender) \in Seq(Byte)
           /\ Says(Segmented(NearSerialized(m, sender), sender), <<m>>, receiver)
<1> DEFINE body == NearSerialized(m, sender)
           n == header_length + Len(body)
           header == SegmentationHeader(n, sender)
<1>1. m \in NearUserMessage /\ Len(m.text) \in Nat
  <2>1. m \in NearUserMessage
      BY MessagesAssumption
  <2>2. m.text \in Seq(Byte)
      BY <2>1 DEF NearUserMessage
  <2> QED  BY <2>1, <2>2, LenProperties
<1>2. body \in Seq(Byte) /\ Len(body) = near_header_length + Len(m.text)
    BY <1>1, NearLength
<1>3. n \in Nat /\ n <= MAX_PACKETSIZE
  <2>1. ~Oversized(header_length + near_header_length + Len(m.text))
      BY DEF MessagesFit
  <2> QED  BY <1>1, <1>2, <2>1
           DEF Oversized, header_length, near_header_length, MAX_PACKETSIZE
<1>4. header \in Seq(Byte) /\ Len(header) = header_length
    BY <1>3, HeaderBytes
<1>5. AnnouncedBy(header, n, receiver)
  <2> HIDE DEF n
  <2> QED  BY <1>3, SizeAnnounced
<1>7. Understood(body, receiver) = <<m>>
  <2>1. NearError(body) = "none" /\ NearDecoded(body, receiver) = m
      BY <1>1, NearUnderstood
  <2> QED  BY <2>1 DEF Understood
<1>8. Segmented(body, sender) = header \o body
  <2>1. Len(body) + header_length = n
      BY <1>1, <1>2 DEF header_length, near_header_length
  <2> QED  BY <2>1 DEF Segmented
<1>9. header \o body \in Seq(Byte)
    BY <1>2, <1>4, ConcatProperties
<1> HIDE DEF body, header
<1>10. Says(header \o body, <<m>>, receiver)
    BY <1>2, <1>4, <1>5, <1>7 DEF Says, n
<1> QED  BY <1>8, <1>9, <1>10 DEF body

\* The other packets say nothing.
LEMMA OtherSaid ==
    ASSUME OthersAreRefused, NEW f \in BadFrames, NEW order \in Orders
    PROVE  f \in Seq(Byte) /\ Says(f, <<>>, order)
<1> DEFINE header == SubSeq(f, 1, header_length)
           body == SubSeq(f, header_length + 1, Len(f))
<1>1. f \in Seq(Byte) /\ Len(f) \in Nat
    BY BadFramesAssumption, LenProperties
<1>2. /\ header_length <= Len(f)
      /\ \/ RefusedHeader(header, order)
         \/ AnnouncedBy(header, Len(f), order) /\ NearError(body) # "none"
    BY DEF OthersAreRefused
<1>3. header_length \in Nat
    BY DEF header_length
<1>4. /\ header \in Seq(Byte) /\ Len(header) = header_length
      /\ body \in Seq(Byte) /\ header \o body = f
    BY <1>1, <1>2, <1>3, TakenAndLeft
<1> HIDE DEF header, body
<1>5. Len(f) = header_length + Len(body)
    BY <1>4, ConcatProperties
<1>6. NearError(body) # "none" => Understood(body, order) = <<>>
    BY DEF Understood
<1> QED  BY <1>1, <1>2, <1>4, <1>5, <1>6 DEF Says

-----------------------------------------------------------------------------
(* The place of the receive in the packets *)

\* The packets outstanding are sequences of bytes.
LEMMA RestTypes ==
    ASSUME NEW s, Len(s) \in Nat, NEW rest, NEW order,
           Outstanding(rest, s, order)
    PROVE  /\ \A i \in 1..(Len(s) + 1) : rest[i] \in Seq(Byte)
           /\ rest[Len(s) + 1] = <<>>
           /\ \A i \in 1..Len(s) : i + 1 \in 1..(Len(s) + 1)
<1>1. rest \in [1..(Len(s) + 1) -> Seq(Byte)] /\ rest[Len(s) + 1] = <<>>
    BY DEF Outstanding
<1>2. \A i \in 1..Len(s) : i + 1 \in 1..(Len(s) + 1)
    OBVIOUS
<1> QED  BY <1>1, <1>2

\* The bytes are a packet that says u, and the bytes after it.
Begins(bytes, after, u, order) ==
    \E header, body \in Seq(Byte) :
        /\ bytes = header \o (body \o after)
        /\ Len(header) = header_length
        /\ \/ RefusedHeader(header, order) /\ u = <<>>
           \/ /\ AnnouncedBy(header, header_length + Len(body), order)
              /\ Understood(body, order) = u

\* The first outstanding packet.
LEMMA FirstPacket ==
    ASSUME NEW s, Len(s) \in Nat, NEW rest, NEW order,
           Outstanding(rest, s, order), NEW k \in 1..Len(s)
    PROVE  Begins(rest[k], rest[k + 1], s[k], order)
<1>1. PICK packet \in Seq(Byte) :
         Says(packet, s[k], order) /\ rest[k] = packet \o rest[k + 1]
    BY DEF Outstanding
<1>2. PICK header, body \in Seq(Byte) :
         /\ packet = header \o body
         /\ Len(header) = header_length
         /\ \/ RefusedHeader(header, order) /\ s[k] = <<>>
            \/ /\ AnnouncedBy(header, header_length + Len(body), order)
               /\ Understood(body, order) = s[k]
    BY <1>1 DEF Says
<1>3. rest[k + 1] \in Seq(Byte)
    BY RestTypes
<1> DEFINE after == rest[k + 1]
<1> HIDE DEF after
<1>4. (header \o body) \o after = header \o (body \o after)
    BY <1>3, JoinBytes, ZenonT(40) DEF after
<1> QED  BY <1>1, <1>2, <1>4 DEF after, Begins

\* A packet is sent.
LEMMA OutstandingSent ==
    ASSUME NEW S, NEW s \in Seq(S), NEW rest, NEW order,
           Outstanding(rest, s, order),
           NEW f \in Seq(Byte), NEW u \in S, Says(f, u, order)
    PROVE  Outstanding([i \in 1..(Len(s) + 2) |->
                           IF i <= Len(s) + 1 THEN rest[i] \o f ELSE <<>>],
                       Append(s, u), order)
<1> DEFINE n == Len(s)
           more == [i \in 1..(n + 2) |->
                       IF i <= n + 1 THEN rest[i] \o f ELSE <<>>]
           t == Append(s, u)
<1>1. n \in Nat
    BY LenProperties
<1>2. /\ \A i \in 1..(n + 1) : rest[i] \in Seq(Byte)
      /\ rest[n + 1] = <<>>
    BY <1>1, RestTypes
<1>3. \A i \in 1..(n + 1) : rest[i] \o f \in Seq(Byte)
    BY <1>2, ConcatBytes
<1>4. <<>> \in Seq(Byte)
    BY EmptySeq
<1>5. /\ Len(t) = n + 1 /\ t[n + 1] = u
      /\ \A i \in 1..n : t[i] = s[i]
    BY AppendProperties
<1>6. more \in [1..(n + 2) -> Seq(Byte)]
    BY <1>1, <1>3, <1>4
<1>7. more[n + 2] = <<>>
    BY <1>1
<1>8. ASSUME NEW i \in 1..n
      PROVE  \E packet \in Seq(Byte) :
                Says(packet, t[i], order) /\ more[i] = packet \o more[i + 1]
  <2>1. PICK packet \in Seq(Byte) :
           Says(packet, s[i], order) /\ rest[i] = packet \o rest[i + 1]
      BY DEF Outstanding
  <2>2. i \in 1..(n + 2) /\ i <= n + 1 /\ i + 1 \in 1..(n + 2) /\ i + 1 <= n + 1
        /\ i + 1 \in 1..(n + 1)
      BY <1>1
  <2>3. more[i] = rest[i] \o f /\ more[i + 1] = rest[i + 1] \o f
      BY <2>2
  <2>4. (packet \o rest[i + 1]) \o f = packet \o (rest[i + 1] \o f)
    <3>1. rest[i + 1] \in Seq(Byte)
        BY <1>2, <2>2
    <3> QED  BY <3>1, JoinBytes
  <2> HIDE DEF more, t
  <2> QED  BY <1>5, <2>1, <2>3, <2>4
<1>9. \E packet \in Seq(Byte) :
         /\ Says(packet, t[n + 1], order)
         /\ more[n + 1] = packet \o more[(n + 1) + 1]
  <2>1. n + 1 \in 1..(n + 2) /\ (n + 1) + 1 = n + 2
      BY <1>1
  <2>2. more[n + 1] = <<>> \o f
      BY <1>2, <2>1, SMTT(20)
  <2>3. <<>> \o f = f /\ f \o <<>> = f
      BY ConcatEmptySeq
  <2> HIDE DEF more, t
  <2> QED  BY <1>5, <1>7, <2>1, <2>2, <2>3
<1> HIDE DEF more, t, n
<1>10. \A i \in 1..(n + 1) : \E packet \in Seq(Byte) :
          Says(packet, t[i], order) /\ more[i] = packet \o more[i + 1]
  <2>1. \A i \in 1..(n + 1) : i \in 1..n \/ i = n + 1
      BY <1>1
  <2> QED  BY <1>8, <1>9, <2>1
<1>11. (n + 1) + 1 = n + 2
    BY <1>1
<1>12. Outstanding(more, t, order)
    BY <1>5, <1>6, <1>7, <1>10, <1>11 DEF Outstanding
<1> QED  BY <1>12 DEF more, t, n

\* The receive keeps its place when a packet is sent.
LEMMA InStepSent ==
    ASSUME NEW S, NEW s \in Seq(S), NEW rest, NEW order,
           Outstanding(rest, s, order),
           NEW f \in Seq(Byte), NEW u \in S,
           NEW r \in ReadOp, NEW k \in 1..(Len(s) + 1), NEW ahead \in Seq(Byte),
           InStep(r, k, ahead, rest, s, order)
    PROVE  InStep(r, k, ahead \o f,
                  [i \in 1..(Len(s) + 2) |->
                      IF i <= Len(s) + 1 THEN rest[i] \o f ELSE <<>>],
                  Append(s, u), order)
<1> DEFINE n == Len(s)
           more == [i \in 1..(n + 2) |->
                       IF i <= n + 1 THEN rest[i] \o f ELSE <<>>]
           t == Append(s, u)
<1> SUFFICES InStep(r, k, ahead \o f, more, t, order)
    OBVIOUS
<1>1. n \in Nat
    BY LenProperties
<1>2. \A i \in 1..(n + 1) : rest[i] \in Seq(Byte)
    BY <1>1, RestTypes
<1>3. /\ Len(t) = n + 1
      /\ \A i \in 1..n : t[i] = s[i]
    BY AppendProperties
<1>4. \A i \in 1..(n + 1) : more[i] = rest[i] \o f
    BY <1>1
<1>5. k \in Nat /\ k <= n + 1 /\ (k <= n => k \in 1..n /\ k + 1 \in 1..(n + 1))
    BY <1>1
<1>6. r.data \in Seq(Byte)
    BY DEF ReadOp
<1>7. k \in 1..(n + 1)
    OBVIOUS
<1> HIDE DEF more, t, n
<1>8. more[k] = rest[k] \o f
    BY <1>4, <1>7
<1>9. CASE r.op = "header"
  <2>1. ahead = rest[k]
      BY <1>9 DEF InStep
  <2>2. r.op # "header_done" /\ r.op # "body" /\ r.op # "body_done"
      BY <1>9
  <2> QED  BY <1>8, <2>1, <2>2, Zenon DEF InStep
<1>10. CASE r.op = "header_done"
  <2>1. r.data \o ahead = rest[k]
      BY <1>10 DEF InStep
  <2>2. (r.data \o ahead) \o f = r.data \o (ahead \o f)
      BY <1>6, JoinBytes
  <2>3. r.op # "header" /\ r.op # "body" /\ r.op # "body_done"
      BY <1>10
  <2> QED  BY <1>8, <2>1, <2>2, <2>3, Zenon DEF InStep
<1>11. CASE r.op = "body"
  <2>1. k <= n
      BY <1>11 DEF InStep, n
  <2>2. PICK body \in Seq(Byte) :
           /\ ahead = body \o rest[k + 1]
           /\ Len(body) = r.wanted
           /\ Understood(body, order) = s[k]
      BY <1>11 DEF InStep
  <2>3. (body \o rest[k + 1]) \o f = body \o (rest[k + 1] \o f)
    <3>1. rest[k + 1] \in Seq(Byte)
        BY <1>2, <1>5, <2>1
    <3> QED  BY <3>1, JoinBytes
  <2>4. more[k + 1] = rest[k + 1] \o f /\ t[k] = s[k] /\ k <= Len(t)
      BY <1>1, <1>3, <1>4, <1>5, <2>1
  <2>5. ahead \o f = body \o more[k + 1]
      BY <2>2, <2>3, <2>4
  <2>6. \E b \in Seq(Byte) :
           /\ ahead \o f = b \o more[k + 1]
           /\ Len(b) = r.wanted
           /\ Understood(b, order) = t[k]
      BY <2>2, <2>4, <2>5
  <2>7. r.op # "header" /\ r.op # "header_done" /\ r.op # "body_done"
      BY <1>11
  <2> QED  BY <2>4, <2>6, <2>7, Zenon DEF InStep
<1>12. CASE r.op = "body_done"
  <2>1. k <= n /\ ahead = rest[k + 1] /\ Understood(r.data, order) = s[k]
      BY <1>12 DEF InStep, n
  <2>2. more[k + 1] = rest[k + 1] \o f /\ t[k] = s[k] /\ k <= Len(t)
      BY <1>1, <1>3, <1>4, <1>5, <2>1
  <2> QED  BY <1>12, <2>1, <2>2 DEF InStep
<1>13. CASE r.op # "header" /\ r.op # "header_done"
             /\ r.op # "body" /\ r.op # "body_done"
    BY <1>13 DEF InStep
<1> QED  BY <1>9, <1>10, <1>11, <1>12, <1>13, Zenon

\* A receive that gets all its bytes stays in step with what is left.
LEMMA InStepRead ==
    ASSUME NEW s, Len(s) \in Nat, NEW rest, NEW order,
           Outstanding(rest, s, order),
           NEW r \in ReadOp, r.op \in {"header", "body"},
           NEW k \in 1..(Len(s) + 1),
           NEW data \in Seq(Byte), NEW left \in Seq(Byte),
           Len(data) = r.wanted,
           InStep(r, k, data \o left, rest, s, order),
           NEW done,
           done = [op     |-> IF r.op = "header" THEN "header_done"
                                                 ELSE "body_done",
                   wanted |-> 0,
                   data   |-> data]
    PROVE  InStep(done, k, left, rest, s, order)
<1>1. done.data = data
    OBVIOUS
<1>2. CASE r.op = "header"
  <2>1. data \o left = rest[k]
      BY <1>2 DEF InStep
  <2>2. done.op = "header_done"
      BY <1>2
  <2>3. done.op # "header" /\ done.op # "body" /\ done.op # "body_done"
      BY <2>2
  <2> QED  BY <1>1, <2>1, <2>2, <2>3, Zenon DEF InStep
<1>3. CASE r.op = "body"
  <2>1. /\ k <= Len(s)
        /\ \E body \in Seq(Byte) :
              /\ data \o left = body \o rest[k + 1]
              /\ Len(body) = r.wanted
              /\ Understood(body, order) = s[k]
      BY <1>3 DEF InStep
  <2>2. PICK body \in Seq(Byte) :
           /\ data \o left = body \o rest[k + 1]
           /\ Len(body) = r.wanted
           /\ Understood(body, order) = s[k]
      BY <2>1
  <2>3. rest[k + 1] \in Seq(Byte)
    <3>1. k \in 1..Len(s)
        BY <2>1
    <3> QED  BY <3>1, RestTypes
  <2>4. data = body /\ left = rest[k + 1]
    <3> DEFINE after == rest[k + 1]
    <3>1. after \in Seq(Byte) /\ data \o left = body \o after
        BY <2>2, <2>3
    <3> HIDE DEF after
    <3>2. data = body /\ left = after
        BY <2>2, <3>1, SameSplit
    <3> QED  BY <3>2 DEF after
  <2>5. done.op = "body_done"
      BY <1>3
  <2>6. done.op # "header" /\ done.op # "body" /\ done.op # "header_done"
      BY <2>5
  <2>7. Understood(done.data, order) = s[k]
      BY <1>1, <2>2, <2>4
  <2> QED  BY <2>1, <2>4, <2>6, <2>7, Zenon DEF InStep
<1> QED  BY <1>2, <1>3

\* A packet that says u begins with the header; what is ahead goes with it.
Heads(header, ahead, after, u, order) ==
    \/ RefusedHeader(header, order) /\ u = <<>>
    \/ \E body \in Seq(Byte) :
          /\ AnnouncedBy(header, header_length + Len(body), order)
          /\ ahead = body \o after
          /\ Understood(body, order) = u

\* A header that was received is the header of packet k.  If the packet is
\* accepted, the receive of its body is in step.
LEMMA InStepHeader ==
    ASSUME NEW s, Len(s) \in Nat, NEW rest, NEW order,
           Outstanding(rest, s, order),
           NEW r \in ReadOp, r.op = "header_done",
           Len(r.data) = header_length,
           NEW k \in 1..(Len(s) + 1), NEW ahead \in Seq(Byte),
           InStep(r, k, ahead, rest, s, order)
    PROVE  /\ k \in 1..Len(s)
           /\ Heads(r.data, ahead, rest[k + 1], s[k], order)
<1>1. r.data \in Seq(Byte) /\ r.data \o ahead = rest[k]
    BY DEF ReadOp, InStep
<1>2. Len(rest[k]) >= header_length
  <2>1. Len(r.data \o ahead) = Len(r.data) + Len(ahead) /\ Len(ahead) \in Nat
      BY <1>1, ConcatBytes, LenProperties
  <2> QED  BY <1>1, <2>1 DEF header_length
<1>3. k \in 1..Len(s)
  <2>1. ASSUME k = Len(s) + 1
        PROVE  FALSE
    <3>1. rest[k] = <<>>
        BY <2>1, RestTypes
    <3>2. Len(rest[k]) = 0
        BY <3>1
    <3> QED  BY <1>2, <3>2 DEF header_length
  <2> QED  BY <2>1
<1>4. PICK header, body \in Seq(Byte) :
         /\ rest[k] = header \o (body \o rest[k + 1])
         /\ Len(header) = header_length
         /\ \/ RefusedHeader(header, order) /\ s[k] = <<>>
            \/ /\ AnnouncedBy(header, header_length + Len(body), order)
               /\ Understood(body, order) = s[k]
  <2>1. Begins(rest[k], rest[k + 1], s[k], order)
      BY <1>3, FirstPacket
  <2> QED  BY <2>1 DEF Begins
<1> DEFINE after == body \o rest[k + 1]
<1>5. after \in Seq(Byte)
  <2>1. rest[k + 1] \in Seq(Byte)
      BY <1>3, RestTypes
  <2> QED  BY <2>1, ConcatBytes
<1>6. r.data \o ahead = header \o after
    BY <1>1, <1>4
<1> HIDE DEF after
<1>7. r.data = header /\ ahead = after
    BY <1>1, <1>4, <1>5, <1>6, SameSplit
<1> QED  BY <1>3, <1>4, <1>7 DEF after, Heads

\* After a body comes the header of the next packet.
LEMMA InStepBody ==
    ASSUME NEW s, NEW rest, NEW order, NEW r, NEW k, NEW ahead,
           r.op = "body_done",
           InStep(r, k, ahead, rest, s, order)
    PROVE  /\ k <= Len(s)
           /\ Understood(r.data, order) = s[k]
           /\ InStep(HeaderRead, k + 1, ahead, rest, s, order)
<1>1. k <= Len(s) /\ ahead = rest[k + 1] /\ Understood(r.data, order) = s[k]
    BY DEF InStep
<1>2. HeaderRead.op = "header"
    BY DEF HeaderRead
<1>3. /\ HeaderRead.op # "header_done" /\ HeaderRead.op # "body"
      /\ HeaderRead.op # "body_done"
    BY <1>2
<1> QED  BY <1>1, <1>3, Zenon DEF InStep

\* A receive that lacks bytes is for a header, and all packets were read.
LEMMA Starved ==
    ASSUME NEW s, Len(s) \in Nat, NEW rest, NEW order,
           Outstanding(rest, s, order),
           NEW r \in ReadOp, Whole(r), r.op \in {"header", "body"},
           NEW k \in 1..(Len(s) + 1), NEW ahead \in Seq(Byte),
           ~(Len(ahead) >= r.wanted),
           InStep(r, k, ahead, rest, s, order)
    PROVE  k = Len(s) + 1
<1>1. Len(ahead) \in Nat /\ r.wanted \in Nat
    BY LenProperties DEF ReadOp
<1> SUFFICES ASSUME k \in 1..Len(s) PROVE FALSE
    OBVIOUS
<1>2. rest[k + 1] \in Seq(Byte)
    BY RestTypes
<1> DEFINE after == rest[k + 1]
<1> HIDE DEF after
<1>3. CASE r.op = "header"
  <2>1. r.wanted = header_length /\ ahead = rest[k]
      BY <1>3 DEF Whole, InStep
  <2>2. PICK header, body \in Seq(Byte) :
           /\ rest[k] = header \o (body \o rest[k + 1])
           /\ Len(header) = header_length
           /\ \/ RefusedHeader(header, order) /\ s[k] = <<>>
              \/ /\ AnnouncedBy(header, header_length + Len(body), order)
                 /\ Understood(body, order) = s[k]
    <3>1. Begins(rest[k], rest[k + 1], s[k], order)
        BY FirstPacket
    <3> QED  BY <3>1 DEF Begins
  <2>3. body \o after \in Seq(Byte)
      BY <1>2, ConcatBytes DEF after
  <2>4. Len(header \o (body \o after)) = Len(header) + Len(body \o after)
      BY <2>3, ConcatBytes
  <2>5. Len(body \o after) \in Nat
      BY <2>3, LenProperties
  <2>6. rest[k] = header \o (body \o after)
      BY <2>2 DEF after
  <2> QED  BY <1>1, <2>1, <2>2, <2>4, <2>5, <2>6
<1>4. CASE r.op = "body"
  <2>1. PICK body \in Seq(Byte) : ahead = body \o after /\ Len(body) = r.wanted
      BY <1>4 DEF InStep, after
  <2>2. Len(body \o after) = Len(body) + Len(after)
      BY <1>2, ConcatBytes DEF after
  <2>3. Len(after) \in Nat
      BY <1>2, LenProperties DEF after
  <2> QED  BY <1>1, <2>1, <2>2, <2>3
<1> QED  BY <1>3, <1>4

-----------------------------------------------------------------------------
(* The receive stays in step *)

\* How StreamInStep is established after a step.
LEMMA StreamIntro ==
    ASSUME NEW rest \in [1..(Len(said') + 1) -> Seq(Byte)],
           NEW lost \in Seq(Byte),
           Outstanding(rest, said', orders'.local),
           ~cut' => lost = <<>>,
           InStep(read', Len(received') + 1, stream' \o lost, rest, said',
                  orders'.local)
    PROVE  StreamInStep'
BY Zenon DEF StreamInStep

\* What the types and HeardRight say of the numbers of packets.
LEMMA Places ==
    ASSUME ClientInv, HearingInv
    PROVE  /\ said \in Seq(Utterances) /\ Len(said) \in Nat
           /\ received \in Seq(Seq(Byte)) /\ Len(received) \in Nat
           /\ Len(received) + 1 \in 1..(Len(said) + 1)
           /\ stream \in Seq(Byte) /\ Len(stream) \in Nat
           /\ read \in ReadOp /\ Whole(read)
           /\ orders.local \in Orders /\ orders.remote \in Orders
<1>1. /\ said \in Seq(Utterances) /\ received \in Seq(Seq(Byte))
      /\ stream \in Seq(Byte) /\ read \in ReadOp /\ Whole(read)
      /\ orders \in [{"remote", "local"} -> Orders]
    BY DEF ClientInv, TypeOK
<1>2. Len(said) \in Nat /\ Len(received) \in Nat /\ Len(stream) \in Nat
    BY <1>1, LenProperties
<1>3. Len(received) <= Len(said)
    BY DEF HearingInv, HeardRight
<1>4. Len(received) + 1 \in 1..(Len(said) + 1)
    BY <1>2, <1>3
<1> QED  BY <1>1, <1>2, <1>4

LEMMA InitHearing == Init => HearingInv
<1> SUFFICES ASSUME Init PROVE HearingInv
    OBVIOUS
<1>1. /\ said = <<>> /\ received = <<>> /\ stream = <<>> /\ read = HeaderRead
      /\ cut = FALSE
    BY DEF Init
<1>2. HeardRight
  <2>1. Len(received) = 0 /\ Len(said) = 0
      BY <1>1
  <2> QED  BY <2>1 DEF HeardRight
<1> DEFINE rest == [i \in 1..1 |-> <<>>]
<1>3. <<>> \in Seq(Byte) /\ <<>> \o <<>> = <<>>
    BY EmptySeq, ConcatEmptySeq
<1>4. rest \in [1..1 -> Seq(Byte)] /\ rest[1] = <<>>
    BY <1>3
<1> HIDE DEF rest
<1>5. Len(said) = 0 /\ Len(received) = 0 /\ Len(said) + 1 = 1
      /\ Len(received) + 1 = 1
    BY <1>1
<1>6. Outstanding(rest, said, orders.local)
    BY <1>4, <1>5 DEF Outstanding
<1>7. InStep(read, Len(received) + 1, stream \o <<>>, rest, said, orders.local)
  <2>1. read.op = "header"
      BY <1>1 DEF HeaderRead
  <2>2. read.op # "header_done" /\ read.op # "body" /\ read.op # "body_done"
      BY <2>1
  <2>3. stream \o <<>> = rest[Len(received) + 1]
      BY <1>1, <1>3, <1>4, <1>5
  <2> QED  BY <2>2, <2>3, Zenon DEF InStep
<1>8. rest \in [1..(Len(said) + 1) -> Seq(Byte)]
    BY <1>4, <1>5
<1>9. StreamInStep
    BY <1>3, <1>6, <1>7, <1>8, Zenon DEF StreamInStep
<1> QED  BY <1>1, <1>2, <1>9 DEF HearingInv

\* A step that leaves the stream alone, and leaves or ends the receive.
LEMMA HearingKept ==
    ASSUME HearingInv, UNCHANGED <<remoteVars, received>>,
           read' = read \/ read'.op \in {"none", "header_error", "body_error"}
    PROVE  HearingInv'
<1>1. UNCHANGED <<orders, link, stream, said, cut, received>>
    BY DEF remoteVars
<1>2. HeardRight' /\ (cut => link = "eof")'
    BY <1>1 DEF HearingInv, HeardRight
<1>3. PICK rest \in [1..(Len(said) + 1) -> Seq(Byte)], lost \in Seq(Byte) :
         /\ Outstanding(rest, said, orders.local)
         /\ ~cut => lost = <<>>
         /\ InStep(read, Len(received) + 1, stream \o lost, rest, said,
                   orders.local)
    BY DEF HearingInv, StreamInStep
<1>4. InStep(read', Len(received) + 1, stream \o lost, rest, said, orders.local)
  <2>1. CASE read' = read
      BY <1>3, <2>1
  <2>2. CASE read'.op \in {"none", "header_error", "body_error"}
    <3>1. /\ read'.op # "header" /\ read'.op # "header_done"
          /\ read'.op # "body" /\ read'.op # "body_done"
        BY <2>2
    <3> QED  BY <3>1, Zenon DEF InStep
  <2> QED  BY <2>1, <2>2
<1>5. StreamInStep'
    BY <1>1, <1>3, <1>4, StreamIntro
<1> QED  BY <1>2, <1>5 DEF HearingInv

\* What the remote host sends.
LEMMA SentPacket ==
    ASSUME MessagesFit, OthersAreRefused, ClientInv, HearingInv, RemoteSends
    PROVE  \E f \in Seq(Byte), u \in Utterances :
              /\ Says(f, u, orders.local)
              /\ said' = Append(said, u)
              /\ stream' = stream \o f
<1>1. orders.local \in Orders /\ orders.remote \in Orders
    BY Places
<1>2. CASE \E m \in Messages :
             /\ said' = Append(said, <<m>>)
             /\ stream' = stream \o
                    Segmented(NearSerialized(m, orders.remote), orders.remote)
  <2>1. PICK m \in Messages :
           /\ said' = Append(said, <<m>>)
           /\ stream' = stream \o
                  Segmented(NearSerialized(m, orders.remote), orders.remote)
      BY <1>2
  <2> DEFINE f == Segmented(NearSerialized(m, orders.remote), orders.remote)
  <2>2. f \in Seq(Byte) /\ Says(f, <<m>>, orders.local)
      BY <1>1, MessageSaid
  <2>3. <<m>> \in Utterances
      BY DEF Utterances
  <2>4. said' = Append(said, <<m>>) /\ stream' = stream \o f
      BY <2>1
  <2> HIDE DEF f
  <2> QED  BY <2>2, <2>3, <2>4
<1>3. CASE \E f \in BadFrames :
             /\ said' = Append(said, <<>>)
             /\ stream' = stream \o f
  <2>1. PICK f \in BadFrames : said' = Append(said, <<>>) /\ stream' = stream \o f
      BY <1>3
  <2>2. f \in Seq(Byte) /\ Says(f, <<>>, orders.local)
      BY <1>1, OtherSaid
  <2>3. <<>> \in Utterances
      BY DEF Utterances
  <2> QED  BY <2>1, <2>2, <2>3
<1> QED  BY <1>2, <1>3 DEF RemoteSends

LEMMA RemoteSendsHearing ==
    ASSUME MessagesFit, OthersAreRefused, ClientInv, HearingInv, RemoteSends
    PROVE  HearingInv'
<1>1. PICK f \in Seq(Byte), u \in Utterances :
         /\ Says(f, u, orders.local)
         /\ said' = Append(said, u)
         /\ stream' = stream \o f
    BY SentPacket
<1>2. /\ link = "up" /\ UNCHANGED <<orders, link, cut, read, received>>
      /\ ~cut
    BY DEF RemoteSends, signals, HearingInv
<1>3. /\ said \in Seq(Utterances) /\ Len(said) \in Nat
      /\ Len(received) + 1 \in 1..(Len(said) + 1) /\ Len(received) \in Nat
      /\ stream \in Seq(Byte) /\ read \in ReadOp
    BY Places
<1>4. /\ Len(said') = Len(said) + 1
      /\ \A i \in 1..Len(said) : said'[i] = said[i]
    BY <1>1, <1>3, AppendProperties
<1>5. HeardRight'
  <2>1. Len(received) <= Len(said)
        /\ \A i \in 1..Len(received) :
              Understood(received[i], orders.local) = said[i]
      BY DEF HearingInv, HeardRight
  <2>2. \A i \in 1..Len(received) : i \in 1..Len(said)
      BY <1>3, <2>1
  <2>3. Len(received) <= Len(said')
      BY <1>3, <1>4, <2>1
  <2>4. \A i \in 1..Len(received) :
           Understood(received[i], orders.local) = said'[i]
      BY <1>4, <2>1, <2>2
  <2> QED  BY <1>2, <2>3, <2>4 DEF HeardRight
<1>6. PICK rest \in [1..(Len(said) + 1) -> Seq(Byte)], lost \in Seq(Byte) :
         /\ Outstanding(rest, said, orders.local)
         /\ ~cut => lost = <<>>
         /\ InStep(read, Len(received) + 1, stream \o lost, rest, said,
                   orders.local)
    BY DEF HearingInv, StreamInStep
<1> DEFINE more == [i \in 1..(Len(said) + 2) |->
                       IF i <= Len(said) + 1 THEN rest[i] \o f ELSE <<>>]
<1>7. stream \o lost = stream /\ stream' \o <<>> = stream'
  <2>1. stream' \in Seq(Byte)
      BY <1>1, <1>3, ConcatBytes
  <2> QED  BY <1>2, <1>3, <1>6, <2>1, ConcatEmptySeq
<1>8. Outstanding(more, Append(said, u), orders.local)
    BY <1>1, <1>3, <1>6, OutstandingSent
<1>9. InStep(read, Len(received) + 1, stream, rest, said, orders.local)
    BY <1>6, <1>7
<1>10. InStep(read, Len(received) + 1, stream \o f, more, Append(said, u),
              orders.local)
    BY <1>3, <1>6, <1>9, InStepSent
<1>11. more \in [1..(Len(said') + 1) -> Seq(Byte)]
  <2>1. more \in [1..(Len(Append(said, u)) + 1) -> Seq(Byte)]
    <3> HIDE DEF more
    <3> QED  BY <1>8 DEF Outstanding
  <2> QED  BY <1>1, <2>1
<1> HIDE DEF more
<1>12. StreamInStep'
  <2>1. Outstanding(more, said', orders'.local)
      BY <1>1, <1>2, <1>8
  <2>2. InStep(read', Len(received') + 1, stream' \o <<>>, more, said',
               orders'.local)
      BY <1>1, <1>2, <1>7, <1>10
  <2>3. <<>> \in Seq(Byte)
      BY EmptySeq
  <2> QED  BY <1>11, <2>1, <2>2, <2>3, StreamIntro
<1> QED  BY <1>2, <1>5, <1>12 DEF HearingInv

\* The last byte that the remote host does not send any more is lost.
LEMMA RemoteBreaksHearing ==
    ASSUME ClientInv, HearingInv, RemoteBreaks
    PROVE  HearingInv'
<1>1. UNCHANGED <<orders, said, read, received>>
    BY DEF RemoteBreaks, signals
<1>2. CASE UNCHANGED <<stream, cut>>
  <2>1. /\ HeardRight'
        /\ (cut => link = "eof")'
      BY <1>1, <1>2 DEF HearingInv, HeardRight, RemoteBreaks
  <2>2. StreamInStep'
      BY <1>1, <1>2, Zenon DEF HearingInv, StreamInStep
  <2> QED  BY <2>1, <2>2 DEF HearingInv
<1>3. CASE /\ stream # <<>> /\ link' = "eof"
           /\ stream' = Front(stream) /\ cut' = TRUE
  <2>1. stream \in Seq(Byte) /\ Len(stream) \in Nat /\ Len(stream) - 1 \in Nat
    <3>1. stream \in Seq(Byte) /\ Len(stream) \in Nat
        BY Places
    <3>2. Len(stream) \in Nat \ {0}
        BY <1>3, <3>1, EmptySeq
    <3> QED  BY <3>1, <3>2
  <2> DEFINE n == Len(stream) - 1
             front == SubSeq(stream, 1, n)
             last == SubSeq(stream, n + 1, Len(stream))
  <2>2. stream' = front
      BY <1>3 DEF Front
  <2> HIDE DEF n
  <2>3. front \in Seq(Byte) /\ last \in Seq(Byte) /\ front \o last = stream
    <3>1. n \in Nat /\ n <= Len(stream)
        BY <2>1 DEF n
    <3> QED  BY <2>1, <3>1, TakenAndLeft
  <2> HIDE DEF front, last
  <2>4. PICK rest \in [1..(Len(said) + 1) -> Seq(Byte)], lost \in Seq(Byte) :
           /\ Outstanding(rest, said, orders.local)
           /\ ~cut => lost = <<>>
           /\ InStep(read, Len(received) + 1, stream \o lost, rest, said,
                     orders.local)
      BY DEF HearingInv, StreamInStep
  <2>5. last \o lost \in Seq(Byte)
      BY <2>3, ConcatBytes
  <2>6. stream' \o (last \o lost) = stream \o lost
    <3>1. (front \o last) \o lost = front \o (last \o lost)
        BY <2>3, JoinBytes
    <3> QED  BY <2>2, <2>3, <3>1
  <2>7. StreamInStep'
    <3>1. Outstanding(rest, said', orders'.local)
        BY <1>1, <2>4
    <3>2. InStep(read', Len(received') + 1, stream' \o (last \o lost), rest,
                 said', orders'.local)
        BY <1>1, <2>4, <2>6
    <3>3. rest \in [1..(Len(said') + 1) -> Seq(Byte)]
        BY <1>1
    <3> QED  BY <1>3, <2>5, <3>1, <3>2, <3>3, StreamIntro
  <2>8. HeardRight'
      BY <1>1 DEF HearingInv, HeardRight
  <2> QED  BY <1>3, <2>7, <2>8 DEF HearingInv
<1> QED  BY <1>2, <1>3 DEF RemoteBreaks

LEMMA ReadCompletesHearing ==
    ASSUME ClientInv, HearingInv, ReadCompletes
    PROVE  HearingInv'
<1>1. /\ UNCHANGED <<orders, link, said, cut, received>>
      /\ read.op \in {"header", "body"}
      /\ read.wanted <= Len(stream)
  <2>1. read.op \in {"header", "body"}
      BY DEF ReadCompletes, Pending
  <2>2. read.wanted \in Nat /\ Len(stream) \in Nat
      BY Places DEF ReadOp
  <2>3. read.wanted = 0 \/ Len(stream) >= read.wanted
      BY DEF ReadCompletes, Readable
  <2>4. UNCHANGED <<orders, link, said, cut, received>>
      BY DEF ReadCompletes, signals
  <2> QED  BY <2>1, <2>2, <2>3, <2>4
<1>2. /\ Len(said) \in Nat /\ Len(received) + 1 \in 1..(Len(said) + 1)
      /\ stream \in Seq(Byte) /\ read \in ReadOp /\ read.wanted \in Nat
    BY Places DEF ReadOp
<1> DEFINE data == SubSeq(stream, 1, read.wanted)
           left == SubSeq(stream, read.wanted + 1, Len(stream))
<1>3. /\ data \in Seq(Byte) /\ Len(data) = read.wanted
      /\ left \in Seq(Byte) /\ data \o left = stream
    BY <1>1, <1>2, TakenAndLeft
<1>4. /\ read' = [op     |-> IF read.op = "header" THEN "header_done"
                                                   ELSE "body_done",
                  wanted |-> 0,
                  data   |-> data]
      /\ stream' = left
    BY DEF ReadCompletes
<1> HIDE DEF data, left
<1>5. PICK rest \in [1..(Len(said) + 1) -> Seq(Byte)], lost \in Seq(Byte) :
         /\ Outstanding(rest, said, orders.local)
         /\ ~cut => lost = <<>>
         /\ InStep(read, Len(received) + 1, stream \o lost, rest, said,
                   orders.local)
    BY DEF HearingInv, StreamInStep
<1>6. left \o lost \in Seq(Byte) /\ (data \o left) \o lost = data \o (left \o lost)
    BY <1>3, ConcatBytes, JoinBytes, ZenonT(40)
<1>7. InStep(read, Len(received) + 1, data \o (left \o lost), rest, said,
             orders.local)
    BY <1>3, <1>5, <1>6
<1>8. InStep(read', Len(received) + 1, left \o lost, rest, said, orders.local)
  <2> DEFINE ahead == left \o lost
             k == Len(received) + 1
  <2>1. ahead \in Seq(Byte) /\ k \in 1..(Len(said) + 1)
        /\ InStep(read, k, data \o ahead, rest, said, orders.local)
      BY <1>2, <1>6, <1>7
  <2> HIDE DEF ahead, k
  <2>2. InStep(read', k, ahead, rest, said, orders.local)
      BY <1>1, <1>2, <1>3, <1>4, <1>5, <2>1, InStepRead
  <2> QED  BY <2>2 DEF ahead, k
<1>9. StreamInStep'
  <2>1. Outstanding(rest, said', orders'.local)
      BY <1>1, <1>5
  <2>2. InStep(read', Len(received') + 1, stream' \o lost, rest, said',
               orders'.local)
      BY <1>1, <1>4, <1>8
  <2>3. rest \in [1..(Len(said') + 1) -> Seq(Byte)] /\ (~cut' => lost = <<>>)
      BY <1>1, <1>5
  <2> QED  BY <2>1, <2>2, <2>3, StreamIntro
<1>10. HeardRight' /\ (cut => link = "eof")'
    BY <1>1 DEF HearingInv, HeardRight
<1> QED  BY <1>9, <1>10 DEF HearingInv

\* The header handler goes on to a body.
AcceptsHeader ==
    /\ held
    /\ read.op = "header_done"
    /\ LET h == decodeHeader(read.data, orders.local)
       IN  /\ h.valid /\ ~Oversized(h.packetsize)
           /\ ~(h.packetsize < header_length)
           /\ read' = [op     |-> "body",
                       wanted |-> BodyLength(h.packetsize),
                       data   |-> <<>>]
    /\ UNCHANGED <<remoteVars, held, shut, signals, writeVars, closing>>

LEMMA AcceptsHeaderHearing ==
    ASSUME ClientInv, HearingInv, AcceptsHeader
    PROVE  HearingInv'
<1>1. UNCHANGED <<orders, link, stream, said, cut, received>>
    BY DEF AcceptsHeader, remoteVars, signals
<1>2. /\ Len(said) \in Nat /\ Len(received) + 1 \in 1..(Len(said) + 1)
      /\ stream \in Seq(Byte) /\ read \in ReadOp /\ Whole(read)
    BY Places
<1>3. read.op = "header_done" /\ Len(read.data) = header_length
    BY <1>2 DEF AcceptsHeader, Whole
<1>4. PICK rest \in [1..(Len(said) + 1) -> Seq(Byte)], lost \in Seq(Byte) :
         /\ Outstanding(rest, said, orders.local)
         /\ ~cut => lost = <<>>
         /\ InStep(read, Len(received) + 1, stream \o lost, rest, said,
                   orders.local)
    BY DEF HearingInv, StreamInStep
<1> DEFINE ahead == stream \o lost
           k == Len(received) + 1
<1>5. ahead \in Seq(Byte) /\ k \in 1..(Len(said) + 1)
      /\ InStep(read, k, ahead, rest, said, orders.local)
    BY <1>2, <1>4, ConcatBytes
<1> HIDE DEF ahead, k
<1>6. /\ k \in 1..Len(said)
      /\ Heads(read.data, ahead, rest[k + 1], said[k], orders.local)
    BY <1>2, <1>3, <1>4, <1>5, InStepHeader
<1>7. ~RefusedHeader(read.data, orders.local)
    BY DEF RefusedHeader, AcceptsHeader
<1>8. PICK body \in Seq(Byte) :
         /\ AnnouncedBy(read.data, header_length + Len(body), orders.local)
         /\ ahead = body \o rest[k + 1]
         /\ Understood(body, orders.local) = said[k]
    BY <1>6, <1>7 DEF Heads
<1>9. decodeHeader(read.data, orders.local).packetsize = header_length + Len(body)
    BY <1>8 DEF AnnouncedBy
<1>10. Len(body) \in Nat /\ BodyLength(header_length + Len(body)) = Len(body)
    BY LenProperties DEF BodyLength, header_length
<1>11. read' = [op |-> "body", wanted |-> Len(body), data |-> <<>>]
    BY <1>9, <1>10 DEF AcceptsHeader
<1>12. InStep(read', k, ahead, rest, said, orders.local)
  <2>1. /\ read'.op # "header" /\ read'.op # "header_done"
        /\ read'.op # "body_done" /\ Len(body) = read'.wanted
      BY <1>11
  <2>2. k <= Len(said)
      BY <1>2, <1>6
  <2> QED  BY <1>8, <2>1, <2>2, Zenon DEF InStep
<1>13. StreamInStep'
  <2>1. InStep(read', Len(received') + 1, stream' \o lost, rest, said',
               orders'.local)
      BY <1>1, <1>12 DEF ahead, k
  <2>2. /\ rest \in [1..(Len(said') + 1) -> Seq(Byte)] /\ (~cut' => lost = <<>>)
        /\ Outstanding(rest, said', orders'.local)
      BY <1>1, <1>4
  <2> QED  BY <2>1, <2>2, StreamIntro
<1>14. HeardRight' /\ (cut => link = "eof")'
    BY <1>1 DEF HearingInv, HeardRight
<1> QED  BY <1>13, <1>14 DEF HearingInv

\* The body handler hands over a body.
Delivers ==
    /\ held
    /\ read.op = "body_done"
    /\ received' = Append(received, read.data)
    /\ \E keeps \in BOOLEAN : Settle(keeps, HeaderRead, writeQ, writesFailed)
    /\ CallsShutdown \/ UNCHANGED <<shut, closing>>
    /\ UNCHANGED <<remoteVars, disconnected, packets>>

\* What is delivered is what was said next.
LEMMA DeliversHearing ==
    ASSUME ClientInv, HearingInv, Delivers
    PROVE  /\ HearingInv'
           /\ Len(received) < Len(said) /\ Len(received') = Len(received) + 1
           /\ \A i \in 1..Len(received) : received'[i] = received[i]
           /\ Understood(received'[Len(received) + 1], orders.local)
                  = said[Len(received) + 1]
<1>1. UNCHANGED <<orders, link, stream, said, cut>>
    BY DEF Delivers, remoteVars
<1>2. /\ Len(said) \in Nat /\ Len(received) + 1 \in 1..(Len(said) + 1)
      /\ Len(received) \in Nat /\ received \in Seq(Seq(Byte))
      /\ stream \in Seq(Byte) /\ read \in ReadOp /\ read.data \in Seq(Byte)
    BY Places DEF ReadOp
<1>3. PICK rest \in [1..(Len(said) + 1) -> Seq(Byte)], lost \in Seq(Byte) :
         /\ Outstanding(rest, said, orders.local)
         /\ ~cut => lost = <<>>
         /\ InStep(read, Len(received) + 1, stream \o lost, rest, said,
                   orders.local)
    BY DEF HearingInv, StreamInStep
<1> DEFINE ahead == stream \o lost
           k == Len(received) + 1
<1>4. InStep(read, k, ahead, rest, said, orders.local)
    BY <1>3
<1> HIDE DEF ahead, k
<1>5. /\ k <= Len(said)
      /\ Understood(read.data, orders.local) = said[k]
      /\ InStep(HeaderRead, k + 1, ahead, rest, said, orders.local)
  <2>1. read.op = "body_done"
      BY DEF Delivers
  <2> QED  BY <1>4, <2>1, InStepBody
<1>6. /\ Len(received') = Len(received) + 1
      /\ \A i \in 1..Len(received) : received'[i] = received[i]
      /\ received'[Len(received) + 1] = read.data
    BY <1>2, AppendProperties DEF Delivers
<1>7. Len(received') + 1 = k + 1 /\ k = Len(received) + 1
    BY <1>6 DEF k
<1>8. read' = HeaderRead \/ read'.op = "header_error"
    BY DEF Delivers, Settle, Abort, HeaderRead
<1>9. InStep(read', k + 1, ahead, rest, said, orders.local)
  <2>1. CASE read' = HeaderRead
      BY <1>5, <2>1
  <2>2. CASE read'.op = "header_error"
    <3>1. /\ read'.op # "header" /\ read'.op # "header_done"
          /\ read'.op # "body" /\ read'.op # "body_done"
        BY <2>2
    <3> QED  BY <3>1, Zenon DEF InStep
  <2> QED  BY <1>8, <2>1, <2>2
<1>10. StreamInStep'
  <2>1. InStep(read', Len(received') + 1, stream' \o lost, rest, said',
               orders'.local)
      BY <1>1, <1>7, <1>9 DEF ahead
  <2>2. /\ rest \in [1..(Len(said') + 1) -> Seq(Byte)] /\ (~cut' => lost = <<>>)
        /\ Outstanding(rest, said', orders'.local)
      BY <1>1, <1>3
  <2> QED  BY <2>1, <2>2, StreamIntro
<1>11. HeardRight'
  <2>1. Len(received') <= Len(said)
      BY <1>2, <1>5, <1>6, <1>7
  <2>2. ASSUME NEW i \in 1..(Len(received) + 1)
        PROVE  Understood(received'[i], orders.local) = said[i]
    <3>1. CASE i \in 1..Len(received)
      <4>1. Understood(received[i], orders.local) = said[i]
          BY <3>1 DEF HearingInv, HeardRight
      <4> QED  BY <1>6, <3>1, <4>1
    <3>2. CASE i = Len(received) + 1
        BY <1>5, <1>6, <1>7, <3>2
    <3> QED  BY <1>2, <3>1, <3>2
  <2> QED  BY <1>1, <1>6, <2>1, <2>2 DEF HeardRight
<1>12. (cut => link = "eof")'
    BY <1>1 DEF HearingInv
<1>13. Len(received) < Len(said)
    BY <1>2, <1>5, <1>7
<1>14. Understood(received'[Len(received) + 1], orders.local)
           = said[Len(received) + 1]
    BY <1>5, <1>6, <1>7
<1> QED  BY <1>6, <1>10, <1>11, <1>12, <1>13, <1>14 DEF HearingInv

\* A step that hears nothing: the owner may be told, or may let go.
HearsNothing ==
    /\ UNCHANGED <<remoteVars, received>>
    /\ read' = read \/ read'.op \in {"none", "header_error", "body_error"}
    /\ held' \in BOOLEAN /\ disconnected' \in Nat
    /\ \/ held /\ disconnected' > 0
       \/ disconnected' = disconnected /\ (held' => held)

\* Every step is one of these.
LEMMA HearingSteps ==
    ASSUME ClientInv, ClientInv', [Next]_vars
    PROVE  \/ RemoteSends \/ RemoteBreaks \/ ReadCompletes
           \/ AcceptsHeader \/ Delivers \/ HearsNothing
<1>1. /\ held \in BOOLEAN /\ held' \in BOOLEAN
      /\ disconnected \in Nat /\ disconnected' \in Nat /\ read \in ReadOp
    BY DEF ClientInv, TypeOK
<1>2. Abort(read) = read \/ Abort(read).op \in {"header_error", "body_error"}
    BY <1>1 DEF Abort, ReadOp
<1>3. ASSUME NEW r, Abort(r) = r \/ Abort(r).op \in {"header_error", "body_error"},
             r = read \/ r.op = "none", NEW failed,
             Disconnect(r, failed), held, UNCHANGED remoteVars
      PROVE  HearsNothing
  <2>1. read' = r \/ read' = Abort(r)
      BY <1>3 DEF Disconnect, Settle
  <2>2. read' = read \/ read'.op \in {"none", "header_error", "body_error"}
      BY <1>3, <2>1
  <2>3. disconnected' > 0 /\ UNCHANGED received
      BY <1>1, <1>3 DEF Disconnect
  <2> QED  BY <1>1, <1>3, <2>2, <2>3 DEF HearsNothing
<1>4. ASSUME ReadHandlerFails, held
      PROVE  HearsNothing
  <2>1. Abort(NoRead) = NoRead /\ NoRead.op = "none"
      BY DEF NoRead, Abort
  <2> QED  BY <1>3, <1>4, <2>1 DEF ReadHandlerFails
<1>5. ASSUME ReadHandlerOrphaned
      PROVE  HearsNothing
  <2>1. read'.op = "none" /\ UNCHANGED <<remoteVars, held, received, disconnected>>
      BY <1>5 DEF ReadHandlerOrphaned, NoRead, signals
  <2> QED  BY <1>1, <2>1 DEF HearsNothing
<1>6. CASE Owner
  <2>1. CASE SendPacket \/ Shutdown
    <3>1. UNCHANGED <<remoteVars, held, read, received, disconnected>>
        BY <2>1 DEF SendPacket, Shutdown, signals
    <3> QED  BY <1>1, <3>1 DEF HearsNothing
  <2>2. CASE Release
    <3>1. /\ UNCHANGED <<remoteVars, received, disconnected>>
          /\ ~held' /\ read' = Abort(read)
        BY <2>2 DEF Release, signals, Settle
    <3> QED  BY <1>1, <1>2, <3>1 DEF HearsNothing
  <2> QED  BY <1>6, <2>1, <2>2 DEF Owner
<1>7. CASE Remote
    BY <1>7 DEF Remote
<1>8. CASE Reactor
  <2>1. CASE ReadFails
    <3>1. /\ UNCHANGED <<remoteVars, held, received, disconnected>>
          /\ read' = Abort(read)
        BY <2>1 DEF ReadFails, signals
    <3> QED  BY <1>1, <1>2, <3>1 DEF HearsNothing
  <2>2. CASE WriteSome \/ WriteFails
    <3>1. UNCHANGED <<remoteVars, held, read, received, disconnected>>
        BY <2>2 DEF WriteSome, WriteFails, signals
    <3> QED  BY <1>1, <3>1 DEF HearsNothing
  <2> QED  BY <1>8, <2>1, <2>2 DEF Reactor
<1>9. CASE ReceiveHeaderHandler
  <2> DEFINE h == decodeHeader(read.data, orders.local)
  <2>1. CASE /\ held
             /\ read.op = "header_done"
             /\ h.valid /\ ~Oversized(h.packetsize)
             /\ IF h.packetsize < header_length
                  THEN service' = "terminated" /\ UNCHANGED read
                  ELSE /\ read' = [op     |-> "body",
                                   wanted |-> BodyLength(h.packetsize),
                                   data   |-> <<>>]
                       /\ UNCHANGED service
             /\ UNCHANGED <<remoteVars, held, shut, signals, writeVars, closing>>
    <3>1. CASE h.packetsize < header_length
      <4>1. UNCHANGED <<remoteVars, held, read, received, disconnected>>
          BY <2>1, <3>1 DEF signals
      <4> QED  BY <1>1, <4>1 DEF HearsNothing
    <3>2. CASE ~(h.packetsize < header_length)
        BY <2>1, <3>2 DEF AcceptsHeader
    <3> QED  BY <3>1, <3>2
  <2> QED  BY <1>4, <1>5, <1>9, <2>1 DEF ReceiveHeaderHandler
<1>10. CASE ReceiveBodyHandler
    BY <1>4, <1>5, <1>10 DEF ReceiveBodyHandler, Delivers
<1>11. CASE SendHandler
  <2>1. UNCHANGED <<remoteVars, held, read, received, disconnected>>
      BY <1>11 DEF SendHandler, signals
  <2> QED  BY <1>1, <2>1 DEF HearsNothing
<1>12. CASE SendHandlerError
  <2>1. UNCHANGED remoteVars
      BY <1>12 DEF SendHandlerError
  <2>2. CASE held
    <3>1. Disconnect(read, writesFailed - 1)
        BY <1>12, <2>2 DEF SendHandlerError
    <3> QED  BY <1>2, <1>3, <2>1, <2>2, <3>1
  <2>3. CASE ~held
    <3>1. UNCHANGED <<held, read, received, disconnected>>
        BY <1>12, <2>3 DEF SendHandlerError, signals
    <3> QED  BY <1>1, <2>1, <3>1 DEF HearsNothing
  <2> QED  BY <2>2, <2>3
<1>13. CASE Over \/ UNCHANGED vars
  <2>1. UNCHANGED <<remoteVars, held, read, received, disconnected>>
      BY <1>13 DEF Over, vars, signals
  <2> QED  BY <1>1, <2>1 DEF HearsNothing
<1> QED  BY <1>6, <1>7, <1>8, <1>9, <1>10, <1>11, <1>12, <1>13
         DEF Next, Handlers, Reactor

LEMMA NextHearing ==
    ASSUME MessagesFit, OthersAreRefused,
           ClientInv, ClientInv', HearingInv, [Next]_vars
    PROVE  HearingInv'
<1>1. CASE RemoteSends
    BY <1>1, RemoteSendsHearing
<1>2. CASE RemoteBreaks
    BY <1>2, RemoteBreaksHearing
<1>3. CASE ReadCompletes
    BY <1>3, ReadCompletesHearing
<1>4. CASE AcceptsHeader
    BY <1>4, AcceptsHeaderHearing
<1>5. CASE Delivers
    BY <1>5, DeliversHearing
<1>6. CASE HearsNothing
    BY <1>6, HearingKept DEF HearsNothing
<1> QED  BY <1>1, <1>2, <1>3, <1>4, <1>5, <1>6, HearingSteps

(* While every packet of a message fits, the receive never loses its place *)
(* in what the remote host sends, and what was heard is what was said.     *)
THEOREM ReceiveInStep ==
    ASSUME MessagesFit, OthersAreRefused
    PROVE  Spec => []HearingInv
<1>1. Init => HearingInv
    BY InitHearing
<1>2. ClientInv /\ ClientInv' /\ HearingInv /\ [Next]_vars => HearingInv'
    BY NextHearing
<1> QED  BY <1>1, <1>2, ClientInvariant, PTL DEF Spec

-----------------------------------------------------------------------------
(* The refinement *)

\* What the owner has heard.
Heard == [i \in 1..Len(received) |-> Understood(received[i], orders.local)]

\* A step that neither says nor hears anything, tells nothing new and does
\* not let go is a stutter, and one that lets go a release.
LEMMA QuietStep ==
    ASSUME held \in BOOLEAN, held' \in BOOLEAN,
           UNCHANGED <<orders, said, received, disconnected>>, held' => held
    PROVE  AbstractConnection!Release \/ UNCHANGED AbstractConnection!absVars
<1>1. UNCHANGED Heard
    BY DEF Heard
<1>2. (disconnected > 0)' = (disconnected > 0)
    OBVIOUS
<1>3. CASE held' = held
    BY <1>1, <1>2, <1>3 DEF AbstractConnection!absVars, Heard
<1>4. CASE ~held'
    BY <1>1, <1>2, <1>4 DEF AbstractConnection!Release, Heard
<1> QED  BY <1>3, <1>4

LEMMA SendsIsSay ==
    ASSUME MessagesFit, OthersAreRefused, ClientInv, HearingInv, RemoteSends
    PROVE  \E u \in Utterances : AbstractConnection!Say(u)
<1>1. PICK f \in Seq(Byte), u \in Utterances :
         /\ Says(f, u, orders.local)
         /\ said' = Append(said, u)
         /\ stream' = stream \o f
    BY SentPacket
<1>2. UNCHANGED <<orders, received, disconnected, held>>
    BY DEF RemoteSends, signals
<1>3. UNCHANGED Heard
    BY <1>2 DEF Heard
<1> QED  BY <1>1, <1>2, <1>3 DEF AbstractConnection!Say, Heard

LEMMA DeliversIsHear ==
    ASSUME ClientInv, ClientInv', HearingInv, Delivers
    PROVE  AbstractConnection!Hear
<1> DEFINE n == Len(received)
           u == said[n + 1]
<1>1. /\ Len(received) < Len(said) /\ Len(received') = Len(received) + 1
      /\ \A i \in 1..Len(received) : received'[i] = received[i]
      /\ Understood(received'[Len(received) + 1], orders.local)
             = said[Len(received) + 1]
    BY DeliversHearing
<1>2. UNCHANGED <<orders, said, disconnected>> /\ held /\ held' \in BOOLEAN
    BY DEF Delivers, remoteVars, ClientInv, TypeOK
<1>3. n \in Nat
    BY Places
<1>4. Len(Heard) = n
    BY <1>3 DEF Heard
<1>5. Heard' = Append(Heard, u)
  <2>1. Heard' = [i \in 1..(n + 1) |-> Understood(received'[i], orders.local)]
      BY <1>1, <1>2 DEF Heard
  <2>2. \A i \in 1..n :
           Understood(received'[i], orders.local)
               = Understood(received[i], orders.local)
      BY <1>1
  <2>3. Understood(received'[n + 1], orders.local) = u
      BY <1>1
  <2> DEFINE U(x) == Understood(x, orders.local)
  <2> HIDE DEF u, U
  <2>4. [i \in 1..(n + 1) |-> U(received'[i])]
            = Append([i \in 1..n |-> U(received[i])], u)
      BY <1>3, <2>2, <2>3 DEF U
  <2> QED  BY <2>1, <2>4 DEF Heard, U
<1>6. Len(Heard) < Len(said) /\ u = said[Len(Heard) + 1]
    BY <1>1, <1>4
<1>7. UNCHANGED <<said, disconnected > 0>>
    BY <1>2
<1> HIDE DEF n, u
<1> QED  BY <1>2, <1>5, <1>6, <1>7 DEF AbstractConnection!Hear, Heard

LEMMA NothingIsTell ==
    ASSUME ClientInv, HearsNothing
    PROVE  \/ AbstractConnection!Tell \/ AbstractConnection!Release
           \/ UNCHANGED AbstractConnection!absVars
<1>1. UNCHANGED <<orders, said, received>> /\ held \in BOOLEAN /\ held' \in BOOLEAN
    BY DEF HearsNothing, remoteVars, ClientInv, TypeOK
<1>2. CASE held /\ disconnected' > 0
  <2>1. UNCHANGED Heard
      BY <1>1 DEF Heard
  <2> QED  BY <1>1, <1>2, <2>1 DEF AbstractConnection!Tell, Heard
<1>3. CASE disconnected' = disconnected /\ (held' => held)
    BY <1>1, <1>3, QuietStep
<1> QED  BY <1>2, <1>3 DEF HearsNothing

(* A ConnectedClient implements the abstract connection, for all messages  *)
(* that fit into a packet and any other packets: its owner hears the       *)
(* messages of the remote host in order, without gaps and unaltered        *)
(* although they cross between hosts of different byte order, whatever the *)
(* order in which operations complete, and nothing after it has let go.    *)
THEOREM ConnectionImplemented ==
    ASSUME MessagesFit, OthersAreRefused
    PROVE  Spec => ImplementsConnection
<1>1. Init => AbstractConnection!Init
  <2> SUFFICES ASSUME Init PROVE AbstractConnection!Init
      OBVIOUS
  <2>1. received = <<>> /\ said = <<>> /\ ~(disconnected > 0) /\ held
      BY DEF Init
  <2>2. Heard = <<>>
      BY <2>1 DEF Heard
  <2> QED  BY <2>1, <2>2 DEF AbstractConnection!Init, Heard
<1>2. ClientInv /\ ClientInv' /\ HearingInv /\ [Next]_vars
          => [AbstractConnection!Next]_(AbstractConnection!absVars)
  <2> SUFFICES ASSUME ClientInv, ClientInv', HearingInv, [Next]_vars
               PROVE  \/ AbstractConnection!Next
                      \/ UNCHANGED AbstractConnection!absVars
      OBVIOUS
  <2>1. held \in BOOLEAN /\ held' \in BOOLEAN
      BY DEF ClientInv, TypeOK
  <2>2. CASE RemoteSends
      BY <2>2, SendsIsSay DEF AbstractConnection!Next
  <2>3. CASE RemoteBreaks \/ ReadCompletes \/ AcceptsHeader
    <3>1. UNCHANGED <<orders, said, received, disconnected, held>>
        BY <2>3 DEF RemoteBreaks, ReadCompletes, AcceptsHeader, remoteVars,
                    signals
    <3> QED  BY <2>1, <3>1, QuietStep DEF AbstractConnection!Next
  <2>4. CASE Delivers
      BY <2>4, DeliversIsHear DEF AbstractConnection!Next
  <2>5. CASE HearsNothing
      BY <2>5, NothingIsTell DEF AbstractConnection!Next
  <2> QED  BY <2>2, <2>3, <2>4, <2>5, HearingSteps
<1> QED  BY <1>1, <1>2, ClientInvariant, ReceiveInStep, PTL
          DEF Spec, ImplementsConnection, AbstractConnection!Spec

-----------------------------------------------------------------------------
(* A remote host that says all and closes is heard to the end *)

\* What Settle does where there is nothing to write.
LEMMA SettleIdle ==
    ASSUME NEW keeps, NEW r, Settle(keeps, r, <<>>, 0)
    PROVE  writeQ' = <<>> /\ writesFailed' = 0
BY DEF Settle

LEMMA InitHeard == Init => HeardInv
<1> SUFFICES ASSUME Init PROVE HeardInv
    OBVIOUS
<1>1. NothingToFail
    BY DEF Init, NothingToFail
<1>2. ~shut /\ ~(disconnected > 0) /\ read.op = "header"
    BY DEF Init, HeaderRead
<1> QED  BY <1>1, <1>2 DEF HeardInv, EndsHeard

\* No write fails where none was started.
LEMMA NothingToFailKept ==
    ASSUME ClientInv, NothingToFail, [Next]_vars
    PROVE  NothingToFail'
<1>1. packets \in Nat /\ writesFailed \in Nat
    BY CountsAssumption DEF ClientInv, TypeOK
<1> SUFFICES ASSUME packets' = 0 PROVE writeQ' = <<>> /\ writesFailed' = 0
    BY DEF NothingToFail
<1>2. ~SendPacket
    BY <1>1 DEF SendPacket
<1>3. packets' = packets
    BY <1>2 DEF Next, Owner, Shutdown, Release, Remote, RemoteSends,
                RemoteBreaks, Reactor, ReadCompletes, ReadFails, WriteSome,
                WriteFails, Handlers, ReceiveHeaderHandler, ReceiveBodyHandler,
                ReadHandlerFails, ReadHandlerOrphaned, SendHandler,
                SendHandlerError, Over, vars, writeVars
<1>4. writeQ = <<>> /\ writesFailed = 0
    BY <1>3 DEF NothingToFail
<1>5. ~WriteSome /\ ~WriteFails /\ ~SendHandlerError
    BY <1>4 DEF WriteSome, WriteFails, SendHandlerError
<1>6. CASE Owner
  <2>1. CASE Shutdown
      BY <1>4, <2>1 DEF Shutdown, writeVars
  <2>2. CASE Release
      BY <1>4, <2>2, SettleIdle DEF Release
  <2> QED  BY <1>2, <1>6, <2>1, <2>2 DEF Owner
<1>7. CASE Remote
    BY <1>4, <1>7 DEF Remote, RemoteSends, RemoteBreaks, writeVars
<1>8. CASE Reactor
    BY <1>4, <1>5, <1>8 DEF Reactor, ReadCompletes, ReadFails, writeVars
<1>9. ASSUME ReadHandlerFails
      PROVE  writeQ' = <<>> /\ writesFailed' = 0
  <2>1. PICK keeps \in BOOLEAN : Settle(keeps, NoRead, writeQ, writesFailed)
      BY <1>9 DEF ReadHandlerFails, Disconnect
  <2> QED  BY <1>4, <2>1, SettleIdle
<1>10. CASE ReceiveHeaderHandler
    BY <1>4, <1>9, <1>10 DEF ReceiveHeaderHandler, ReadHandlerOrphaned, writeVars
<1>11. CASE ReceiveBodyHandler
    BY <1>4, <1>9, <1>11, SettleIdle
       DEF ReceiveBodyHandler, ReadHandlerOrphaned, writeVars
<1>12. CASE SendHandler \/ Over \/ UNCHANGED vars
    BY <1>4, <1>12 DEF SendHandler, Over, vars, writeVars
<1> QED  BY <1>5, <1>6, <1>7, <1>8, <1>10, <1>11, <1>12 DEF Next, Handlers

\* A header that was received is accepted if all packets were proper.
LEMMA ProperHeader ==
    ASSUME ClientInv, HearingInv, read.op = "header_done",
           \A i \in 1..Len(said) : said[i] # <<>>
    PROVE  ~RefusedHeader(read.data, orders.local)
<1>1. /\ Len(said) \in Nat /\ Len(received) + 1 \in 1..(Len(said) + 1)
      /\ stream \in Seq(Byte) /\ read \in ReadOp /\ Whole(read)
    BY Places
<1>2. Len(read.data) = header_length
    BY <1>1 DEF Whole
<1>3. PICK rest \in [1..(Len(said) + 1) -> Seq(Byte)], lost \in Seq(Byte) :
         /\ Outstanding(rest, said, orders.local)
         /\ ~cut => lost = <<>>
         /\ InStep(read, Len(received) + 1, stream \o lost, rest, said,
                   orders.local)
    BY DEF HearingInv, StreamInStep
<1> DEFINE ahead == stream \o lost
           k == Len(received) + 1
<1>4. ahead \in Seq(Byte) /\ k \in 1..(Len(said) + 1)
      /\ InStep(read, k, ahead, rest, said, orders.local)
    BY <1>1, <1>3, ConcatBytes
<1> HIDE DEF ahead, k
<1>5. /\ k \in 1..Len(said)
      /\ Heads(read.data, ahead, rest[k + 1], said[k], orders.local)
    BY <1>1, <1>2, <1>3, <1>4, InStepHeader
<1>6. PICK body \in Seq(Byte) :
         AnnouncedBy(read.data, header_length + Len(body), orders.local)
    BY <1>5 DEF Heads
<1>7. Len(body) \in Nat /\ ~(header_length + Len(body) < header_length)
    BY LenProperties DEF header_length
<1> QED  BY <1>6, <1>7 DEF AnnouncedBy, RefusedHeader

\* A receive meets the end of an undisturbed stream after the last packet.
LEMMA EndOfStream ==
    ASSUME ClientInv, HearingInv, ~cut, link = "eof", Pending, ~Readable
    PROVE  Len(received) = Len(said)
<1>1. /\ Len(said) \in Nat /\ Len(received) + 1 \in 1..(Len(said) + 1)
      /\ Len(received) \in Nat
      /\ stream \in Seq(Byte) /\ read \in ReadOp /\ Whole(read)
    BY Places
<1>2. PICK rest \in [1..(Len(said) + 1) -> Seq(Byte)], lost \in Seq(Byte) :
         /\ Outstanding(rest, said, orders.local)
         /\ ~cut => lost = <<>>
         /\ InStep(read, Len(received) + 1, stream \o lost, rest, said,
                   orders.local)
    BY DEF HearingInv, StreamInStep
<1>3. stream \o lost = stream
    BY <1>1, <1>2, ConcatEmptySeq
<1> DEFINE k == Len(received) + 1
<1>4. k \in 1..(Len(said) + 1) /\ InStep(read, k, stream, rest, said, orders.local)
    BY <1>1, <1>2, <1>3
<1>5. read.op \in {"header", "body"} /\ ~(Len(stream) >= read.wanted)
    BY DEF Pending, Readable
<1> HIDE DEF k
<1>6. k = Len(said) + 1
    BY <1>1, <1>2, <1>4, <1>5, Starved
<1> QED  BY <1>1, <1>6 DEF k

\* The end of a connection that nobody disturbs.
LEMMA EndsHeardKept ==
    ASSUME ClientInv, HearingInv, HeardInv, [Next]_vars
    PROVE  EndsHeard'
<1> DEFINE failed == read.op \in {"header_error", "body_error"}
           premise == shut \/ disconnected > 0 \/ failed
<1>1. held /\ Undisturbed => (premise => AllHeard)
    BY DEF HeardInv, EndsHeard
<1> SUFFICES ASSUME held', Undisturbed', premise' PROVE AllHeard'
    BY DEF EndsHeard
<1>2. ASSUME held, Undisturbed, UNCHANGED <<link, said, received>>,
             AllHeard \/ UNCHANGED <<shut, disconnected, read>>
      PROVE  AllHeard'
    BY <1>1, <1>2 DEF AllHeard
<1>3. ASSUME held, UNCHANGED <<packets, closing, cut, link, said>>
      PROVE  Undisturbed
    BY <1>3 DEF Undisturbed
<1>4. CASE RemoteSends
  <2>1. /\ link = "up" /\ UNCHANGED <<shut, disconnected, read, held, link, cut>>
        /\ UNCHANGED <<packets, closing>>
      BY <1>4 DEF RemoteSends, signals, writeVars
  <2>2. said \in Seq(Utterances) /\ Len(said) \in Nat
      BY LenProperties DEF ClientInv, TypeOK
  <2>3. PICK u \in Utterances : said' = Append(said, u)
    <3>1. <<>> \in Utterances /\ \A m \in Messages : <<m>> \in Utterances
        BY DEF Utterances
    <3> QED  BY <1>4, <3>1 DEF RemoteSends
  <2>4. /\ Len(said') = Len(said) + 1
        /\ \A i \in 1..Len(said) : said'[i] = said[i]
      BY <2>2, <2>3, AppendProperties
  <2>5. \A i \in 1..Len(said) : said[i] # <<>>
    <3>1. \A i \in 1..Len(said') : said'[i] # <<>>
        BY DEF Undisturbed
    <3> QED  BY <2>2, <2>4, <3>1
  <2>6. Undisturbed
      BY <2>1, <2>5 DEF Undisturbed
  <2>7. AllHeard
      BY <1>1, <2>1, <2>6
  <2> QED  BY <2>1, <2>7 DEF AllHeard
<1>5. CASE RemoteBreaks
  <2>1. /\ link = "up" /\ UNCHANGED <<shut, disconnected, read, held, said>>
        /\ UNCHANGED <<packets, closing>>
      BY <1>5 DEF RemoteBreaks, signals, writeVars
  <2>2. cut' = TRUE \/ cut' = cut
      BY <1>5 DEF RemoteBreaks
  <2>3. Undisturbed
      BY <2>1, <2>2 DEF Undisturbed
  <2>4. AllHeard
      BY <1>1, <2>1, <2>3
  <2> QED  BY <2>1, <2>4 DEF AllHeard
<1>6. CASE ReadCompletes
  <2>1. /\ UNCHANGED <<shut, disconnected, held, said, link, cut, received>>
        /\ UNCHANGED <<packets, closing>>
        /\ read'.op \in {"header_done", "body_done"}
      BY <1>6 DEF ReadCompletes, signals, writeVars
  <2>2. Undisturbed
      BY <1>3, <2>1
  <2>3. AllHeard
      BY <1>1, <2>1, <2>2
  <2> QED  BY <2>1, <2>3 DEF AllHeard
<1>7. CASE ReadFails
  <2>1. /\ UNCHANGED <<shut, disconnected, held, said, link, cut, received>>
        /\ UNCHANGED <<packets, closing>>
      BY <1>7 DEF ReadFails, remoteVars, signals, writeVars
  <2>2. Undisturbed
      BY <1>3, <2>1
  <2>3. Pending /\ ~Readable /\ (link # "up" \/ shut)
      BY <1>7 DEF ReadFails
  <2>4. CASE shut
    <3>1. AllHeard
        BY <1>1, <2>1, <2>2, <2>4
    <3> QED  BY <2>1, <3>1 DEF AllHeard
  <2>5. CASE link # "up"
    <3>1. link = "eof" /\ ~cut
        BY <2>2, <2>5 DEF Undisturbed, ClientInv, TypeOK
    <3>2. Len(received) = Len(said)
        BY <2>3, <3>1, EndOfStream
    <3> QED  BY <2>1, <3>1, <3>2 DEF AllHeard
  <2> QED  BY <2>3, <2>4, <2>5
<1>8. CASE WriteSome \/ WriteFails \/ SendHandler \/ Over \/ UNCHANGED vars
  <2>1. /\ UNCHANGED <<shut, disconnected, read, held, said, link, cut, received>>
        /\ UNCHANGED <<packets, closing>>
      BY <1>8 DEF WriteSome, WriteFails, SendHandler, Over, vars, remoteVars,
                  signals, writeVars
  <2> QED  BY <1>2, <1>3, <2>1
<1>9. CASE Owner
  <2>1. packets \in Nat
      BY CountsAssumption DEF ClientInv, TypeOK
  <2>2. ~SendPacket
    <3>1. packets' = 0
        BY DEF Undisturbed
    <3>2. SendPacket => packets' = packets + 1
        BY DEF SendPacket
    <3> QED  BY <2>1, <3>1, <3>2
  <2>3. ~Shutdown
      BY DEF Shutdown, CallsShutdown, Undisturbed
  <2>4. ~Release
      BY DEF Release, Settle
  <2> QED  BY <1>9, <2>2, <2>3, <2>4 DEF Owner
<1>10. ~ReadHandlerOrphaned \/ held
    BY DEF ReadHandlerOrphaned
<1>11. ASSUME ReadHandlerFails, held, failed \/ premise
       PROVE  AllHeard'
  <2>1. UNCHANGED <<said, link, cut, received, packets, closing>>
      BY <1>11 DEF ReadHandlerFails, Disconnect, remoteVars
  <2>2. Undisturbed
      BY <1>3, <1>11, <2>1
  <2>3. AllHeard
      BY <1>1, <1>11, <2>2
  <2> QED  BY <2>1, <2>3 DEF AllHeard
<1>12. CASE ReceiveHeaderHandler
  <2> DEFINE h == decodeHeader(read.data, orders.local)
  <2>1. CASE ReadHandlerFails /\ held /\ read.op = "header_error"
      BY <1>11, <2>1
  <2>2. CASE /\ ReadHandlerFails /\ held /\ read.op = "header_done"
             /\ ~h.valid \/ Oversized(h.packetsize)
    <3>1. UNCHANGED <<said, link, cut, packets, closing>>
        BY <2>2 DEF ReadHandlerFails, remoteVars
    <3>2. Undisturbed
        BY <1>3, <2>2, <3>1
    <3>3. ~RefusedHeader(read.data, orders.local)
        BY <2>2, <3>2, ProperHeader DEF Undisturbed
    <3> QED  BY <2>2, <3>3 DEF RefusedHeader
  <2>3. CASE /\ held
             /\ IF h.packetsize < header_length
                  THEN service' = "terminated" /\ UNCHANGED read
                  ELSE /\ read' = [op     |-> "body",
                                   wanted |-> BodyLength(h.packetsize),
                                   data   |-> <<>>]
                       /\ UNCHANGED service
             /\ UNCHANGED <<remoteVars, held, shut, signals, writeVars, closing>>
    <3>1. /\ UNCHANGED <<shut, disconnected, said, link, cut, received>>
          /\ UNCHANGED <<packets, closing>>
          /\ read' = read \/ read'.op = "body"
        BY <2>3 DEF remoteVars, signals, writeVars
    <3>2. Undisturbed
        BY <1>3, <2>3, <3>1
    <3>3. AllHeard
        BY <1>1, <2>3, <3>1, <3>2
    <3> QED  BY <3>1, <3>3 DEF AllHeard
  <2> QED  BY <1>10, <1>12, <2>1, <2>2, <2>3
           DEF ReceiveHeaderHandler, ReadHandlerOrphaned
<1>13. CASE ReceiveBodyHandler
  <2>1. CASE ReadHandlerFails /\ held /\ read.op = "body_error"
      BY <1>11, <2>1
  <2>2. CASE Delivers
    <3>1. UNCHANGED <<said, link, cut, packets, disconnected>> /\ held
        BY <2>2 DEF Delivers, remoteVars
    <3>2. ~closing' /\ UNCHANGED <<shut, closing>>
        BY <2>2 DEF Delivers, CallsShutdown, Undisturbed
    <3>3. Undisturbed
        BY <1>3, <3>1, <3>2
    <3>4. read'.op = "header"
        BY <2>2 DEF Delivers, Settle, HeaderRead
    <3>5. AllHeard
        BY <1>1, <3>1, <3>2, <3>3, <3>4
    <3>6. Len(received) < Len(said) /\ Len(said) \in Nat /\ Len(received) \in Nat
        BY <2>2, DeliversHearing, Places
    <3> QED  BY <3>5, <3>6 DEF AllHeard
  <2> QED  BY <1>10, <1>13, <2>1, <2>2
           DEF ReceiveBodyHandler, ReadHandlerOrphaned, Delivers
<1>14. CASE SendHandlerError
  <2>1. /\ UNCHANGED <<said, link, cut, packets, closing>>
        /\ held /\ writesFailed > 0
      BY <1>14 DEF SendHandlerError, remoteVars, Disconnect
  <2>2. packets = 0
      BY <2>1 DEF Undisturbed
  <2> QED  BY <2>1, <2>2 DEF HeardInv, NothingToFail
<1> QED  BY <1>4, <1>5, <1>6, <1>7, <1>8, <1>9, <1>12, <1>13, <1>14
         DEF Next, Remote, Reactor, Handlers

(* A remote host that sends proper packets only and closes is heard to the *)
(* end before its owner is told that it has gone, however the completions, *)
(* the end of the stream and the handlers follow one another, unless the   *)
(* owner sent something or shut the connection down itself.                *)
THEOREM HeardToTheEnd ==
    ASSUME MessagesFit, OthersAreRefused
    PROVE  Spec => []HeardOut
<1>1. Init => HeardInv
    BY InitHeard
<1>2. ClientInv /\ HearingInv /\ HeardInv /\ [Next]_vars => HeardInv'
    BY NothingToFailKept, EndsHeardKept DEF HeardInv
<1>3. HeardInv => HeardOut
    BY DEF HeardInv, EndsHeard, HeardOut, Undisturbed, AllHeard
<1> QED  BY <1>1, <1>2, <1>3, ClientInvariant, ReceiveInStep, PTL DEF Spec
=============================================================================
