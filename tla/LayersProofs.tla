----------------------------- MODULE LayersProofs -----------------------------
(***************************************************************************)
(* Theorems about the message layers: what one host writes another reads,  *)
(* whatever their byte orders, for messages of every length.               *)
(***************************************************************************)
EXTENDS Layers, SequenceTheorems, TLAPS

-----------------------------------------------------------------------------
(* Words *)

\* A word is a sequence of as many bytes as it is wide.
LEMMA WordIsSeq ==
    ASSUME NEW w \in Nat, NEW x \in Word(w)
    PROVE  x \in Seq(Byte) /\ Len(x) = w /\ DOMAIN x = 1..w
BY DEF Word

LEMMA ReverseWord ==
    ASSUME NEW w \in Nat, NEW x \in Word(w)
    PROVE  /\ Reverse(x) \in Word(w)
           /\ \A i \in 1..w : Reverse(x)[i] = x[(w - i) + 1]
<1>1. Len(x) = w
    BY WordIsSeq
<1>2. \A i \in 1..w : (w - i) + 1 \in 1..w
    OBVIOUS
<1>3. Reverse(x) = [i \in 1..w |-> x[(w - i) + 1]]
    BY <1>1 DEF Reverse
<1> QED  BY <1>2, <1>3 DEF Word

LEMMA ReverseTwice ==
    ASSUME NEW w \in Nat, NEW x \in Word(w)
    PROVE  Reverse(Reverse(x)) = x
<1> DEFINE y == Reverse(x)
           z == Reverse(y)
<1>1. y \in Word(w) /\ \A i \in 1..w : y[i] = x[(w - i) + 1]
    BY ReverseWord
<1>2. z \in Word(w) /\ \A i \in 1..w : z[i] = y[(w - i) + 1]
    BY <1>1, ReverseWord
<1> HIDE DEF y, z
<1>3. ASSUME NEW i \in 1..w
      PROVE  z[i] = x[i]
  <2>1. (w - i) + 1 \in 1..w /\ (w - ((w - i) + 1)) + 1 = i
      OBVIOUS
  <2> QED  BY <1>1, <1>2, <2>1
<1>4. z = x
    BY <1>2, <1>3 DEF Word
<1> QED  BY <1>4 DEF y, z

\* The shifts and masks of the specialisations do what the general template
\* does.
LEMMA ReversebytesReverses ==
    ASSUME NEW w \in Nat, NEW x \in Word(w)
    PROVE  reversebytes(x) = Reverse(x)
<1>1. Len(x) = w
    BY WordIsSeq
<1>2. CASE w = 2
  <2>1. x[1] \in Byte /\ x[2] \in Byte
      BY <1>2 DEF Word
  <2>2. reversebytes2(x) = [i \in 1..2 |-> IF i = 1 THEN x[2] ELSE x[1]]
      BY <1>1, <1>2, <2>1
      DEF reversebytes2, Either, ShiftLeft, ShiftRight, Byte
  <2>3. Reverse(x) = [i \in 1..2 |-> IF i = 1 THEN x[2] ELSE x[1]]
      BY <1>1, <1>2 DEF Reverse
  <2> QED  BY <1>1, <1>2, <2>2, <2>3 DEF reversebytes
<1>3. CASE w = 4
  <2> DEFINE r == [i \in 1..4 |-> x[5 - i]]
             a == ShiftLeft(x, 3)
             b == ByteOf(ShiftLeft(x, 1), 3)
             c == ByteOf(ShiftRight(x, 1), 2)
             d == ShiftRight(x, 3)
  <2>1. x[1] \in Byte /\ x[2] \in Byte /\ x[3] \in Byte /\ x[4] \in Byte
      BY <1>3 DEF Word
  <2>2. a = [i \in 1..4 |-> IF i = 4 THEN x[1] ELSE 0]
      BY <1>1, <1>3 DEF ShiftLeft
  <2>3. b = [i \in 1..4 |-> IF i = 3 THEN x[2] ELSE 0]
      BY <1>1, <1>3 DEF ShiftLeft, ByteOf
  <2>4. c = [i \in 1..4 |-> IF i = 2 THEN x[3] ELSE 0]
      BY <1>1, <1>3 DEF ShiftRight, ByteOf
  <2>5. d = [i \in 1..4 |-> IF i = 1 THEN x[4] ELSE 0]
      BY <1>1, <1>3 DEF ShiftRight
  <2>6. reversebytes4(x) = Either(Either(a, b), Either(c, d))
      BY DEF reversebytes4
  <2> HIDE DEF a, b, c, d
  <2>7. Either(a, b) = [i \in 1..4 |-> IF i = 4 THEN x[1]
                                       ELSE IF i = 3 THEN x[2] ELSE 0]
      BY <2>1, <2>2, <2>3 DEF Either, Byte
  <2>8. Either(c, d) = [i \in 1..4 |-> IF i = 2 THEN x[3]
                                       ELSE IF i = 1 THEN x[4] ELSE 0]
      BY <2>1, <2>4, <2>5 DEF Either, Byte
  <2>9. reversebytes4(x) = r
    <3> DEFINE ab == Either(a, b)
               cd == Either(c, d)
    <3>1. reversebytes4(x) = [i \in 1..Len(ab) |-> ab[i] + cd[i]]
        BY <2>6 DEF Either
    <3>2. /\ Len(ab) = 4
          /\ \A i \in 1..4 : ab[i] = IF i = 4 THEN x[1]
                                     ELSE IF i = 3 THEN x[2] ELSE 0
        BY <2>7
    <3>3. \A i \in 1..4 : cd[i] = IF i = 2 THEN x[3]
                                  ELSE IF i = 1 THEN x[4] ELSE 0
        BY <2>8
    <3> HIDE DEF ab, cd
    <3>4. \A i \in 1..4 : ab[i] + cd[i] = x[5 - i]
        BY <2>1, <3>2, <3>3, SMTT(20) DEF Byte
    <3> QED  BY <3>1, <3>2, <3>4
  <2>10. Reverse(x) = r
      BY <1>1, <1>3 DEF Reverse
  <2> QED  BY <1>1, <1>3, <2>9, <2>10 DEF reversebytes
<1>4. CASE w \notin {2, 4}
    BY <1>1, <1>4 DEF reversebytes
<1> QED  BY <1>2, <1>3, <1>4

(* Whatever the byte order of a host, a number leaves it with the least    *)
(* significant byte first, and what comes in that order is read correctly: *)
(* to_netbo with writebytes, readbytes with to_hostbo.                     *)
THEOREM WireOrder ==
    ASSUME NEW w \in Nat, NEW x \in Word(w), NEW order \in Orders
    PROVE  PutWord(x, order) = x /\ GetWord(x, order) = x
<1>1. reversebytes(x) = Reverse(x)
    BY ReversebytesReverses
<1>2. Reverse(x) \in Word(w)
    BY ReverseWord
<1>3. reversebytes(Reverse(x)) = Reverse(Reverse(x))
    BY <1>2, ReversebytesReverses
<1>4. Reverse(Reverse(x)) = x
    BY ReverseTwice
<1> QED  BY <1>1, <1>3, <1>4 DEF PutWord, GetWord, InMemory, to_netbo
\* u consists of the m bytes of s and, after them, the n bytes of t.
Joined(u, s, m, t, n) ==
    /\ u \in Seq(Byte)
    /\ Len(u) = m + n
    /\ \A i \in 1..m : u[i] = s[i]
    /\ \A i \in 1..n : u[m + i] = t[i]
    /\ \A i, j \in 1..m : SubSeq(u, i, j) = SubSeq(s, i, j)
    /\ SubSeq(u, m + 1, m + n) = t

LEMMA Pieces ==
    ASSUME NEW s \in Seq(Byte), NEW t \in Seq(Byte), Len(s) > 0
    PROVE  Joined(s \o t, s, Len(s), t, Len(t))
<1> USE DEF Joined
<1>1. Len(s) \in Nat /\ Len(t) \in Nat
    BY LenProperties
<1>2. /\ s \o t \in Seq(Byte)
      /\ Len(s \o t) = Len(s) + Len(t)
      /\ \A i \in 1..Len(s) : (s \o t)[i] = s[i]
      /\ \A i \in 1..Len(t) : (s \o t)[Len(s) + i] = t[i]
    BY <1>1, ConcatProperties
<1>3. \A i, j \in 1..Len(s) : SubSeq(s \o t, i, j) = SubSeq(s, i, j)
    BY SubSeqOfConcat1
<1>4. CASE t = <<>>
    BY <1>1, <1>2, <1>3, <1>4, SubSeqEmpty
<1>5. CASE t # <<>>
  <2>1. Len(t) \in Nat \ {0}
      BY <1>5, EmptySeq
  <2> DEFINE first == Len(s) + 1
             last == Len(s) + Len(t)
  <2>2. first \in first..last /\ last \in first..last
      BY <1>1, <2>1
  <2>3. SubSeq(s \o t, first, last)
            = SubSeq(t, first - Len(s), last - Len(s))
      BY <2>2, SubSeqOfConcat2
  <2>4. first - Len(s) = 1 /\ last - Len(s) = Len(t)
      BY <1>1
  <2>5. SubSeq(s \o t, first, last) = t
      BY <2>3, <2>4, SubSeqFull
  <2> QED  BY <1>2, <1>3, <2>5
<1> QED  BY <1>4, <1>5

-----------------------------------------------------------------------------
(* SegmentationLayer *)

\* The two bytes of a number below 2^16 stand for it.
LEMMA uint2bNumber ==
    ASSUME NEW n \in Nat
    PROVE  /\ uint2b(n) \in Word(2)
           /\ Number(uint2b(n)) = n % 65536
<1>1. n % 256 \in Byte /\ (n \div 256) % 256 \in Byte
    BY DEF Byte
<1>2. uint2b(n) \in Word(2)
    BY <1>1 DEF uint2b, Word
<1>3. (n % 256) + 256 * ((n \div 256) % 256) = n % 65536
    OBVIOUS
<1> QED  BY <1>2, <1>3 DEF Number, uint2b

(* A header is understood by a host of any byte order, and announces the   *)
(* size of the packet modulo 2^16: the size field has two bytes, and       *)
(* nothing keeps a longer packet from being sent.                          *)
THEOREM HeaderUnderstood ==
    ASSUME NEW n \in Nat, NEW sender \in Orders, NEW receiver \in Orders
    PROVE  decodeHeader(SegmentationHeader(n, sender), receiver)
               = [valid |-> TRUE, packetsize |-> n % 65536]
<1> DEFINE word == uint2b(n)
           h == SegmentationHeader(n, sender)
<1>1. word \in Word(2) /\ Number(word) = n % 65536
    BY uint2bNumber
<1>2. PutWord(word, sender) = word /\ GetWord(word, receiver) = word
    BY <1>1, WireOrder
<1>3. word = <<n % 256, (n \div 256) % 256>>
    BY DEF uint2b
<1>4. h = <<SEGMENTATION_ID>> \o word \o <<0>>
    BY <1>2 DEF SegmentationHeader
<1> DEFINE id == <<SEGMENTATION_ID>>
           zero == <<0>>
           front == id \o word
<1> HIDE DEF word, h, front
<1>5. word \in Seq(Byte) /\ Len(word) = 2
  <2>1. word \in Word(2)
      BY <1>1
  <2> QED  BY <2>1, WordIsSeq
<1>6. /\ id \in Seq(Byte) /\ Len(id) = 1 /\ id[1] = SEGMENTATION_ID
      /\ zero \in Seq(Byte) /\ Len(zero) = 1 /\ zero[1] = 0
    BY DEF SEGMENTATION_ID, Byte
<1> HIDE DEF id, zero
<1>7. /\ h[1] = SEGMENTATION_ID /\ h[4] = 0
      /\ h[2] = word[1] /\ h[3] = word[2]
  <2>1. Joined(front, id, 1, word, 2)
    <3>1. Len(id) > 0
        BY <1>5, <1>6
    <3>2. Joined(id \o word, id, Len(id), word, Len(word))
        BY <1>5, <1>6, <3>1, Pieces
    <3> QED  BY <1>5, <1>6, <3>2 DEF front
  <2>2. front \in Seq(Byte) /\ Len(front) = 3
      BY <2>1 DEF Joined
  <2>3. h = front \o zero
      BY <1>4 DEF id, zero, front
  <2>4. Joined(h, front, 3, zero, 1)
    <3>1. Len(front) > 0
        BY <1>6, <2>2, <2>3
    <3>2. Joined(front \o zero, front, Len(front), zero, Len(zero))
        BY <1>6, <2>2, <2>3, <3>1, Pieces
    <3> QED  BY <1>6, <2>2, <2>3, <3>2
  <2>5. /\ front[1] = id[1] /\ front[1 + 1] = word[1] /\ front[1 + 2] = word[2]
      BY <2>1 DEF Joined
  <2>6. /\ h[1] = front[1] /\ h[2] = front[2] /\ h[3] = front[3]
        /\ h[3 + 1] = zero[1]
      BY <2>4 DEF Joined
  <2> QED  BY <1>6, <2>5, <2>6
<1>8. <<h[2], h[3]>> = word
    BY <1>3, <1>7
<1>9. decodeHeader(h, receiver)
          = [valid |-> TRUE, packetsize |-> Number(word)]
    BY <1>2, <1>7, <1>8 DEF decodeHeader
<1> QED  BY <1>1, <1>9 DEF h

-----------------------------------------------------------------------------
(* NearUserMessage *)

\* A character of one byte has no byte order.
LEMMA TextUnchanged ==
    ASSUME NEW text \in Seq(Byte), NEW order \in Orders
    PROVE  /\ StringSerialized(text, order) = text
           /\ StringDecoded(text, order) = text
<1>1. ASSUME NEW i \in 1..Len(text)
      PROVE  /\ PutWord(<<text[i]>>, order)[1] = text[i]
             /\ GetWord(<<text[i]>>, order)[1] = text[i]
  <2> DEFINE c == <<text[i]>>
  <2>1. c \in Word(1) /\ c[1] = text[i]
      BY DEF Word
  <2> HIDE DEF c
  <2>2. PutWord(c, order) = c /\ GetWord(c, order) = c
      BY <2>1, WireOrder
  <2> QED  BY <2>1, <2>2 DEF c
<1>2. text = [i \in 1..Len(text) |-> text[i]]
    BY LenProperties
<1>3. StringSerialized(text, order) = [i \in 1..Len(text) |-> text[i]]
    BY <1>1, Zenon DEF StringSerialized
<1>4. StringDecoded(text, order) = [i \in 1..Len(text) |-> text[i]]
    BY <1>1, Zenon DEF StringDecoded
<1> QED  BY <1>2, <1>3, <1>4

(* A NearUserMessage is constructed again, field by field, from what       *)
(* another host serialized, whatever the byte orders and however long the  *)
(* text is.                                                                *)
THEOREM NearUnderstood ==
    ASSUME NEW m \in NearUserMessage,
           NEW sender \in Orders, NEW receiver \in Orders
    PROVE  LET d == NearSerialized(m, sender)
           IN  NearError(d) = "none" /\ NearDecoded(d, receiver) = m
<1> DEFINE d == NearSerialized(m, sender)
           id == m.msg_id
           to == m.recipient
           from == m.sender
           text == m.text
           kind == <<NEAR_ID>>
           s1 == kind \o id
           s2 == s1 \o to
           s3 == s2 \o from
<1>1. id \in Word(4) /\ to \in Word(8) /\ from \in Word(8) /\ text \in Seq(Byte)
    BY DEF NearUserMessage
<1>2. /\ PutWord(id, sender) = id /\ GetWord(id, receiver) = id
      /\ PutWord(to, sender) = to /\ GetWord(to, receiver) = to
      /\ PutWord(from, sender) = from /\ GetWord(from, receiver) = from
    BY <1>1, WireOrder
<1>3. d = s3 \o text
  <2>1. StringSerialized(text, sender) = text
      BY <1>1, TextUnchanged
  <2> QED  BY <1>2, <2>1 DEF NearSerialized
<1>4. /\ id \in Seq(Byte) /\ Len(id) = 4
      /\ to \in Seq(Byte) /\ Len(to) = 8
      /\ from \in Seq(Byte) /\ Len(from) = 8
    BY <1>1, WordIsSeq
<1>5. m = [msg_id |-> id, recipient |-> to, sender |-> from, text |-> text]
    BY DEF NearUserMessage
<1>6. kind \in Seq(Byte) /\ Len(kind) = 1 /\ kind[1] = NEAR_ID
    BY DEF NEAR_ID, Byte
<1> HIDE DEF d, kind, id, to, from, text, s1, s2, s3
<1>7. /\ s1 \in Seq(Byte) /\ Len(s1) = 5 /\ s1[1] = NEAR_ID
      /\ SubSeq(s1, 2, 5) = id
  <2>1. Joined(s1, kind, 1, id, 4)
    <3>1. Len(kind) > 0
        BY <1>4, <1>6
    <3>2. Joined(kind \o id, kind, Len(kind), id, Len(id))
        BY <1>4, <1>6, <3>1, Pieces
    <3> QED  BY <1>4, <1>6, <3>2 DEF s1
  <2> QED  BY <1>6, <2>1 DEF Joined
<1>8. /\ s2 \in Seq(Byte) /\ Len(s2) = 13 /\ s2[1] = NEAR_ID
      /\ SubSeq(s2, 2, 5) = id /\ SubSeq(s2, 6, 13) = to
  <2>1. Joined(s2, s1, 5, to, 8)
    <3>1. Len(s1) > 0
        BY <1>4, <1>7
    <3>2. Joined(s1 \o to, s1, Len(s1), to, Len(to))
        BY <1>4, <1>7, <3>1, Pieces
    <3> QED  BY <1>4, <1>7, <3>2 DEF s2
  <2> QED  BY <1>7, <2>1 DEF Joined
<1>9. /\ s3 \in Seq(Byte) /\ Len(s3) = 21 /\ s3[1] = NEAR_ID
      /\ SubSeq(s3, 2, 5) = id /\ SubSeq(s3, 6, 13) = to
      /\ SubSeq(s3, 14, 21) = from
  <2>1. Joined(s3, s2, 13, from, 8)
    <3>1. Len(s2) > 0
        BY <1>4, <1>8
    <3>2. Joined(s2 \o from, s2, Len(s2), from, Len(from))
        BY <1>4, <1>8, <3>1, Pieces
    <3> QED  BY <1>4, <1>8, <3>2 DEF s3
  <2> QED  BY <1>8, <2>1 DEF Joined
<1>10. text \in Seq(Byte) /\ Len(text) \in Nat
    BY <1>1, LenProperties DEF text
<1>11. Joined(d, s3, 21, text, Len(text))
  <2>1. Len(s3) > 0
      BY <1>3, <1>9, <1>10
  <2>2. Joined(s3 \o text, s3, Len(s3), text, Len(text))
      BY <1>3, <1>9, <1>10, <2>1, Pieces
  <2> QED  BY <1>3, <1>9, <1>10, <2>2
<1>12. /\ Len(d) = 21 + Len(text) /\ d[1] = NEAR_ID
       /\ SubSeq(d, 2, 5) = id /\ SubSeq(d, 6, 13) = to
       /\ SubSeq(d, 14, 21) = from /\ SubSeq(d, 22, Len(d)) = text
  <2> DEFINE n == Len(text)
  <2>1. Joined(d, s3, 21, text, n) /\ n \in Nat
      BY <1>10, <1>11
  <2> HIDE DEF n
  <2>2. /\ Len(d) = 21 + n
        /\ SubSeq(d, 21 + 1, 21 + n) = text
      BY <2>1, Zenon DEF Joined
  <2>3. \A i \in 1..21 : d[i] = s3[i]
      BY <2>1, Zenon DEF Joined
  <2>4. \A i, j \in 1..21 : SubSeq(d, i, j) = SubSeq(s3, i, j)
      BY <2>1, Zenon DEF Joined
  <2>5. 21 + 1 = 22 /\ {1, 2, 5, 6, 13, 14, 21} \subseteq 1..21
      OBVIOUS
  <2>6. d[1] = s3[1]
      BY <2>3, <2>5, Zenon
  <2>7. /\ SubSeq(d, 2, 5) = SubSeq(s3, 2, 5)
        /\ SubSeq(d, 6, 13) = SubSeq(s3, 6, 13)
        /\ SubSeq(d, 14, 21) = SubSeq(s3, 14, 21)
      BY <2>4, <2>5, Zenon
  <2>8. SubSeq(d, 22, Len(d)) = text
      BY <2>2, <2>5, Zenon
  <2> QED  BY <1>9, <2>2, <2>6, <2>7, <2>8, Zenon DEF n
<1>13. NearError(d) = "none"
    BY <1>10, <1>12 DEF NearError, near_header_length
<1>14. NearDecoded(d, receiver) = m
  <2>1. StringDecoded(text, receiver) = text
      BY <1>10, TextUnchanged
  <2> QED  BY <1>2, <1>5, <1>12, <2>1 DEF NearDecoded, id, to, from, text
<1> QED  BY <1>13, <1>14 DEF d

=============================================================================
