------------------------ MODULE ConnectedClientProofs ------------------------
(***************************************************************************)
(* Theorems about one client of the new server, for all messages, packets  *)
(* and bounds: type correctness, no deaf connection whose owner does not   *)
(* know, no packet dropped without a word.                                 *)
(***************************************************************************)
EXTENDS ConnectedClient, LayersProofs

-----------------------------------------------------------------------------
(* Sequences of bytes *)

\* A stretch of a sequence of bytes.
LEMMA Stretch ==
    ASSUME NEW s \in Seq(Byte), NEW m \in Nat \ {0}, NEW n \in Nat,
           n <= Len(s)
    PROVE  /\ SubSeq(s, m, n) \in Seq(Byte)
           /\ m = 1 => Len(SubSeq(s, m, n)) = n
<1>1. Len(s) \in Nat
    BY LenProperties
<1>2. \A i \in m..n : i \in 1..Len(s)
    BY <1>1
<1>3. \A i \in m..n : s[i] \in Byte
    BY <1>2, ElementOfSeq
<1> QED  BY <1>3, SubSeqProperties

\* What a remote host sends for a message is a sequence of bytes.
LEMMA PacketBytes ==
    ASSUME NEW m \in Messages, NEW order \in Orders
    PROVE  Segmented(NearSerialized(m, order), order) \in Seq(Byte)
<1> DEFINE d == NearSerialized(m, order)
           n == Len(d) + header_length
<1>1. /\ m.msg_id \in Word(4) /\ m.recipient \in Word(8)
      /\ m.sender \in Word(8) /\ m.text \in Seq(Byte)
    BY MessagesAssumption DEF NearUserMessage
<1>2. /\ PutWord(m.msg_id, order) \in Seq(Byte)
      /\ PutWord(m.recipient, order) \in Seq(Byte)
      /\ PutWord(m.sender, order) \in Seq(Byte)
    BY <1>1, WireOrder, WordIsSeq
<1>3. StringSerialized(m.text, order) \in Seq(Byte)
    BY <1>1, TextUnchanged
<1>4. <<NEAR_ID>> \in Seq(Byte) /\ <<SEGMENTATION_ID>> \in Seq(Byte)
      /\ <<0>> \in Seq(Byte)
    BY DEF NEAR_ID, SEGMENTATION_ID, Byte
<1>5. d \in Seq(Byte)
    BY <1>2, <1>3, <1>4, ConcatProperties DEF NearSerialized
<1>6. n \in Nat
    BY <1>5, LenProperties DEF header_length
<1>7. PutWord(uint2b(n), order) \in Seq(Byte)
    BY <1>6, uint2bNumber, WireOrder, WordIsSeq
<1>8. SegmentationHeader(n, order) \in Seq(Byte)
    BY <1>4, <1>7, ConcatProperties DEF SegmentationHeader
<1> QED  BY <1>5, <1>8, ConcatProperties DEF Segmented

\* The size a header announces is a number.
LEMMA AnnouncedSize ==
    ASSUME NEW h \in Seq(Byte), Len(h) = header_length, NEW order \in Orders
    PROVE  decodeHeader(h, order).packetsize \in Nat
<1> DEFINE x == <<h[2], h[3]>>
<1>1. h[2] \in Byte /\ h[3] \in Byte
  <2>1. 2 \in 1..Len(h) /\ 3 \in 1..Len(h)
      BY DEF header_length
  <2> QED  BY <2>1, ElementOfSeq
<1>2. x \in Word(2)
    BY <1>1 DEF Word
<1>3. GetWord(x, order) = x
    BY <1>2, WireOrder
<1>4. Number(x) \in Nat
  <2>1. \A a, b \in Byte : a + 256 * b \in Nat
      BY DEF Byte
  <2>2. x[1] \in Byte /\ x[2] \in Byte
      BY <1>1
  <2> HIDE DEF x
  <2> QED  BY <2>1, <2>2, Zenon DEF Number
<1> QED  BY <1>3, <1>4 DEF decodeHeader

-----------------------------------------------------------------------------
(* What the operators shared by several actions do *)

\* An aborted receive is never pending, and a receive stays one.
LEMMA AbortStep ==
    ASSUME NEW r \in ReadOp, Whole(r)
    PROVE  /\ Abort(r) \in ReadOp
           /\ Whole(Abort(r))
           /\ Abort(r).op = "none" => r.op = "none"
BY DEF Abort, ReadOp, ReadStates, Whole

LEMMA SettleStep ==
    ASSUME NEW keeps \in BOOLEAN, NEW r \in ReadOp, Whole(r),
           NEW q \in Seq(WriteOp), NEW failed \in Nat,
           Settle(keeps, r, q, failed)
    PROVE  /\ held' = keeps
           /\ read' \in ReadOp /\ Whole(read')
           /\ writeQ' \in Seq(WriteOp)
           /\ writesFailed' \in Nat
           /\ keeps => read' = r /\ writeQ' = q /\ writesFailed' = failed
<1>1. CASE keeps
    BY <1>1 DEF Settle
<1>2. CASE ~keeps
  <2>1. Len(q) \in Nat
      BY LenProperties
  <2>2. <<>> \in Seq(WriteOp)
      BY EmptySeq
  <2> QED  BY <1>2, <2>1, <2>2, AbortStep DEF Settle
<1> QED  BY <1>1, <1>2

\* The receives the handlers start or leave.
LEMMA ReadTypes ==
    /\ HeaderRead \in ReadOp /\ Whole(HeaderRead) /\ HeaderRead.op # "none"
    /\ NoRead \in ReadOp /\ Whole(NoRead)
<1>1. <<>> \in Seq(Byte)
    BY EmptySeq
<1> QED  BY <1>1 DEF HeaderRead, NoRead, ReadOp, ReadStates, Whole,
                     header_length

\* Disconnect keeps the invariant's conjuncts that it can disturb.
LEMMA DisconnectStep ==
    ASSUME ClientInv, NEW r \in ReadOp, Whole(r), NEW failed \in Nat,
           Disconnect(r, failed)
    PROVE  /\ shut' \in BOOLEAN /\ held' \in BOOLEAN
           /\ disconnected' \in Nat /\ disconnected' > 0 /\ shut'
           /\ read' \in ReadOp /\ Whole(read')
           /\ writeQ' \in Seq(WriteOp) /\ writesFailed' \in Nat
           /\ received' \in Seq(Seq(Byte))
<1>1. writeQ \in Seq(WriteOp) /\ disconnected \in Nat
      /\ received \in Seq(Seq(Byte))
    BY DEF ClientInv, TypeOK
<1>2. PICK keeps \in BOOLEAN : Settle(keeps, r, writeQ, failed)
    BY DEF Disconnect
<1>3. /\ held' = keeps /\ read' \in ReadOp /\ Whole(read')
      /\ writeQ' \in Seq(WriteOp) /\ writesFailed' \in Nat
    BY <1>1, <1>2, SettleStep
<1> QED  BY <1>1, <1>3 DEF Disconnect

-----------------------------------------------------------------------------
(* The invariant *)

LEMMA InitClientInv == Init => ClientInv
<1> SUFFICES ASSUME Init PROVE ClientInv
    OBVIOUS
<1>1. /\ <<>> \in Seq(Byte) /\ <<>> \in Seq(Utterances)
      /\ <<>> \in Seq(Seq(Byte)) /\ <<>> \in Seq(WriteOp)
    BY EmptySeq
<1>2. TypeOK
  <2>1. /\ read \in ReadOp /\ packets \in 0..MaxPackets
        /\ disconnected \in Nat /\ writesOk \in Nat /\ writesFailed \in Nat
      BY ReadTypes, CountsAssumption DEF Init
  <2>2. /\ stream \in Seq(Byte) /\ said \in Seq(Utterances)
        /\ received \in Seq(Seq(Byte)) /\ writeQ \in Seq(WriteOp)
      BY <1>1 DEF Init
  <2>3. /\ orders \in [{"remote", "local"} -> Orders]
        /\ service \in {"running", "terminated"}
        /\ link \in {"up", "eof", "reset"}
        /\ held \in BOOLEAN /\ shut \in BOOLEAN /\ cut \in BOOLEAN
        /\ closing \in BOOLEAN /\ written \subseteq 1..MaxPackets
      BY DEF Init
  <2> QED  BY <2>1, <2>2, <2>3 DEF TypeOK
<1>3. Whole(read) /\ DeafIsKnown
    BY ReadTypes DEF Init, DeafIsKnown
<1>4. PacketsAccounted
    BY DEF Init, PacketsAccounted
<1> QED  BY <1>2, <1>3, <1>4 DEF ClientInv

LEMMA RemoteSendsStep == ClientInv /\ RemoteSends => ClientInv'
<1> SUFFICES ASSUME ClientInv, RemoteSends PROVE ClientInv'
    OBVIOUS
<1> USE DEF ClientInv
<1>1. stream' \in Seq(Byte) /\ said' \in Seq(Utterances)
  <2>1. stream \in Seq(Byte) /\ said \in Seq(Utterances)
        /\ orders.remote \in Orders
      BY DEF TypeOK
  <2>2. CASE \E m \in Messages :
               /\ said' = Append(said, <<m>>)
               /\ stream' = stream \o
                      Segmented(NearSerialized(m, orders.remote), orders.remote)
    <3>1. PICK m \in Messages :
             /\ said' = Append(said, <<m>>)
             /\ stream' = stream \o
                    Segmented(NearSerialized(m, orders.remote), orders.remote)
        BY <2>2
    <3>2. <<m>> \in Utterances
        BY DEF Utterances
    <3>3. said' \in Seq(Utterances)
        BY <2>1, <3>1, <3>2, AppendProperties
    <3>4. Segmented(NearSerialized(m, orders.remote), orders.remote) \in Seq(Byte)
        BY <2>1, PacketBytes
    <3>5. stream' \in Seq(Byte)
        BY <2>1, <3>1, <3>4, ConcatProperties
    <3> QED  BY <3>3, <3>5
  <2>3. CASE \E f \in BadFrames :
               /\ said' = Append(said, <<>>)
               /\ stream' = stream \o f
    <3>1. PICK f \in BadFrames : said' = Append(said, <<>>) /\ stream' = stream \o f
        BY <2>3
    <3>2. <<>> \in Utterances
        BY DEF Utterances
    <3>3. said' \in Seq(Utterances)
        BY <2>1, <3>1, <3>2, AppendProperties
    <3>4. f \in Seq(Byte)
        BY BadFramesAssumption
    <3>5. stream' \in Seq(Byte)
        BY <2>1, <3>1, <3>4, ConcatProperties
    <3> QED  BY <3>3, <3>5
  <2> QED  BY <2>2, <2>3 DEF RemoteSends
<1>2. TypeOK'
    BY <1>1 DEF TypeOK, RemoteSends, signals, writeVars
<1>3. Whole(read)' /\ DeafIsKnown'
    BY DEF RemoteSends, DeafIsKnown, Whole, signals
<1>4. PacketsAccounted'
    BY DEF RemoteSends, PacketsAccounted, signals, writeVars
<1> QED  BY <1>2, <1>3, <1>4

LEMMA RemoteBreaksStep == ClientInv /\ RemoteBreaks => ClientInv'
<1> SUFFICES ASSUME ClientInv, RemoteBreaks PROVE ClientInv'
    OBVIOUS
<1> USE DEF ClientInv
<1>1. stream' \in Seq(Byte)
  <2>1. stream \in Seq(Byte) /\ Len(stream) \in Nat
      BY LenProperties DEF TypeOK
  <2>2. CASE stream # <<>> /\ stream' = Front(stream)
    <3>1. Len(stream) - 1 \in Nat
        BY <2>1, <2>2, EmptySeq
    <3>2. SubSeq(stream, 1, Len(stream) - 1) \in Seq(Byte)
        BY <2>1, <3>1, Stretch
    <3> QED  BY <2>2, <3>2 DEF Front
  <2> QED  BY <2>1, <2>2 DEF RemoteBreaks
<1>2. link' \in {"eof", "reset"} /\ cut' \in BOOLEAN
    BY DEF RemoteBreaks, TypeOK
<1>3. TypeOK'
    BY <1>1, <1>2 DEF TypeOK, RemoteBreaks, signals, writeVars
<1>4. Whole(read)' /\ DeafIsKnown'
    BY DEF RemoteBreaks, DeafIsKnown, Whole, signals
<1>5. PacketsAccounted'
    BY DEF RemoteBreaks, PacketsAccounted, signals, writeVars
<1> QED  BY <1>3, <1>4, <1>5

LEMMA ReadCompletesStep == ClientInv /\ ReadCompletes => ClientInv'
<1> SUFFICES ASSUME ClientInv, ReadCompletes PROVE ClientInv'
    OBVIOUS
<1> USE DEF ClientInv
<1>1. stream \in Seq(Byte) /\ Len(stream) \in Nat /\ read.wanted \in Nat
      /\ read.wanted <= Len(stream)
    BY LenProperties DEF TypeOK, ReadOp, ReadCompletes, Readable
<1> DEFINE data == SubSeq(stream, 1, read.wanted)
<1>2. data \in Seq(Byte) /\ Len(data) = read.wanted
    BY <1>1, Stretch
<1>3. stream' \in Seq(Byte)
  <2>1. SubSeq(stream, read.wanted + 1, Len(stream)) \in Seq(Byte)
      BY <1>1, Stretch
  <2> QED  BY <2>1 DEF ReadCompletes
<1> HIDE DEF data
<1>4. read' = [op |-> IF read.op = "header" THEN "header_done" ELSE "body_done",
               wanted |-> 0, data |-> data]
    BY DEF ReadCompletes, data
<1>5. read' \in ReadOp
    BY <1>2, <1>4 DEF ReadOp, ReadStates
<1>6. Whole(read)'
    BY <1>2, <1>4 DEF Whole
<1>7. TypeOK'
    BY <1>3, <1>5 DEF TypeOK, ReadCompletes, signals, writeVars
<1>8. DeafIsKnown'
    BY <1>4 DEF DeafIsKnown
<1>9. PacketsAccounted'
    BY DEF ReadCompletes, PacketsAccounted, signals, writeVars
<1> QED  BY <1>6, <1>7, <1>8, <1>9

LEMMA ReadFailsStep == ClientInv /\ ReadFails => ClientInv'
<1> SUFFICES ASSUME ClientInv, ReadFails PROVE ClientInv'
    OBVIOUS
<1> USE DEF ClientInv
<1>1. read' \in ReadOp /\ Whole(read') /\ read'.op # "none"
  <2>1. read' = Abort(read) /\ read \in ReadOp /\ read.op # "none"
      BY DEF ReadFails, Pending, TypeOK
  <2> QED  BY <2>1, AbortStep
<1>2. TypeOK'
    BY <1>1 DEF TypeOK, ReadFails, remoteVars, signals, writeVars
<1>3. Whole(read)'
    BY <1>1 DEF Whole
<1>4. DeafIsKnown'
    BY <1>1 DEF DeafIsKnown
<1>5. PacketsAccounted'
    BY DEF ReadFails, PacketsAccounted, signals, writeVars
<1> QED  BY <1>2, <1>3, <1>4, <1>5

LEMMA WriteSomeStep == ClientInv /\ WriteSome => ClientInv'
<1> SUFFICES ASSUME ClientInv, WriteSome PROVE ClientInv'
    OBVIOUS
<1> USE DEF ClientInv
<1> DEFINE op == Head(writeQ)
           rest == Tail(writeQ)
<1>1. /\ writeQ \in Seq(WriteOp) /\ writeQ # <<>>
      /\ written \subseteq 1..MaxPackets /\ writesOk \in Nat
    BY DEF TypeOK, WriteSome
<1>2. /\ op \in WriteOp /\ rest \in Seq(WriteOp)
      /\ Len(rest) = Len(writeQ) - 1 /\ Len(rest) \in Nat
      /\ \A i \in 1..Len(rest) : rest[i] = writeQ[i + 1]
      /\ op = writeQ[1]
    BY <1>1, HeadTailProperties, LenProperties
<1>3. PICK n \in 1..(Chunks - op.taken) :
         IF op.taken + n = Chunks
           THEN /\ writeQ' = rest
                /\ writesOk' = writesOk + 1
                /\ written' = written \union {op.packet}
           ELSE /\ writeQ' = Append(rest, [op EXCEPT !.taken = @ + n])
                /\ UNCHANGED <<writesOk, written>>
    BY DEF WriteSome
<1> DEFINE more == [op EXCEPT !.taken = @ + n]
<1>4. more \in WriteOp /\ more.packet = op.packet /\ op.packet \in 1..MaxPackets
    BY <1>2, <1>3, CountsAssumption DEF WriteOp
<1> HIDE DEF op, rest, more
<1>5. \/ /\ writeQ' = rest /\ writesOk' = writesOk + 1
         /\ written' = written \union {op.packet}
      \/ writeQ' = Append(rest, more) /\ UNCHANGED <<writesOk, written>>
    BY <1>3 DEF more
<1>6. /\ writeQ' \in Seq(WriteOp) /\ writesOk' \in Nat
      /\ written' \subseteq 1..MaxPackets
  <2>1. written \union {op.packet} \subseteq 1..MaxPackets
      BY <1>1, <1>4
  <2>2. Append(rest, more) \in Seq(WriteOp)
      BY <1>2, <1>4, AppendProperties
  <2>3. writesOk + 1 \in Nat
      BY <1>1
  <2> QED  BY <1>1, <1>2, <1>5, <2>1, <2>2, <2>3
<1>7. TypeOK'
    BY <1>6 DEF TypeOK, WriteSome, remoteVars, signals
<1>8. Whole(read)' /\ DeafIsKnown'
    BY DEF WriteSome, DeafIsKnown, Whole, signals
<1>9. PacketsAccounted'
  <2> SUFFICES ASSUME held, NEW k \in 1..packets
               PROVE  \/ k \in written'
                      \/ \E i \in 1..Len(writeQ') : writeQ'[i].packet = k
                      \/ writesFailed > 0 \/ disconnected > 0
      BY DEF PacketsAccounted, WriteSome, signals
  <2>1. \/ k \in written
        \/ \E i \in 1..Len(writeQ) : writeQ[i].packet = k
        \/ writesFailed > 0 \/ disconnected > 0
      BY DEF PacketsAccounted
  <2>2. CASE k \in written
      BY <1>5, <2>2
  <2>3. ASSUME NEW i \in 1..Len(writeQ), writeQ[i].packet = k
        PROVE  \/ k \in written'
               \/ \E j \in 1..Len(writeQ') : writeQ'[j].packet = k
    <3>1. CASE i = 1
      <4>1. op.packet = k
          BY <1>2, <2>3, <3>1
      <4>2. CASE writeQ' = Append(rest, more)
        <5>1. Len(writeQ') = Len(rest) + 1 /\ writeQ'[Len(rest) + 1] = more
            BY <1>2, <1>4, <4>2, AppendProperties
        <5> QED  BY <1>2, <1>4, <4>1, <5>1
      <4> QED  BY <1>5, <4>1, <4>2
    <3>2. CASE i # 1
      <4>1. i - 1 \in 1..Len(rest) /\ rest[i - 1] = writeQ[i]
          BY <1>1, <1>2, <3>2, LenProperties
      <4>2. i - 1 \in 1..Len(writeQ') /\ writeQ'[i - 1] = writeQ[i]
          BY <1>2, <1>4, <1>5, <4>1, AppendProperties
      <4> QED  BY <2>3, <4>2
    <3> QED  BY <3>1, <3>2
  <2> QED  BY <2>1, <2>2, <2>3
<1> QED  BY <1>7, <1>8, <1>9

LEMMA WriteFailsStep == ClientInv /\ WriteFails => ClientInv'
<1> SUFFICES ASSUME ClientInv, WriteFails PROVE ClientInv'
    OBVIOUS
<1> USE DEF ClientInv
<1>1. writeQ' \in Seq(WriteOp) /\ writesFailed' \in Nat /\ writesFailed' > 0
    BY HeadTailProperties DEF TypeOK, WriteFails
<1>2. TypeOK'
    BY <1>1 DEF TypeOK, WriteFails, remoteVars, signals
<1>3. Whole(read)' /\ DeafIsKnown'
    BY DEF WriteFails, DeafIsKnown, Whole, signals
<1>4. PacketsAccounted'
    BY <1>1 DEF PacketsAccounted
<1> QED  BY <1>2, <1>3, <1>4

LEMMA SendPacketStep == ClientInv /\ SendPacket => ClientInv'
<1> SUFFICES ASSUME ClientInv, SendPacket PROVE ClientInv'
    OBVIOUS
<1> USE DEF ClientInv
<1> DEFINE op == [packet |-> packets + 1, taken |-> 0]
<1>1. /\ packets \in Nat /\ packets + 1 \in 1..MaxPackets
      /\ writeQ \in Seq(WriteOp)
      /\ packets' = packets + 1 /\ writeQ' = Append(writeQ, op)
    BY CountsAssumption DEF TypeOK, SendPacket, StartWrite
<1>2. op \in WriteOp /\ op.packet = packets + 1
    BY <1>1, CountsAssumption DEF WriteOp
<1> HIDE DEF op
<1>3. /\ writeQ' \in Seq(WriteOp) /\ Len(writeQ') = Len(writeQ) + 1
      /\ Len(writeQ) \in Nat
      /\ \A i \in 1..Len(writeQ) : writeQ'[i] = writeQ[i]
      /\ writeQ'[Len(writeQ) + 1] = op
    BY <1>1, <1>2, AppendProperties, LenProperties
<1>4. TypeOK'
    BY <1>1, <1>3 DEF TypeOK, SendPacket, remoteVars, signals
<1>5. Whole(read)' /\ DeafIsKnown'
    BY DEF SendPacket, DeafIsKnown, Whole, signals
<1>6. PacketsAccounted'
  <2> SUFFICES ASSUME NEW k \in 1..(packets + 1)
               PROVE  \/ k \in written
                      \/ \E i \in 1..Len(writeQ') : writeQ'[i].packet = k
                      \/ writesFailed > 0 \/ disconnected > 0
      BY <1>1 DEF PacketsAccounted, SendPacket, signals
  <2>1. CASE k = packets + 1
      BY <1>2, <1>3, <2>1
  <2>2. CASE k # packets + 1
    <3>1. k \in 1..packets
        BY <1>1, <2>2
    <3>2. held
        BY DEF SendPacket
    <3> QED  BY <1>3, <3>1, <3>2 DEF PacketsAccounted
  <2> QED  BY <2>1, <2>2
<1> QED  BY <1>4, <1>5, <1>6

LEMMA ShutdownStep == ClientInv /\ Shutdown => ClientInv'
<1> SUFFICES ASSUME ClientInv, Shutdown PROVE ClientInv'
    OBVIOUS
<1> USE DEF ClientInv, Shutdown, CallsShutdown
<1>1. TypeOK'
    BY DEF TypeOK, remoteVars, signals, writeVars
<1>2. Whole(read)' /\ DeafIsKnown'
    BY DEF DeafIsKnown, Whole, signals
<1>3. PacketsAccounted'
    BY DEF PacketsAccounted, signals, writeVars
<1> QED  BY <1>1, <1>2, <1>3

LEMMA ReleaseStep == ClientInv /\ Release => ClientInv'
<1> SUFFICES ASSUME ClientInv, Release PROVE ClientInv'
    OBVIOUS
<1> USE DEF ClientInv
<1>1. /\ read \in ReadOp /\ writeQ \in Seq(WriteOp) /\ writesFailed \in Nat
      /\ Settle(FALSE, read, writeQ, writesFailed)
    BY DEF TypeOK, Release
<1>2. /\ held' = FALSE /\ read' \in ReadOp /\ Whole(read')
      /\ writeQ' \in Seq(WriteOp) /\ writesFailed' \in Nat
    BY <1>1, SettleStep
<1>3. TypeOK'
    BY <1>2 DEF TypeOK, Release, remoteVars, signals
<1>4. Whole(read)'
    BY <1>2 DEF Whole
<1>5. DeafIsKnown' /\ PacketsAccounted'
    BY <1>2 DEF DeafIsKnown, PacketsAccounted
<1> QED  BY <1>3, <1>4, <1>5

\* A receive handler that ends the connection keeps the invariant.
LEMMA ReadHandlerFailsStep == ClientInv /\ ReadHandlerFails => ClientInv'
<1> SUFFICES ASSUME ClientInv, ReadHandlerFails PROVE ClientInv'
    OBVIOUS
<1> USE DEF ClientInv
<1>1. /\ NoRead \in ReadOp /\ Whole(NoRead) /\ writesFailed \in Nat
      /\ Disconnect(NoRead, writesFailed)
    BY ReadTypes DEF TypeOK, ReadHandlerFails
<1>2. /\ shut' \in BOOLEAN /\ held' \in BOOLEAN
      /\ disconnected' \in Nat /\ disconnected' > 0 /\ shut'
      /\ read' \in ReadOp /\ Whole(read')
      /\ writeQ' \in Seq(WriteOp) /\ writesFailed' \in Nat
      /\ received' \in Seq(Seq(Byte))
    BY <1>1, DisconnectStep
<1>3. TypeOK'
    BY <1>2 DEF TypeOK, ReadHandlerFails, remoteVars
<1>4. Whole(read)'
    BY <1>2 DEF Whole
<1>5. DeafIsKnown' /\ PacketsAccounted'
    BY <1>2 DEF DeafIsKnown, PacketsAccounted
<1> QED  BY <1>3, <1>4, <1>5

\* So does one that cannot lock its weak_ptr.
LEMMA ReadHandlerOrphanedStep ==
    ClientInv /\ ~held /\ ReadHandlerOrphaned => ClientInv'
<1> SUFFICES ASSUME ClientInv, ~held, ReadHandlerOrphaned PROVE ClientInv'
    OBVIOUS
<1> USE DEF ClientInv
<1>1. read' \in ReadOp /\ Whole(read') /\ ~held'
    BY ReadTypes DEF ReadHandlerOrphaned
<1>2. TypeOK'
    BY <1>1 DEF TypeOK, ReadHandlerOrphaned, remoteVars, signals, writeVars
<1>3. Whole(read)'
    BY <1>1 DEF Whole
<1>4. DeafIsKnown' /\ PacketsAccounted'
    BY <1>1 DEF DeafIsKnown, PacketsAccounted
<1> QED  BY <1>2, <1>3, <1>4

LEMMA ReceiveHeaderHandlerStep == ClientInv /\ ReceiveHeaderHandler => ClientInv'
<1> SUFFICES ASSUME ClientInv, ReceiveHeaderHandler PROVE ClientInv'
    OBVIOUS
<1> DEFINE h == decodeHeader(read.data, orders.local)
           n == h.packetsize
<1>1. CASE ~held /\ ReadHandlerOrphaned
    BY <1>1, ReadHandlerOrphanedStep
<1>2. CASE ReadHandlerFails
    BY <1>2, ReadHandlerFailsStep
<1>3. CASE /\ read.op = "header_done"
           /\ IF n < header_length
                THEN service' = "terminated" /\ UNCHANGED read
                ELSE /\ read' = [op |-> "body", wanted |-> BodyLength(n),
                                 data |-> <<>>]
                     /\ UNCHANGED service
           /\ UNCHANGED <<remoteVars, held, shut, signals, writeVars, closing>>
  <2> USE DEF ClientInv
  <2>1. read \in ReadOp /\ read.data \in Seq(Byte)
        /\ Len(read.data) = header_length /\ orders.local \in Orders
      BY <1>3 DEF TypeOK, ReadOp, Whole
  <2>2. n \in Nat
      BY <2>1, AnnouncedSize
  <2> HIDE DEF n
  <2>3. /\ read' \in ReadOp /\ Whole(read') /\ read'.op # "none"
        /\ service' \in {"running", "terminated"}
    <3>1. CASE n < header_length
      <4>1. read' = read /\ service' = "terminated"
          BY <1>3, <3>1
      <4>2. Whole(read) /\ read.op # "none"
          BY <1>3
      <4> QED  BY <2>1, <4>1, <4>2
    <3>2. CASE ~(n < header_length)
      <4>1. BodyLength(n) \in Nat /\ <<>> \in Seq(Byte)
          BY <2>2, <3>2, EmptySeq DEF BodyLength, header_length
      <4>2. read' = [op |-> "body", wanted |-> BodyLength(n), data |-> <<>>]
            /\ service' = service
          BY <1>3, <3>2
      <4> QED  BY <4>1, <4>2 DEF ReadOp, ReadStates, Whole, TypeOK
    <3> QED  BY <3>1, <3>2
  <2>4. TypeOK'
      BY <1>3, <2>3 DEF TypeOK, remoteVars, signals, writeVars
  <2>5. Whole(read)'
      BY <2>3 DEF Whole
  <2>6. DeafIsKnown'
      BY <2>3 DEF DeafIsKnown
  <2>7. PacketsAccounted'
      BY <1>3 DEF PacketsAccounted, signals, writeVars
  <2> QED  BY <2>4, <2>5, <2>6, <2>7
<1> QED  BY <1>1, <1>2, <1>3 DEF ReceiveHeaderHandler

LEMMA ReceiveBodyHandlerStep == ClientInv /\ ReceiveBodyHandler => ClientInv'
<1> SUFFICES ASSUME ClientInv, ReceiveBodyHandler PROVE ClientInv'
    OBVIOUS
<1>1. CASE ~held /\ ReadHandlerOrphaned
    BY <1>1, ReadHandlerOrphanedStep
<1>2. CASE ReadHandlerFails
    BY <1>2, ReadHandlerFailsStep
<1>3. CASE /\ held
           /\ received' = Append(received, read.data)
           /\ \E keeps \in BOOLEAN :
                 Settle(keeps, HeaderRead, writeQ, writesFailed)
           /\ CallsShutdown \/ UNCHANGED <<shut, closing>>
           /\ UNCHANGED <<remoteVars, service, disconnected, packets, writesOk,
                          written>>
  <2> USE DEF ClientInv
  <2>1. PICK keeps \in BOOLEAN : Settle(keeps, HeaderRead, writeQ, writesFailed)
      BY <1>3
  <2>2. writeQ \in Seq(WriteOp) /\ writesFailed \in Nat
        /\ received \in Seq(Seq(Byte)) /\ read.data \in Seq(Byte)
      BY DEF TypeOK, ReadOp
  <2>3. /\ held' = keeps /\ read' \in ReadOp /\ Whole(read')
        /\ writeQ' \in Seq(WriteOp) /\ writesFailed' \in Nat
        /\ keeps => /\ read' = HeaderRead /\ writeQ' = writeQ
                    /\ writesFailed' = writesFailed
      BY <2>1, <2>2, ReadTypes, SettleStep
  <2>4. received' \in Seq(Seq(Byte))
      BY <1>3, <2>2, AppendProperties
  <2>5. shut' \in BOOLEAN /\ closing' \in BOOLEAN
      BY <1>3 DEF TypeOK, CallsShutdown
  <2>6. TypeOK'
      BY <1>3, <2>3, <2>4, <2>5 DEF TypeOK, remoteVars
  <2>7. Whole(read)'
      BY <2>3 DEF Whole
  <2>8. DeafIsKnown'
      BY <2>3, ReadTypes DEF DeafIsKnown
  <2>9. PacketsAccounted'
      BY <1>3, <2>3 DEF PacketsAccounted
  <2> QED  BY <2>6, <2>7, <2>8, <2>9
<1> QED  BY <1>1, <1>2, <1>3 DEF ReceiveBodyHandler

LEMMA SendHandlerStep == ClientInv /\ SendHandler => ClientInv'
<1> SUFFICES ASSUME ClientInv, SendHandler PROVE ClientInv'
    OBVIOUS
<1> USE DEF ClientInv, SendHandler
<1>1. writesOk' \in Nat
    BY DEF TypeOK
<1>2. TypeOK'
    BY <1>1 DEF TypeOK, remoteVars, signals
<1>3. Whole(read)' /\ DeafIsKnown'
    BY DEF DeafIsKnown, Whole, signals
<1>4. PacketsAccounted'
    BY DEF PacketsAccounted, signals
<1> QED  BY <1>2, <1>3, <1>4

LEMMA SendHandlerErrorStep == ClientInv /\ SendHandlerError => ClientInv'
<1> SUFFICES ASSUME ClientInv, SendHandlerError PROVE ClientInv'
    OBVIOUS
<1> USE DEF ClientInv
<1>1. /\ read \in ReadOp /\ writesFailed - 1 \in Nat
    BY DEF TypeOK, SendHandlerError
<1>2. CASE held
  <2>1. Disconnect(read, writesFailed - 1)
      BY <1>2 DEF SendHandlerError
  <2>2. /\ shut' \in BOOLEAN /\ held' \in BOOLEAN
        /\ disconnected' \in Nat /\ disconnected' > 0 /\ shut'
        /\ read' \in ReadOp /\ Whole(read')
        /\ writeQ' \in Seq(WriteOp) /\ writesFailed' \in Nat
        /\ received' \in Seq(Seq(Byte))
      BY <1>1, <2>1, DisconnectStep
  <2>3. TypeOK'
      BY <2>2 DEF TypeOK, SendHandlerError, remoteVars
  <2>4. Whole(read)'
      BY <2>2 DEF Whole
  <2>5. DeafIsKnown' /\ PacketsAccounted'
      BY <2>2 DEF DeafIsKnown, PacketsAccounted
  <2> QED  BY <2>3, <2>4, <2>5
<1>3. CASE ~held
  <2>1. /\ writesFailed' \in Nat
        /\ UNCHANGED <<held, shut, read, received, disconnected, writeQ>>
      BY <1>1, <1>3 DEF SendHandlerError, signals
  <2>2. TypeOK'
      BY <2>1 DEF TypeOK, SendHandlerError, remoteVars
  <2>3. Whole(read)' /\ DeafIsKnown' /\ PacketsAccounted'
      BY <1>3, <2>1 DEF DeafIsKnown, PacketsAccounted, Whole
  <2> QED  BY <2>2, <2>3
<1> QED  BY <1>2, <1>3

LEMMA StutterStep == ClientInv /\ UNCHANGED vars => ClientInv'
<1> SUFFICES ASSUME ClientInv, UNCHANGED vars PROVE ClientInv'
    OBVIOUS
<1> USE DEF ClientInv, vars, remoteVars, signals, writeVars
<1>1. TypeOK'
    BY DEF TypeOK
<1>2. Whole(read)' /\ DeafIsKnown' /\ PacketsAccounted'
    BY DEF DeafIsKnown, PacketsAccounted, Whole
<1> QED  BY <1>1, <1>2

LEMMA NextClientInv == ClientInv /\ [Next]_vars => ClientInv'
<1> SUFFICES ASSUME ClientInv, [Next]_vars PROVE ClientInv'
    OBVIOUS
<1>1. CASE Owner
    BY <1>1, SendPacketStep, ShutdownStep, ReleaseStep DEF Owner
<1>2. CASE Remote
    BY <1>2, RemoteSendsStep, RemoteBreaksStep DEF Remote
<1>3. CASE Reactor
    BY <1>3, ReadCompletesStep, ReadFailsStep, WriteSomeStep, WriteFailsStep
       DEF Reactor
<1>4. CASE Handlers
    BY <1>4, ReceiveHeaderHandlerStep, ReceiveBodyHandlerStep,
       SendHandlerStep, SendHandlerErrorStep DEF Handlers
<1>5. CASE Over \/ UNCHANGED vars
    BY <1>5, StutterStep DEF Over
<1> QED  BY <1>1, <1>2, <1>3, <1>4, <1>5 DEF Next

LEMMA ClientInvariant == Spec => []ClientInv
<1>1. Init => ClientInv
    BY InitClientInv
<1>2. ClientInv /\ [Next]_vars => ClientInv'
    BY NextClientInv
<1> QED  BY <1>1, <1>2, PTL DEF Spec

-----------------------------------------------------------------------------
(* The theorems *)

(* The variables of the connection keep their types; in particular every   *)
(* receive is for a number of bytes that makes sense, whatever the remote  *)
(* host announced.                                                         *)
THEOREM ClientTypeCorrect == Spec => []TypeOK
<1>1. ClientInv => TypeOK
    BY DEF ClientInv
<1> QED  BY <1>1, ClientInvariant, PTL

(* No error path of the handlers stops receiving without shutting the      *)
(* socket down and invoking the disconnected callback.                     *)
THEOREM DeafKnown == Spec => []DeafIsKnown
<1>1. ClientInv => DeafIsKnown
    BY DEF ClientInv
<1> QED  BY <1>1, ClientInvariant, PTL

(* No packet passed to sendPacket is dropped without a word.               *)
THEOREM NoPacketDropped == Spec => []PacketsAccounted
<1>1. ClientInv => PacketsAccounted
    BY DEF ClientInv
<1> QED  BY <1>1, ClientInvariant, PTL

(* Once the owner has let go of the connection no callback is invoked any  *)
(* more, whatever was pending or queued then.                              *)
THEOREM SilentAfterRelease ==
    Spec => [][~held => UNCHANGED <<held, signals>>]_vars
<1>1. ASSUME Next, ~held
      PROVE  UNCHANGED <<held, signals>>
  <2>1. CASE Owner
      BY <1>1, <2>1 DEF Owner, SendPacket, Shutdown, Release
  <2>2. CASE Remote
      BY <2>2 DEF Remote, RemoteSends, RemoteBreaks
  <2>3. CASE Reactor
      BY <2>3 DEF Reactor, ReadCompletes, ReadFails, WriteSome, WriteFails
  <2>4. CASE Handlers
    <3>1. CASE ReceiveHeaderHandler
        BY <1>1, <3>1 DEF ReceiveHeaderHandler, ReadHandlerOrphaned
    <3>2. CASE ReceiveBodyHandler
        BY <1>1, <3>2 DEF ReceiveBodyHandler, ReadHandlerOrphaned
    <3>3. CASE SendHandler \/ SendHandlerError
        BY <1>1, <3>3 DEF SendHandler, SendHandlerError
    <3> QED  BY <2>4, <3>1, <3>2, <3>3 DEF Handlers
  <2>5. CASE Over
      BY <2>5 DEF Over, vars
  <2> QED  BY <1>1, <2>1, <2>2, <2>3, <2>4, <2>5 DEF Next
<1>2. [Next]_vars => [~held => UNCHANGED <<held, signals>>]_vars
    BY <1>1
<1> QED  BY <1>2, PTL DEF Spec
=============================================================================
