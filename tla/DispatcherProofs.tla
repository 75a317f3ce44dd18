--------------------------- MODULE DispatcherProofs ---------------------------
(***************************************************************************)
(* Theorems about Dispatcher, for any number of connections, messages and  *)
(* chunks and any set of headers.                                          *)
(***************************************************************************)
EXTENDS Dispatcher, SequenceTheorems, FiniteSetTheorems, TLAPS

\* The assumptions on the constants, as the steps below use them.
LEMMA Constants ==
    /\ MaxConnections \in Nat
    /\ MaxMessages \in Nat
    /\ Chunks \in Nat /\ Chunks >= 1
BY BoundsAssumption, ChunksAssumption

\* A write queue is a sequence whose length is 0 exactly if it is empty.
LEMMA QueueLength ==
    ASSUME NEW q \in Seq(WriteOp)
    PROVE  Len(q) \in Nat /\ (q = <<>> <=> Len(q) = 0)
BY EmptySeq, LenProperties

\* The summands of Outstanding(q) are numbers, before and after a step.
NumbersOf(q) ==
    /\ Receives(q) \in {0, 1} /\ (Receives(q) = 0 <=> readOp[q] = "none")
    /\ Len(writeQ[q]) \in Nat /\ (writeQ[q] = <<>> <=> Len(writeQ[q]) = 0)
    /\ writesOk[q] \in Nat
    /\ writesFailed[q] \in Nat

LEMMA Numbers == ASSUME TypeOK, NEW q \in Conns PROVE NumbersOf(q)
BY QueueLength DEF TypeOK, NumbersOf, Receives

LEMMA NumbersNext == ASSUME TypeOK', NEW q \in Conns PROVE NumbersOf(q)'
BY QueueLength DEF TypeOK, NumbersOf, Receives

LEMMA SumZero ==
    ASSUME NEW r \in {0, 1}, NEW a \in Nat, NEW b \in Nat, NEW c \in Nat
    PROVE  /\ r + a + b + c \in Nat
           /\ r + a + b + c = 0 <=> r = 0 /\ a = 0 /\ b = 0 /\ c = 0
OBVIOUS

\* The number of outstanding handlers is a natural number, and zero only if
\* there is no operation at all.
LEMMA OutstandingZero ==
    ASSUME TypeOK, NEW p \in Conns
    PROVE  /\ Outstanding(p) \in Nat
           /\ Outstanding(p) = 0 <=> /\ readOp[p] = "none"
                                     /\ writeQ[p] = <<>>
                                     /\ writesOk[p] = 0
                                     /\ writesFailed[p] = 0
<1> DEFINE l == Len(writeQ[p])
<1>1. NumbersOf(p)
    BY Numbers
<1>2. /\ Outstanding(p) = Receives(p) + l + writesOk[p] + writesFailed[p]
      /\ l \in Nat /\ (writeQ[p] = <<>> <=> l = 0)
    BY <1>1 DEF Outstanding, NumbersOf
<1> HIDE DEF l
<1>3. /\ Outstanding(p) \in Nat
      /\ Outstanding(p) = 0 <=> /\ Receives(p) = 0 /\ l = 0
                                /\ writesOk[p] = 0 /\ writesFailed[p] = 0
    BY <1>1, <1>2, SumZero DEF NumbersOf
<1> QED  BY <1>1, <1>2, <1>3 DEF NumbersOf

\* The step adds dc to the reference count of q, and dr, dl, dw and df to its
\* receives, waiting writes, and queued successful and failed writes.
Changes(q, dc, dr, dl, dw, df) ==
    /\ reference_count'[q] = reference_count[q] + dc
    /\ Receives(q)' = Receives(q) + dr
    /\ Len(writeQ'[q]) = Len(writeQ[q]) + dl
    /\ writesOk'[q] = writesOk[q] + dw
    /\ writesFailed'[q] = writesFailed[q] + df

Untouched(q) ==
    /\ UNCHANGED <<reference_count[q], writeQ[q], writesOk[q],
                   writesFailed[q]>>
    /\ UNCHANGED Receives(q)

\* The count of a peer stays exact when the changes add up.
LEMMA Recount ==
    ASSUME DispatcherInv, TypeOK', NEW q \in Conns,
           NEW dr \in Int, NEW dl \in Int, NEW dw \in Int, NEW df \in Int,
           Changes(q, dr + dl + dw + df, dr, dl, dw, df)
    PROVE  reference_count'[q] = Outstanding(q)'
<1> DEFINE c == reference_count[q]  cN == reference_count'[q]
           r == Receives(q)         rN == Receives(q)'
           l == Len(writeQ[q])      lN == Len(writeQ'[q])
           w == writesOk[q]         wN == writesOk'[q]
           f == writesFailed[q]     fN == writesFailed'[q]
<1>1. c = r + l + w + f
    BY DEF DispatcherInv, HandlersCounted, Outstanding
<1>2. /\ r \in Nat /\ l \in Nat /\ w \in Nat /\ f \in Nat
      /\ rN \in Nat /\ lN \in Nat /\ wN \in Nat /\ fN \in Nat
    BY Numbers, NumbersNext DEF DispatcherInv, NumbersOf
<1>3. /\ cN = c + (dr + dl + dw + df)
      /\ rN = r + dr /\ lN = l + dl /\ wN = w + dw /\ fN = f + df
    BY DEF Changes
<1>4. Outstanding(q)' = rN + lN + wN + fN
    BY DEF Outstanding
<1> HIDE DEF c, cN, r, rN, l, lN, w, wN, f, fN
<1>5. cN = rN + lN + wN + fN
    BY <1>1, <1>2, <1>3
<1> QED  BY <1>4, <1>5 DEF cN

\* Only p is touched, and its changes add up: all counts stay exact.
LEMMA RecountAll ==
    ASSUME DispatcherInv, TypeOK', NEW p \in Conns,
           NEW dr \in Int, NEW dl \in Int, NEW dw \in Int, NEW df \in Int,
           Changes(p, dr + dl + dw + df, dr, dl, dw, df),
           \A q \in Conns \ {p} : Untouched(q)
    PROVE  HandlersCounted'
<1>1. reference_count'[p] = Outstanding(p)'
    BY Recount
<1>2. ASSUME NEW q \in Conns \ {p}
      PROVE  reference_count'[q] = Outstanding(q)'
    BY DEF DispatcherInv, HandlersCounted, Outstanding, Untouched
<1> QED  BY <1>1, <1>2 DEF HandlersCounted

LEMMA InitInv == Init => DispatcherInv
<1> SUFFICES ASSUME Init PROVE DispatcherInv
    OBVIOUS
<1>1. TypeOK
    BY Constants, EmptySeq DEF Init, TypeOK, Conns, ReadStates
<1>2. HandlersCounted
    BY EmptySeq DEF Init, HandlersCounted, Outstanding, Receives
<1>3. ListedIffReferenced /\ FreshUnused /\ ClosedIdle
    BY DEF Init, ListedIffReferenced, FreshUnused, ClosedIdle
<1> QED  BY <1>1, <1>2, <1>3 DEF DispatcherInv

-----------------------------------------------------------------------------
(* One lemma per action *)

LEMMA AcceptHandlerInv == DispatcherInv /\ AcceptHandler => DispatcherInv'
<1> SUFFICES ASSUME DispatcherInv, AcceptHandler PROVE DispatcherInv'
    OBVIOUS
<1> DEFINE n == current_conn_id + 1
<1>1. n \in Conns /\ n > current_conn_id
    BY Constants DEF DispatcherInv, TypeOK, AcceptHandler, Conns
<1>2. reference_count[n] = 0 /\ Outstanding(n) = 0
    BY <1>1 DEF DispatcherInv, FreshUnused, HandlersCounted
<1>3. writeQ[n] = <<>> /\ writesOk[n] = 0 /\ writesFailed[n] = 0
    BY <1>1, <1>2, OutstandingZero DEF DispatcherInv
<1>4. TypeOK'
  <2>1. current_conn_id' \in 0..MaxConnections /\ peers_list' \subseteq Conns
      BY <1>1, Constants DEF DispatcherInv, TypeOK, AcceptHandler,
          getNextConnectionId
  <2>2. /\ reference_count' \in [Conns -> Nat]
        /\ error_happened' \in [Conns -> BOOLEAN]
        /\ socketOpen' \in [Conns -> BOOLEAN]
        /\ link' \in [Conns -> {"none", "up", "eof", "reset"}]
        /\ readOp' \in [Conns -> ReadStates]
        /\ joined' \in [Conns -> Nat]
      BY DEF DispatcherInv, TypeOK, AcceptHandler, ReadStates
  <2> QED  BY <2>1, <2>2 DEF DispatcherInv, TypeOK, AcceptHandler, writeVars
<1>5. HandlersCounted'
    BY <1>1, <1>3, EmptySeq, SMTT(20) DEF DispatcherInv, TypeOK, HandlersCounted,
        Outstanding, Receives, AcceptHandler, writeVars, getNextConnectionId
<1>6. ListedIffReferenced' /\ FreshUnused'
    BY <1>1 DEF DispatcherInv, TypeOK, ListedIffReferenced, FreshUnused,
        AcceptHandler, getNextConnectionId, Conns
<1>7. ClosedIdle'
    BY <1>1 DEF DispatcherInv, TypeOK, ClosedIdle, AcceptHandler, writeVars,
        getNextConnectionId
<1> QED  BY <1>4, <1>5, <1>6, <1>7 DEF DispatcherInv

\* The steps that touch neither the peers nor their operations.
LEMMA StopInv == DispatcherInv /\ (AcceptError \/ Over) => DispatcherInv'
BY DEF DispatcherInv, TypeOK, HandlersCounted, Outstanding, Receives,
    ListedIffReferenced, FreshUnused, ClosedIdle, AcceptError, Over, vars,
    peerVars, writeVars, history

LEMMA DestroyServerInv == DispatcherInv /\ DestroyServer => DispatcherInv'
BY DEF DispatcherInv, TypeOK, HandlersCounted, Outstanding, Receives,
    ListedIffReferenced, FreshUnused, ClosedIdle, DestroyServer, writeVars,
    history

LEMMA LinkBreaksInv ==
    ASSUME DispatcherInv, NEW p \in Conns, LinkBreaks(p)
    PROVE  DispatcherInv'
BY DEF DispatcherInv, TypeOK, HandlersCounted, Outstanding, Receives,
    ListedIffReferenced, FreshUnused, ClosedIdle, LinkBreaks, peerVars,
    writeVars, history

LEMMA ReadCompletesInv ==
    ASSUME DispatcherInv, NEW p \in Conns, ReadCompletes(p)
    PROVE  DispatcherInv'
<1>1. TypeOK'
  <2> TypeOK
      BY DEF DispatcherInv
  <2>1. received' \in 0..MaxMessages
      BY Constants DEF TypeOK, ReadCompletes
  <2>2. readOp' \in [Conns -> ReadStates]
      BY DEF TypeOK, ReadCompletes, ReadStates
  <2>3. UNCHANGED <<service, peers_list, current_conn_id, reference_count,
            error_happened, socketOpen, link, writeQ, writesOk, writesFailed,
            wire, joined, distributed>>
      BY DEF ReadCompletes, peerVars, writeVars
  <2> QED  BY <2>1, <2>2, <2>3 DEF TypeOK
<1>2. HandlersCounted'
    BY DEF DispatcherInv, TypeOK, HandlersCounted, Outstanding, Receives, ReadCompletes,
        peerVars, writeVars
<1>3. ListedIffReferenced' /\ FreshUnused' /\ ClosedIdle'
    BY DEF DispatcherInv, TypeOK, ListedIffReferenced, FreshUnused, ClosedIdle,
        ReadCompletes, peerVars, writeVars
<1> QED  BY <1>1, <1>2, <1>3 DEF DispatcherInv

LEMMA ReadFailsInv ==
    ASSUME DispatcherInv, NEW p \in Conns, ReadFails(p)
    PROVE  DispatcherInv'
<1>1. TypeOK'
    BY DEF DispatcherInv, TypeOK, ReadFails, peerVars, writeVars, history,
        ReadStates, AbortRead
<1>2. HandlersCounted'
    BY DEF DispatcherInv, TypeOK, HandlersCounted, Outstanding, Receives, ReadFails,
        peerVars, writeVars, AbortRead
<1>3. ListedIffReferenced' /\ FreshUnused' /\ ClosedIdle'
    BY DEF DispatcherInv, TypeOK, ListedIffReferenced, FreshUnused, ClosedIdle,
        ReadFails, peerVars, writeVars, AbortRead
<1> QED  BY <1>1, <1>2, <1>3 DEF DispatcherInv

LEMMA WriteFailsInv ==
    ASSUME DispatcherInv, NEW p \in Conns, WriteFails(p)
    PROVE  DispatcherInv'
<1>1. /\ Tail(writeQ[p]) \in Seq(WriteOp)
      /\ Len(Tail(writeQ[p])) = Len(writeQ[p]) - 1
      /\ Len(writeQ[p]) \in Nat
    BY HeadTailProperties, LenProperties DEF DispatcherInv, TypeOK, WriteFails
<1>2. TypeOK'
    BY <1>1, SMTT(20) DEF DispatcherInv, TypeOK, WriteFails, peerVars, history
<1>3. Changes(p, 0 + -1 + 0 + 1, 0, -1, 0, 1)
  <2>1. NumbersOf(p) /\ reference_count[p] \in Nat
      BY Numbers DEF DispatcherInv, TypeOK
  <2>2. /\ UNCHANGED <<reference_count[p], readOp[p], writesOk[p]>>
        /\ writeQ'[p] = Tail(writeQ[p])
        /\ writesFailed'[p] = writesFailed[p] + 1
      BY DEF DispatcherInv, TypeOK, WriteFails, peerVars
  <2>3. Receives(p)' = Receives(p)
      BY <2>2 DEF Receives
  <2> QED  BY <1>1, <2>1, <2>2, <2>3 DEF Changes, NumbersOf
<1>4. HandlersCounted'
  <2>1. \A q \in Conns \ {p} : Untouched(q)
      BY DEF DispatcherInv, TypeOK, WriteFails, peerVars, Untouched, Receives
  <2> QED  BY <1>2, <1>3, <2>1, RecountAll
<1>5. ListedIffReferenced' /\ FreshUnused' /\ ClosedIdle'
    BY DEF DispatcherInv, TypeOK, ListedIffReferenced, FreshUnused, ClosedIdle,
        WriteFails, peerVars
<1> QED  BY <1>2, <1>4, <1>5 DEF DispatcherInv

\* A function on 1..n is a sequence.
LEMMA FunctionIsSeq ==
    ASSUME NEW S, NEW n \in Nat, NEW f \in [1..n -> S]
    PROVE  f \in Seq(S)
OBVIOUS

\* What is left of a write that the kernel took n more chunks of.
LEMMA NextWrite ==
    ASSUME NEW op \in WriteOp, NEW n \in 1..(Chunks - op.taken)
    PROVE  [op EXCEPT !.taken = @ + n] \in WriteOp
<1>1. op.taken + n \in 0..Chunks
    BY Constants DEF WriteOp
<1> QED  BY <1>1 DEF WriteOp

LEMMA WriteSomeInv ==
    ASSUME DispatcherInv, NEW p \in Conns, WriteSome(p)
    PROVE  DispatcherInv'
<1> DEFINE op == Head(writeQ[p])
           left == Chunks - op.taken
           chunks(n) == [i \in 1..n |-> [msg |-> op.msg, chunk |-> op.taken + i]]
           rest(n) == Append(Tail(writeQ[p]), [op EXCEPT !.taken = @ + n])
<1>1. /\ op \in WriteOp
      /\ Tail(writeQ[p]) \in Seq(WriteOp)
      /\ Len(Tail(writeQ[p])) = Len(writeQ[p]) - 1
      /\ Len(writeQ[p]) \in Nat /\ Len(writeQ[p]) > 0
    BY HeadTailProperties, LenProperties, EmptySeq
        DEF DispatcherInv, TypeOK, WriteSome
<1>2. op.msg \in Nat /\ op.taken \in 0..Chunks /\ left \in 0..Chunks
    BY <1>1, Constants DEF WriteOp
<1>3. ASSUME NEW n \in 1..left
      PROVE  /\ chunks(n) \in Seq(Chunk)
             /\ wire[p] \o chunks(n) \in Seq(Chunk)
  <2>1. \A i \in 1..n : [msg |-> op.msg, chunk |-> op.taken + i] \in Chunk
      BY <1>2, Constants DEF Chunk
  <2>2. chunks(n) \in [1..n -> Chunk] /\ n \in Nat
      BY <1>2, <2>1
  <2>3. chunks(n) \in Seq(Chunk)
      BY <2>2, FunctionIsSeq
  <2> QED  BY <2>3, ConcatProperties DEF DispatcherInv, TypeOK
<1>4. ASSUME NEW n \in 1..left
      PROVE  rest(n) \in Seq(WriteOp) /\ Len(rest(n)) = Len(writeQ[p])
  <2> DEFINE next == [op EXCEPT !.taken = @ + n]
             tail == Tail(writeQ[p])
  <2>1. next \in WriteOp
      BY <1>1, NextWrite
  <2>2. /\ rest(n) = Append(tail, next)
        /\ tail \in Seq(WriteOp)
        /\ Len(tail) + 1 = Len(writeQ[p])
      BY <1>1
  <2> HIDE DEF next, tail, rest
  <2> QED  BY <2>1, <2>2, AppendProperties
<1>5. PICK n \in 1..left :
        /\ wire' = [wire EXCEPT ![p] = @ \o chunks(n)]
        /\ \/ /\ writeQ' = [writeQ EXCEPT ![p] = Tail(@)]
              /\ writesOk' = [writesOk EXCEPT ![p] = @ + 1]
           \/ /\ writeQ' = [writeQ EXCEPT ![p] = rest(n)]
              /\ UNCHANGED writesOk
    BY DEF WriteSome
<1> HIDE DEF op, left, chunks, rest
<1>6. TypeOK'
  <2> TypeOK
      BY DEF DispatcherInv
  <2>1. wire' \in [Conns -> Seq(Chunk)]
      BY <1>3, <1>5 DEF TypeOK
  <2>2. writeQ' \in [Conns -> Seq(WriteOp)]
      BY <1>1, <1>4, <1>5 DEF TypeOK
  <2>3. writesOk' \in [Conns -> Nat]
      BY <1>5, SMTT(20) DEF TypeOK
  <2>4. UNCHANGED <<service, peers_list, current_conn_id, reference_count,
            error_happened, socketOpen, link, readOp, writesFailed, joined,
            received, distributed>>
      BY DEF WriteSome, peerVars
  <2> QED  BY <2>1, <2>2, <2>3, <2>4 DEF TypeOK
<1>7. HandlersCounted'
  <2>1. /\ NumbersOf(p) /\ reference_count[p] \in Nat
        /\ UNCHANGED <<reference_count[p], readOp[p], writesFailed[p]>>
      BY Numbers DEF DispatcherInv, TypeOK, WriteSome, peerVars
  <2>2. Receives(p)' = Receives(p)
      BY <2>1 DEF Receives
  <2>3. \A q \in Conns \ {p} : Untouched(q)
      BY <1>5 DEF DispatcherInv, TypeOK, WriteSome, peerVars, Untouched,
          Receives
  <2>4. CASE writeQ' = [writeQ EXCEPT ![p] = Tail(@)]
             /\ writesOk' = [writesOk EXCEPT ![p] = @ + 1]
    <3>1. Len(writeQ'[p]) = Len(writeQ[p]) + -1
        BY <1>1, <2>4 DEF DispatcherInv, TypeOK
    <3>2. writesOk'[p] = writesOk[p] + 1
        BY <2>4 DEF DispatcherInv, TypeOK
    <3>3. Changes(p, 0 + -1 + 1 + 0, 0, -1, 1, 0)
        BY <2>1, <2>2, <3>1, <3>2 DEF Changes, NumbersOf
    <3> QED  BY <1>6, <2>3, <3>3, RecountAll
  <2>5. CASE writeQ' = [writeQ EXCEPT ![p] = rest(n)] /\ UNCHANGED writesOk
    <3>1. Len(writeQ'[p]) = Len(writeQ[p])
        BY <1>4, <2>5 DEF DispatcherInv, TypeOK
    <3>2. Changes(p, 0 + 0 + 0 + 0, 0, 0, 0, 0)
        BY <2>1, <2>2, <2>5, <3>1 DEF Changes, NumbersOf
    <3> QED  BY <1>6, <2>3, <3>2, RecountAll
  <2> QED  BY <1>5, <2>4, <2>5
<1>8. ListedIffReferenced' /\ FreshUnused'
    BY DEF DispatcherInv, ListedIffReferenced, FreshUnused, WriteSome, peerVars
<1>9. ClosedIdle'
    BY <1>5 DEF DispatcherInv, TypeOK, ClosedIdle, WriteSome, peerVars
<1> QED  BY <1>6, <1>7, <1>8, <1>9 DEF DispatcherInv

-----------------------------------------------------------------------------
(* The pieces of the handlers *)

\* A peer with an operation is listed while the io_service runs.
LEMMA BusyPeer ==
    ASSUME DispatcherInv, service = "running", NEW p \in Conns,
           \/ readOp[p] # "none" \/ writesOk[p] > 0 \/ writesFailed[p] > 0
    PROVE  /\ p \in peers_list
           /\ reference_count[p] \in Nat /\ reference_count[p] > 0
           /\ p <= current_conn_id
<1>1. Outstanding(p) \in Nat /\ Outstanding(p) # 0
    BY OutstandingZero DEF DispatcherInv, TypeOK
<1>2. reference_count[p] \in Nat /\ reference_count[p] > 0
    BY <1>1 DEF DispatcherInv, HandlersCounted
<1>3. p \in peers_list
    BY <1>2 DEF DispatcherInv, ListedIffReferenced
<1>4. p <= current_conn_id
    BY <1>2 DEF DispatcherInv, FreshUnused, TypeOK, Conns
<1> QED  BY <1>2, <1>3, <1>4

\* The end of a handler: its reference is gone, the map is kept in step.
LEMMA ReleaseStep ==
    ASSUME DispatcherInv, service = "running", UNCHANGED service,
           NEW p \in Conns, reference_count[p] > 0,
           Release(p, reference_count[p] - 1)
    PROVE  /\ reference_count' \in [Conns -> Nat]
           /\ reference_count'[p] = reference_count[p] - 1
           /\ \A q \in Conns \ {p} : reference_count'[q] = reference_count[q]
           /\ peers_list' \subseteq Conns
           /\ ListedIffReferenced'
<1>1. reference_count[p] \in Nat /\ reference_count[p] - 1 \in Nat
    BY DEF DispatcherInv, TypeOK
<1>2. /\ reference_count' \in [Conns -> Nat]
      /\ reference_count'[p] = reference_count[p] - 1
      /\ \A q \in Conns \ {p} : reference_count'[q] = reference_count[q]
    BY <1>1 DEF DispatcherInv, TypeOK, Release
<1>3. /\ \A q \in Conns \ {p} : q \in peers_list' <=> q \in peers_list
      /\ p \in peers_list' <=> reference_count[p] - 1 # 0
      /\ peers_list' \subseteq Conns
    BY DEF DispatcherInv, TypeOK, ListedIffReferenced, Release
<1>4. ASSUME NEW q \in Conns
      PROVE  q \in peers_list' <=> reference_count'[q] > 0
  <2>1. CASE q = p
    <3>1. reference_count[p] - 1 # 0 <=> reference_count'[p] > 0
        BY <1>1, <1>2
    <3> QED  BY <1>3, <2>1, <3>1
  <2>2. CASE q # p
      BY <1>2, <1>3, <2>2 DEF DispatcherInv, ListedIffReferenced
  <2> QED  BY <2>1, <2>2
<1> QED  BY <1>2, <1>3, <1>4 DEF ListedIffReferenced

\* Once a handler reported an error, its peer is closed and idle, and every
\* write that was waiting has become a failed one.
LEMMA PostErrorStep ==
    ASSUME DispatcherInv, service = "running", NEW p \in Conns,
           p \in peers_list,
           NEW own \in {0, 1}, writesFailed[p] >= own, PostError(p, own)
    PROVE  /\ error_happened' \in [Conns -> BOOLEAN]
           /\ socketOpen' \in [Conns -> BOOLEAN]
           /\ writeQ' \in [Conns -> Seq(WriteOp)]
           /\ writesFailed' \in [Conns -> Nat]
           /\ ~socketOpen'[p] /\ writeQ'[p] = <<>>
           /\ writesFailed'[p] = (writesFailed[p] - own) + Len(writeQ[p])
           /\ \A q \in Conns \ {p} :
                  UNCHANGED <<error_happened[q], socketOpen[q], writeQ[q],
                              writesFailed[q]>>
<1>1. /\ Reports(p) => ~error_happened[p]
      /\ ~Reports(p) => ~socketOpen[p] /\ writeQ[p] = <<>>
    BY DEF Reports, DispatcherInv, ClosedIdle
<1>2. Len(writeQ[p]) \in Nat /\ writesFailed[p] - own \in Nat
    BY Numbers, SMTT(20) DEF DispatcherInv, TypeOK, NumbersOf
<1>3. /\ error_happened' \in [Conns -> BOOLEAN]
      /\ socketOpen' \in [Conns -> BOOLEAN]
      /\ ~socketOpen'[p]
    BY <1>1 DEF DispatcherInv, TypeOK, PostError
<1>4. writeQ' \in [Conns -> Seq(WriteOp)] /\ writeQ'[p] = <<>>
    BY <1>1, EmptySeq DEF DispatcherInv, TypeOK, PostError
<1>5. /\ writesFailed' \in [Conns -> Nat]
      /\ writesFailed'[p] = (writesFailed[p] - own) + Len(writeQ[p])
  <2> DEFINE n == (writesFailed[p] - own)
                      + IF Reports(p) THEN Len(writeQ[p]) ELSE 0
  <2>1. n = (writesFailed[p] - own) + Len(writeQ[p])
      BY <1>1, <1>2, EmptySeq
  <2>2. n \in Nat
      BY <1>2, <2>1
  <2>3. writesFailed' = [writesFailed EXCEPT ![p] = n]
      BY DEF PostError
  <2> HIDE DEF n
  <2>4. writesFailed' \in [Conns -> Nat] /\ writesFailed'[p] = n
      BY <2>2, <2>3 DEF DispatcherInv, TypeOK
  <2> QED  BY <2>1, <2>4
<1>6. \A q \in Conns \ {p} :
          UNCHANGED <<error_happened[q], socketOpen[q], writeQ[q],
                      writesFailed[q]>>
    BY DEF DispatcherInv, TypeOK, PostError
<1> QED  BY <1>3, <1>4, <1>5, <1>6

-----------------------------------------------------------------------------
(* The handlers *)

LEMMA ReadHandlerFailsInv ==
    ASSUME DispatcherInv, service = "running", NEW p \in Conns,
           readOp[p] # "none", ReadHandlerFails(p)
    PROVE  DispatcherInv'
<1>1. p \in peers_list /\ reference_count[p] > 0 /\ p <= current_conn_id
    BY BusyPeer
<1>2. writesFailed[p] \in Nat /\ writesFailed[p] >= 0
    BY DEF DispatcherInv, TypeOK
<1>3. /\ PostError(p, 0) /\ Release(p, reference_count[p] - 1)
      /\ UNCHANGED service
      /\ readOp' = [readOp EXCEPT ![p] = "none"]
      /\ UNCHANGED <<current_conn_id, link, writesOk, wire, joined, received,
                     distributed>>
    BY DEF ReadHandlerFails, history
<1>4. /\ error_happened' \in [Conns -> BOOLEAN]
      /\ socketOpen' \in [Conns -> BOOLEAN]
      /\ writeQ' \in [Conns -> Seq(WriteOp)]
      /\ writesFailed' \in [Conns -> Nat]
      /\ ~socketOpen'[p] /\ writeQ'[p] = <<>>
      /\ writesFailed'[p] = (writesFailed[p] - 0) + Len(writeQ[p])
      /\ \A q \in Conns \ {p} :
             UNCHANGED <<error_happened[q], socketOpen[q], writeQ[q],
                         writesFailed[q]>>
    BY <1>1, <1>2, <1>3, PostErrorStep
<1>5. /\ reference_count' \in [Conns -> Nat]
      /\ reference_count'[p] = reference_count[p] - 1
      /\ \A q \in Conns \ {p} : reference_count'[q] = reference_count[q]
      /\ peers_list' \subseteq Conns
      /\ ListedIffReferenced'
    BY <1>1, <1>3, ReleaseStep
<1>6. TypeOK'
  <2> TypeOK
      BY DEF DispatcherInv
  <2>1. readOp' \in [Conns -> ReadStates]
      BY <1>3 DEF TypeOK, ReadStates
  <2> QED  BY <1>3, <1>4, <1>5, <2>1 DEF TypeOK
<1>7. HandlersCounted'
  <2> DEFINE l == Len(writeQ[p])
  <2>1. /\ l \in Nat /\ NumbersOf(p) /\ reference_count[p] \in Nat
        /\ Receives(p) = 1 /\ Receives(p)' = 0
        /\ writesOk'[p] = writesOk[p]
      BY <1>3, Numbers DEF DispatcherInv, TypeOK, NumbersOf, Receives
  <2>2. Len(writeQ'[p]) = 0
      BY <1>4, EmptySeq
  <2>3. Changes(p, -1 + (-l) + 0 + l, -1, -l, 0, l)
      BY <1>2, <1>4, <1>5, <2>1, <2>2 DEF Changes, NumbersOf
  <2>4. \A q \in Conns \ {p} : Untouched(q)
      BY <1>3, <1>4, <1>5 DEF DispatcherInv, TypeOK, Untouched, Receives
  <2>5. -l \in Int /\ l \in Int
      BY <2>1
  <2> HIDE DEF l
  <2> QED  BY <1>6, <2>3, <2>4, <2>5, RecountAll
<1>8. FreshUnused'
    BY <1>1, <1>3, <1>4, <1>5 DEF DispatcherInv, TypeOK, FreshUnused, Conns
<1>9. ClosedIdle'
    BY <1>3, <1>4 DEF DispatcherInv, TypeOK, ClosedIdle
<1> QED  BY <1>5, <1>6, <1>7, <1>8, <1>9 DEF DispatcherInv

\* A header without a body: the receive of the body is complete at once.
EmptyBody(p) ==
    /\ received < MaxMessages
    /\ readOp' = [readOp EXCEPT ![p] = "body_done"]
    /\ received' = received + 1
    /\ UNCHANGED <<service, peers_list, current_conn_id, peerVars, link,
                   writeVars, wire, joined, distributed>>

LEMMA RcvHeaderHandlerInv ==
    ASSUME DispatcherInv, NEW p \in Conns, RcvHeaderHandler(p)
    PROVE  DispatcherInv'
<1>1. service = "running" /\ readOp[p] = "header_done"
    BY DEF RcvHeaderHandler
<1>2. CASE /\ readOp' = [readOp EXCEPT ![p] = StartRead(p, "body")]
           /\ UNCHANGED <<service, peers_list, current_conn_id, peerVars, link,
                          writeVars, history>>
  <2>1. UNCHANGED <<service, peers_list, current_conn_id, reference_count,
            error_happened, socketOpen, link, writeQ, writesOk, writesFailed,
            wire, joined, received, distributed>>
      BY <1>2 DEF peerVars, writeVars, history
  <2>2. /\ StartRead(p, "body") \in {"body", "body_error"}
        /\ StartRead(p, "body") = "body" => socketOpen[p]
      BY DEF StartRead, AbortRead
  <2>3. /\ readOp' \in [Conns -> ReadStates]
        /\ readOp'[p] \in {"body", "body_error"}
        /\ readOp'[p] = "body" => socketOpen[p]
        /\ \A q \in Conns \ {p} : readOp'[q] = readOp[q]
      BY <1>2, <2>2 DEF DispatcherInv, TypeOK, ReadStates
  <2>4. TypeOK'
    <3> TypeOK
        BY DEF DispatcherInv
    <3> QED  BY <2>1, <2>3 DEF TypeOK
  <2>5. \A q \in Conns : Receives(q)' = Receives(q)
      BY <1>1, <2>3 DEF Receives
  <2>6. HandlersCounted'
      BY <2>1, <2>5 DEF DispatcherInv, HandlersCounted, Outstanding
  <2>7. ListedIffReferenced' /\ FreshUnused'
      BY <2>1 DEF DispatcherInv, ListedIffReferenced, FreshUnused
  <2>8. ClosedIdle'
      BY <1>1, <2>1, <2>3 DEF DispatcherInv, ClosedIdle
  <2> QED  BY <2>4, <2>6, <2>7, <2>8 DEF DispatcherInv
<1>3. CASE EmptyBody(p)
  <2>1. /\ readOp' = [readOp EXCEPT ![p] = "body_done"]
        /\ received < MaxMessages /\ received' = received + 1
        /\ UNCHANGED <<service, peers_list, current_conn_id, reference_count,
               error_happened, socketOpen, link, writeQ, writesOk,
               writesFailed, wire, joined, distributed>>
      BY <1>3 DEF EmptyBody, peerVars, writeVars
  <2>2. /\ readOp' \in [Conns -> ReadStates] /\ readOp'[p] = "body_done"
        /\ \A q \in Conns \ {p} : readOp'[q] = readOp[q]
      BY <2>1 DEF DispatcherInv, TypeOK, ReadStates
  <2>3. TypeOK'
    <3>1. received' \in 0..MaxMessages
        BY <2>1, Constants DEF DispatcherInv, TypeOK
    <3> QED  BY <2>1, <2>2, <3>1 DEF DispatcherInv, TypeOK
  <2>4. \A q \in Conns : Receives(q)' = Receives(q)
      BY <1>1, <2>2 DEF Receives
  <2>5. HandlersCounted'
      BY <2>1, <2>4 DEF DispatcherInv, HandlersCounted, Outstanding
  <2>6. ListedIffReferenced' /\ FreshUnused'
      BY <2>1 DEF DispatcherInv, ListedIffReferenced, FreshUnused
  <2>7. ClosedIdle'
      BY <1>1, <2>1, <2>2 DEF DispatcherInv, ClosedIdle
  <2> QED  BY <2>3, <2>5, <2>6, <2>7 DEF DispatcherInv
<1>4. CASE ReadHandlerFails(p)
    BY <1>1, <1>4, ReadHandlerFailsInv
<1>5. CASE /\ service' = "terminated"
           /\ UNCHANGED <<peers_list, current_conn_id, peerVars, link, readOp,
                          writeVars, history>>
    BY <1>1, <1>5 DEF DispatcherInv, TypeOK, HandlersCounted, Outstanding,
        Receives, ListedIffReferenced, FreshUnused, ClosedIdle, peerVars,
        writeVars, history
<1> QED  BY <1>2, <1>3, <1>4, <1>5 DEF RcvHeaderHandler, EmptyBody

LEMMA RcvHandlerErrorInv ==
    ASSUME DispatcherInv, NEW p \in Conns,
           RcvHeaderHandlerError(p) \/ RcvBodyHandlerError(p)
    PROVE  DispatcherInv'
BY ReadHandlerFailsInv DEF RcvHeaderHandlerError, RcvBodyHandlerError

LEMMA SendHandlerInv ==
    ASSUME DispatcherInv, NEW p \in Conns, SendHandler(p)
    PROVE  DispatcherInv'
<1>1. /\ service = "running" /\ writesOk[p] > 0
      /\ Release(p, reference_count[p] - 1)
      /\ writesOk' = [writesOk EXCEPT ![p] = @ - 1]
      /\ UNCHANGED <<service, current_conn_id, error_happened, socketOpen,
             link, readOp, writeQ, writesFailed, wire, joined, received,
             distributed>>
    BY DEF SendHandler, history
<1>2. reference_count[p] > 0 /\ p <= current_conn_id
    BY <1>1, BusyPeer
<1>3. /\ reference_count' \in [Conns -> Nat]
      /\ reference_count'[p] = reference_count[p] - 1
      /\ \A q \in Conns \ {p} : reference_count'[q] = reference_count[q]
      /\ peers_list' \subseteq Conns
      /\ ListedIffReferenced'
    BY <1>1, <1>2, ReleaseStep
<1>4. /\ writesOk' \in [Conns -> Nat]
      /\ writesOk'[p] = writesOk[p] - 1
      /\ \A q \in Conns \ {p} : writesOk'[q] = writesOk[q]
    BY <1>1 DEF DispatcherInv, TypeOK
<1>5. TypeOK'
  <2> TypeOK
      BY DEF DispatcherInv
  <2> QED  BY <1>1, <1>3, <1>4 DEF TypeOK
<1>6. HandlersCounted'
  <2>1. NumbersOf(p) /\ reference_count[p] \in Nat
      BY Numbers DEF DispatcherInv, TypeOK
  <2>2. Changes(p, 0 + 0 + -1 + 0, 0, 0, -1, 0)
    <3>1. Receives(p)' = Receives(p)
        BY <1>1 DEF Receives
    <3> QED  BY <1>1, <1>3, <1>4, <2>1, <3>1 DEF Changes, NumbersOf
  <2>3. \A q \in Conns \ {p} : Untouched(q)
      BY <1>1, <1>3, <1>4 DEF Untouched, Receives
  <2> QED  BY <1>5, <2>2, <2>3, RecountAll
<1>7. FreshUnused'
    BY <1>1, <1>2, <1>3 DEF DispatcherInv, TypeOK, FreshUnused, Conns
<1>8. ClosedIdle'
    BY <1>1 DEF DispatcherInv, ClosedIdle
<1> QED  BY <1>3, <1>5, <1>6, <1>7, <1>8 DEF DispatcherInv

LEMMA SendHandlerErrorInv ==
    ASSUME DispatcherInv, NEW p \in Conns, SendHandlerError(p)
    PROVE  DispatcherInv'
<1>1. /\ service = "running" /\ writesFailed[p] > 0
      /\ PostError(p, 1) /\ Release(p, reference_count[p] - 1)
      /\ readOp' = [readOp EXCEPT
             ![p] = IF Reports(p) THEN AbortRead(@) ELSE @]
      /\ UNCHANGED <<service, current_conn_id, link, writesOk, wire, joined,
                     received, distributed>>
    BY DEF SendHandlerError, history
<1>2. p \in peers_list /\ reference_count[p] > 0 /\ p <= current_conn_id
    BY <1>1, BusyPeer
<1>3. writesFailed[p] \in Nat /\ writesFailed[p] >= 1
    BY <1>1 DEF DispatcherInv, TypeOK
<1>4. /\ error_happened' \in [Conns -> BOOLEAN]
      /\ socketOpen' \in [Conns -> BOOLEAN]
      /\ writeQ' \in [Conns -> Seq(WriteOp)]
      /\ writesFailed' \in [Conns -> Nat]
      /\ ~socketOpen'[p] /\ writeQ'[p] = <<>>
      /\ writesFailed'[p] = (writesFailed[p] - 1) + Len(writeQ[p])
      /\ \A q \in Conns \ {p} :
             UNCHANGED <<error_happened[q], socketOpen[q], writeQ[q],
                         writesFailed[q]>>
    BY <1>1, <1>2, <1>3, PostErrorStep
<1>5. /\ reference_count' \in [Conns -> Nat]
      /\ reference_count'[p] = reference_count[p] - 1
      /\ \A q \in Conns \ {p} : reference_count'[q] = reference_count[q]
      /\ peers_list' \subseteq Conns
      /\ ListedIffReferenced'
    BY <1>1, <1>2, ReleaseStep
<1>6. /\ readOp' \in [Conns -> ReadStates]
      /\ readOp'[p] \notin {"header", "body"}
      /\ readOp'[p] = "none" <=> readOp[p] = "none"
      /\ \A q \in Conns \ {p} : readOp'[q] = readOp[q]
  <2>1. readOp[p] \in ReadStates
      BY DEF DispatcherInv, TypeOK
  <2>2. ~Reports(p) => readOp[p] \notin {"header", "body"}
      BY <1>1, <1>2 DEF Reports, DispatcherInv, ClosedIdle
  <2>3. readOp'[p] = IF Reports(p) THEN AbortRead(readOp[p]) ELSE readOp[p]
      BY <1>1 DEF DispatcherInv, TypeOK
  <2>4. /\ readOp'[p] \in ReadStates
        /\ readOp'[p] \notin {"header", "body"}
        /\ readOp'[p] = "none" <=> readOp[p] = "none"
      BY <2>1, <2>2, <2>3 DEF AbortRead, ReadStates
  <2>5. readOp' = [readOp EXCEPT ![p] = readOp'[p]]
      BY <1>1, <2>3
  <2> QED  BY <2>4, <2>5 DEF DispatcherInv, TypeOK
<1>7. TypeOK'
  <2> TypeOK
      BY DEF DispatcherInv
  <2> QED  BY <1>1, <1>4, <1>5, <1>6 DEF TypeOK
<1>8. HandlersCounted'
  <2> DEFINE l == Len(writeQ[p])  d == l - 1
  <2>1. l \in Nat /\ NumbersOf(p) /\ reference_count[p] \in Nat
      BY Numbers DEF DispatcherInv, TypeOK, NumbersOf
  <2>2. Len(writeQ'[p]) = 0
      BY <1>4, EmptySeq
  <2>3. Receives(p)' = Receives(p) /\ writesOk'[p] = writesOk[p]
      BY <1>1, <1>6 DEF Receives
  <2>4. Changes(p, 0 + (-l) + 0 + d, 0, -l, 0, d)
      BY <1>3, <1>4, <1>5, <2>1, <2>2, <2>3 DEF Changes, NumbersOf
  <2>5. \A q \in Conns \ {p} : Untouched(q)
      BY <1>1, <1>4, <1>5, <1>6 DEF Untouched, Receives
  <2>6. -l \in Int /\ d \in Int
      BY <2>1
  <2> HIDE DEF l, d
  <2> QED  BY <1>7, <2>4, <2>5, <2>6, RecountAll
<1>9. FreshUnused'
    BY <1>1, <1>2, <1>4, <1>5 DEF DispatcherInv, TypeOK, FreshUnused, Conns
<1>10. ClosedIdle'
    BY <1>1, <1>4, <1>6, ZenonT(40) DEF DispatcherInv, TypeOK, ClosedIdle
<1> QED  BY <1>5, <1>7, <1>8, <1>9, <1>10 DEF DispatcherInv

\* Distribution: each listed peer gets one write and one reference more.
LEMMA DistributeStep ==
    ASSUME DispatcherInv, NEW p \in Conns, NEW m \in Nat,
           DistributeMessage(p, m), NEW q \in Conns
    PROVE  /\ writeQ'[q] \in Seq(WriteOp)
           /\ writesFailed'[q] \in Nat /\ reference_count'[q] \in Nat
           /\ q \notin peers_list =>
                  UNCHANGED <<reference_count[q], writeQ[q], writesFailed[q]>>
           /\ q \in peers_list /\ socketOpen[q] =>
                  /\ reference_count'[q] = reference_count[q] + 1
                  /\ Len(writeQ'[q]) = Len(writeQ[q]) + 1
                  /\ writesFailed'[q] = writesFailed[q]
           /\ q \in peers_list /\ ~socketOpen[q] =>
                  /\ reference_count'[q] = reference_count[q] + 1
                  /\ writeQ'[q] = writeQ[q]
                  /\ writesFailed'[q] = writesFailed[q] + 1
<1> DEFINE new == [msg |-> m, taken |-> 0]
<1>1. /\ reference_count[q] \in Nat /\ writesFailed[q] \in Nat
      /\ writeQ[q] \in Seq(WriteOp)
    BY DEF DispatcherInv, TypeOK
<1>2. new \in WriteOp
    BY Constants DEF WriteOp
<1>3. /\ writeQ'[q] = IF q \in peers_list /\ socketOpen[q]
                        THEN Append(writeQ[q], new) ELSE writeQ[q]
      /\ writesFailed'[q] = writesFailed[q]
             + IF q \in peers_list /\ ~socketOpen[q] THEN 1 ELSE 0
      /\ reference_count'[q] = reference_count[q]
             + IF q \in peers_list THEN 1 ELSE 0
    BY DEF DistributeMessage
<1> HIDE DEF new
<1>4. /\ Append(writeQ[q], new) \in Seq(WriteOp)
      /\ Len(Append(writeQ[q], new)) = Len(writeQ[q]) + 1
    BY <1>1, <1>2, AppendProperties
<1>5. CASE q \notin peers_list
    BY <1>1, <1>3, <1>5
<1>6. CASE q \in peers_list /\ socketOpen[q]
    BY <1>1, <1>3, <1>4, <1>6
<1>7. CASE q \in peers_list /\ ~socketOpen[q]
    BY <1>1, <1>3, <1>7
<1> QED  BY <1>5, <1>6, <1>7

LEMMA RcvBodyHandlerInv ==
    ASSUME DispatcherInv, NEW p \in Conns, RcvBodyHandler(p)
    PROVE  DispatcherInv'
<1> DEFINE m == distributed + 1
<1>1. /\ service = "running" /\ readOp[p] = "body_done"
      /\ readOp' = [readOp EXCEPT ![p] = StartRead(p, "header")]
      /\ UNCHANGED <<service, peers_list, current_conn_id, error_happened,
             socketOpen, link, writesOk, wire, joined, received>>
    BY DEF RcvBodyHandler
<1>2. p \in peers_list
    BY <1>1, BusyPeer
<1>3. m \in Nat /\ DistributeMessage(p, m)
    BY <1>2 DEF RcvBodyHandler, DispatcherInv, TypeOK
<1> HIDE DEF m
<1>4. /\ StartRead(p, "header") \in {"header", "header_error"}
      /\ StartRead(p, "header") = "header" => socketOpen[p]
    BY DEF StartRead, AbortRead
<1>5. /\ readOp' \in [Conns -> ReadStates]
      /\ readOp'[p] \in {"header", "header_error"}
      /\ readOp'[p] = "header" => socketOpen[p]
      /\ \A q \in Conns \ {p} : readOp'[q] = readOp[q]
    BY <1>1, <1>4 DEF DispatcherInv, TypeOK, ReadStates
<1>6. ASSUME NEW q \in Conns
      PROVE  /\ writeQ'[q] \in Seq(WriteOp)
             /\ writesFailed'[q] \in Nat /\ reference_count'[q] \in Nat
             /\ q \notin peers_list =>
                    UNCHANGED <<reference_count[q], writeQ[q], writesFailed[q]>>
             /\ q \in peers_list /\ socketOpen[q] =>
                    /\ reference_count'[q] = reference_count[q] + 1
                    /\ Len(writeQ'[q]) = Len(writeQ[q]) + 1
                    /\ writesFailed'[q] = writesFailed[q]
             /\ q \in peers_list /\ ~socketOpen[q] =>
                    /\ reference_count'[q] = reference_count[q] + 1
                    /\ writeQ'[q] = writeQ[q]
                    /\ writesFailed'[q] = writesFailed[q] + 1
    BY <1>3, DistributeStep
<1>7. TypeOK'
  <2> TypeOK
      BY DEF DispatcherInv
  <2>1. writeQ' \in [Conns -> Seq(WriteOp)]
      BY <1>3, <1>6 DEF DistributeMessage
  <2>2. writesFailed' \in [Conns -> Nat]
      BY <1>3, <1>6 DEF DistributeMessage
  <2>3. reference_count' \in [Conns -> Nat]
      BY <1>3, <1>6 DEF DistributeMessage
  <2>4. distributed' \in Nat
      BY <1>3 DEF DistributeMessage
  <2> QED  BY <1>1, <1>5, <2>1, <2>2, <2>3, <2>4 DEF TypeOK
<1>8. HandlersCounted'
  <2> SUFFICES ASSUME NEW q \in Conns
               PROVE  reference_count'[q] = Outstanding(q)'
      BY DEF HandlersCounted
  <2>1. /\ NumbersOf(q) /\ reference_count[q] \in Nat
        /\ writesOk'[q] = writesOk[q]
      BY <1>1, Numbers DEF DispatcherInv, TypeOK
  <2>2. Receives(q)' = Receives(q)
      BY <1>1, <1>5 DEF Receives
  <2>3. CASE q \notin peers_list
    <3>1. Changes(q, 0 + 0 + 0 + 0, 0, 0, 0, 0)
        BY <1>6, <2>1, <2>2, <2>3 DEF Changes, NumbersOf
    <3> QED  BY <1>7, <3>1, Recount
  <2>4. CASE q \in peers_list /\ socketOpen[q]
    <3>1. Changes(q, 0 + 1 + 0 + 0, 0, 1, 0, 0)
        BY <1>6, <2>1, <2>2, <2>4 DEF Changes, NumbersOf
    <3> QED  BY <1>7, <3>1, Recount
  <2>5. CASE q \in peers_list /\ ~socketOpen[q]
    <3>1. Changes(q, 0 + 0 + 0 + 1, 0, 0, 0, 1)
        BY <1>6, <2>1, <2>2, <2>5 DEF Changes, NumbersOf
    <3> QED  BY <1>7, <3>1, Recount
  <2> QED  BY <2>3, <2>4, <2>5
<1>9. ASSUME NEW q \in Conns
      PROVE  q \in peers_list' <=> reference_count'[q] > 0
  <2>1. reference_count[q] \in Nat /\ (q \in peers_list <=> reference_count[q] > 0)
      BY <1>1 DEF DispatcherInv, TypeOK, ListedIffReferenced
  <2>2. CASE q \in peers_list
      BY <1>1, <1>6, <2>1, <2>2
  <2>3. CASE q \notin peers_list
      BY <1>1, <1>6, <2>1, <2>3
  <2> QED  BY <2>2, <2>3
<1>10. FreshUnused'
  <2>1. ASSUME NEW q \in Conns, q > current_conn_id
        PROVE  reference_count'[q] = 0 /\ ~socketOpen[q]
    <3>1. reference_count[q] = 0 /\ ~socketOpen[q]
        BY <2>1 DEF DispatcherInv, FreshUnused
    <3>2. q \notin peers_list
        BY <1>1, <3>1 DEF DispatcherInv, ListedIffReferenced
    <3> QED  BY <1>6, <3>1, <3>2
  <2> QED  BY <1>1, <2>1 DEF FreshUnused
<1>11. ClosedIdle'
  <2> SUFFICES ASSUME NEW q \in Conns
               PROVE  /\ ~socketOpen[q] => /\ writeQ'[q] = <<>>
                                            /\ readOp'[q] \notin {"header", "body"}
                      /\ error_happened[q] \/ readOp'[q] = "none" =>
                             ~socketOpen[q]
      BY <1>1 DEF ClosedIdle
  <2>1. /\ ~socketOpen[q] => /\ writeQ[q] = <<>>
                              /\ readOp[q] \notin {"header", "body"}
        /\ error_happened[q] \/ readOp[q] = "none" => ~socketOpen[q]
      BY <1>1 DEF DispatcherInv, ClosedIdle
  <2>2. ~socketOpen[q] => writeQ'[q] = <<>>
      BY <1>6, <2>1
  <2> QED  BY <1>5, <2>1, <2>2
<1>12. ListedIffReferenced'
    BY <1>1, <1>9 DEF ListedIffReferenced
<1> QED  BY <1>7, <1>8, <1>10, <1>11, <1>12 DEF DispatcherInv

-----------------------------------------------------------------------------
(* The invariant *)

LEMMA NextInv == DispatcherInv /\ [Next]_vars => DispatcherInv'
<1> SUFFICES ASSUME DispatcherInv, [Next]_vars
             PROVE  DispatcherInv'
    OBVIOUS
<1>1. CASE AcceptHandler
    BY <1>1, AcceptHandlerInv
<1>2. CASE AcceptError \/ Over
    BY <1>2, StopInv
<1>3. CASE DestroyServer
    BY <1>3, DestroyServerInv
<1>4. ASSUME NEW p \in Conns, Handler(p)
      PROVE  DispatcherInv'
  <2>1. CASE RcvHeaderHandlerError(p) \/ RcvBodyHandlerError(p)
      BY <2>1, RcvHandlerErrorInv
  <2>2. CASE RcvHeaderHandler(p)
      BY <2>2, RcvHeaderHandlerInv
  <2>3. CASE RcvBodyHandler(p)
      BY <2>3, RcvBodyHandlerInv
  <2>4. CASE SendHandler(p)
      BY <2>4, SendHandlerInv
  <2>5. CASE SendHandlerError(p)
      BY <2>5, SendHandlerErrorInv
  <2> QED  BY <1>4, <2>1, <2>2, <2>3, <2>4, <2>5 DEF Handler
<1>5. ASSUME NEW p \in Conns, Environment(p)
      PROVE  DispatcherInv'
  <2>1. CASE LinkBreaks(p)
      BY <2>1, LinkBreaksInv
  <2>2. CASE ReadCompletes(p)
      BY <2>2, ReadCompletesInv
  <2>3. CASE ReadFails(p)
      BY <2>3, ReadFailsInv
  <2>4. CASE WriteSome(p)
      BY <2>4, WriteSomeInv
  <2>5. CASE WriteFails(p)
      BY <2>5, WriteFailsInv
  <2> QED  BY <1>5, <2>1, <2>2, <2>3, <2>4, <2>5 DEF Environment
<1>6. CASE UNCHANGED vars
    BY <1>6 DEF DispatcherInv, TypeOK, HandlersCounted, Outstanding, Receives,
        ListedIffReferenced, FreshUnused, ClosedIdle, vars, peerVars,
        writeVars, history
<1> QED  BY <1>1, <1>2, <1>3, <1>4, <1>5, <1>6 DEF Next

\* What the invariant says of the peers, in the terms of the properties.
LEMMA InvImplies ==
    ASSUME DispatcherInv
    PROVE  NoUseAfterDelete /\ NoPeerForgotten /\ DeafPeerIsClosed
<1>1. \A p \in Conns : /\ reference_count[p] = Outstanding(p)
                       /\ reference_count[p] \in Nat
    BY DEF DispatcherInv, TypeOK, HandlersCounted
<1>2. NoUseAfterDelete
    BY <1>1 DEF DispatcherInv, ListedIffReferenced, NoUseAfterDelete
<1>3. CASE service # "destroyed"
  <2>1. NoPeerForgotten
      BY <1>1, <1>3 DEF DispatcherInv, TypeOK, ListedIffReferenced,
          NoPeerForgotten
  <2>2. DeafPeerIsClosed
      BY <1>3 DEF DispatcherInv, TypeOK, ClosedIdle, DeafPeerIsClosed
  <2> QED  BY <1>2, <2>1, <2>2
<1>4. CASE service = "destroyed"
    BY <1>2, <1>4 DEF DispatcherInv, ListedIffReferenced, NoPeerForgotten,
        DeafPeerIsClosed
<1> QED  BY <1>3, <1>4

\* A step leaves a closed socket closed and its stream as it was.
LEMMA ClosedStep ==
    ASSUME DispatcherInv, [Next]_vars,
           NEW q \in Conns, q <= current_conn_id, ~socketOpen[q]
    PROVE  ~socketOpen'[q] /\ UNCHANGED wire[q]
<1>1. CASE AcceptHandler
  <2>1. q # current_conn_id + 1
      BY DEF DispatcherInv, TypeOK, Conns
  <2> QED  BY <1>1, <2>1 DEF DispatcherInv, TypeOK, AcceptHandler,
              getNextConnectionId
<1>2. CASE AcceptError \/ Over \/ UNCHANGED vars
    BY <1>2 DEF AcceptError, Over, vars, peerVars, history
<1>3. CASE DestroyServer
    BY <1>3 DEF DestroyServer, history
<1>4. ASSUME NEW p \in Conns, Handler(p)
      PROVE  ~socketOpen'[q] /\ UNCHANGED wire[q]
  <2>1. UNCHANGED wire
      BY <1>4 DEF Handler, RcvHeaderHandlerError, RcvHeaderHandler,
          RcvBodyHandlerError, RcvBodyHandler, SendHandler, SendHandlerError,
          ReadHandlerFails, history
  <2>2. PostError(p, 0) \/ PostError(p, 1) \/ UNCHANGED socketOpen
      BY <1>4 DEF Handler, RcvHeaderHandlerError, RcvHeaderHandler,
          RcvBodyHandlerError, RcvBodyHandler, SendHandler, SendHandlerError,
          ReadHandlerFails, peerVars
  <2>3. CASE PostError(p, 0) \/ PostError(p, 1)
      BY <2>1, <2>3 DEF DispatcherInv, TypeOK, PostError
  <2> QED  BY <2>1, <2>2, <2>3
<1>5. ASSUME NEW p \in Conns, Environment(p)
      PROVE  ~socketOpen'[q] /\ UNCHANGED wire[q]
  <2>1. UNCHANGED socketOpen
      BY <1>5 DEF Environment, LinkBreaks, ReadCompletes, ReadFails,
          WriteSome, WriteFails, peerVars
  <2>2. CASE WriteSome(p)
    <3> DEFINE op == Head(writeQ[p])
               chunks(n) == [i \in 1..n |-> [msg |-> op.msg,
                                             chunk |-> op.taken + i]]
    <3>1. p # q
        BY <2>2 DEF DispatcherInv, ClosedIdle, WriteSome
    <3>2. PICK n \in 1..(Chunks - op.taken) :
              wire' = [wire EXCEPT ![p] = @ \o chunks(n)]
        BY <2>2 DEF WriteSome
    <3> HIDE DEF op, chunks
    <3> QED  BY <2>1, <3>1, <3>2 DEF DispatcherInv, TypeOK
  <2>3. CASE ~WriteSome(p)
      BY <1>5, <2>1, <2>3 DEF Environment, LinkBreaks, ReadCompletes,
          ReadFails, WriteFails, history
  <2> QED  BY <2>2, <2>3
<1> QED  BY <1>1, <1>2, <1>3, <1>4, <1>5 DEF Next

-----------------------------------------------------------------------------
(* How a closed peer drains *)

LEMMA HandlersLeftType == ASSUME NEW r PROVE HandlersLeft(r) \in Nat
BY DEF HandlersLeft

\* The step moves the receive of p by a handlers, and adds b and c to its
\* queued successful and failed writes.
Moves(p, a, b, c) ==
    /\ HandlersLeft(readOp'[p]) <= HandlersLeft(readOp[p]) + a
    /\ writeQ'[p] = writeQ[p]
    /\ writesOk'[p] = writesOk[p] + b
    /\ writesFailed'[p] = writesFailed[p] + c

LEMMA SumMoves ==
    ASSUME NEW h \in Nat, NEW hN \in Nat, NEW l \in Nat, NEW w \in Nat,
           NEW f \in Nat, NEW a \in Int, NEW b \in Int, NEW c \in Int,
           hN <= h + a
    PROVE  hN + l + (w + b) + (f + c) <= (h + l + w + f) + (a + b + c)
OBVIOUS

\* What is left of a peer moves with its receive and its finished writes.
LEMMA LeftMoves ==
    ASSUME TypeOK, TypeOK', NEW p \in Conns,
           NEW a \in Int, NEW b \in Int, NEW c \in Int,
           Moves(p, a, b, c)
    PROVE  /\ Left(p) \in Nat /\ Left(p)' \in Nat
           /\ Left(p)' <= Left(p) + (a + b + c)
<1> DEFINE h == HandlersLeft(readOp[p])  hN == HandlersLeft(readOp'[p])
           l == Len(writeQ[p])
           w == writesOk[p]              wN == writesOk'[p]
           f == writesFailed[p]          fN == writesFailed'[p]
<1>1. h \in Nat /\ hN \in Nat
    BY HandlersLeftType
<1>2. /\ l \in Nat
      /\ w \in Nat /\ wN \in Nat /\ f \in Nat /\ fN \in Nat
    BY Numbers, NumbersNext DEF NumbersOf
<1>3. hN <= h + a /\ wN = w + b /\ fN = f + c
    BY DEF Moves
<1>4. Left(p) = h + l + w + f /\ Left(p)' = hN + l + wN + fN
    BY DEF Left, Moves
<1> HIDE DEF h, hN, l, w, wN, f, fN
<1>5. hN + l + wN + fN <= (h + l + w + f) + (a + b + c)
    BY <1>1, <1>2, <1>3, SumMoves
<1>6. h + l + w + f \in Nat /\ hN + l + wN + fN \in Nat
    BY <1>1, <1>2
<1> QED  BY <1>4, <1>5, <1>6

\* What PeerDrains says of one step and one peer.
Falls(p) == Left(p)' < Left(p)
Stays(p) == Left(p)' <= Left(p) + (distributed' - distributed)

LEMMA SmallerSum ==
    ASSUME NEW l \in Nat, NEW lN \in Nat, NEW d \in Nat, NEW dN \in Nat,
           NEW s \in Int, lN <= l + s, s < 0, dN >= d
    PROVE  lN < l /\ lN <= l + (dN - d)
OBVIOUS

LEMMA FallsBy ==
    ASSUME TypeOK, TypeOK', NEW p \in Conns,
           NEW a \in Int, NEW b \in Int, NEW c \in Int, a + b + c < 0,
           Moves(p, a, b, c), distributed' >= distributed
    PROVE  Falls(p) /\ Stays(p)
<1> DEFINE l == Left(p)  lN == Left(p)'  d == distributed  dN == distributed'
           s == a + b + c
<1>1. l \in Nat /\ lN \in Nat /\ lN <= l + s
    BY LeftMoves
<1>2. d \in Nat /\ dN \in Nat /\ dN >= d /\ s \in Int /\ s < 0
    BY DEF TypeOK
<1>3. /\ Falls(p) <=> lN < l
      /\ Stays(p) <=> lN <= l + (dN - d)
    BY DEF Falls, Stays
<1> HIDE DEF l, lN, d, dN, s
<1>4. lN < l /\ lN <= l + (dN - d)
    BY <1>1, <1>2, SmallerSum
<1> QED  BY <1>3, <1>4

\* p itself is left alone by the step, up to a write that fails at once.
LEMMA StaysBy ==
    ASSUME TypeOK, TypeOK', NEW p \in Conns, NEW c \in Int,
           readOp'[p] = readOp[p],
           writeQ'[p] = writeQ[p],
           writesOk'[p] = writesOk[p],
           writesFailed'[p] = writesFailed[p] + c,
           distributed' = distributed + c
    PROVE  Stays(p)
<1> DEFINE l == Left(p)  lN == Left(p)'
<1>1. PICK z \in Int : z = 0
    OBVIOUS
<1>2. Moves(p, z, z, c)
  <2>1. HandlersLeft(readOp[p]) \in Nat
      BY HandlersLeftType
  <2>2. HandlersLeft(readOp'[p]) <= HandlersLeft(readOp[p]) + 0
      BY <2>1
  <2>3. writesOk'[p] = writesOk[p] + 0
      BY DEF TypeOK
  <2> QED  BY <1>1, <2>2, <2>3 DEF Moves
<1>3. z + z + c = c
    BY <1>1
<1>4. l \in Nat /\ lN \in Nat /\ lN <= l + (z + z + c)
    BY <1>2, LeftMoves
<1>5. distributed' - distributed = c
    BY DEF TypeOK
<1> HIDE DEF l, lN
<1>6. lN <= l + (distributed' - distributed)
    BY <1>3, <1>4, <1>5
<1> QED  BY <1>6 DEF Stays, l, lN

\* A closed peer has nothing pending.
LEMMA ClosedPeer ==
    ASSUME DispatcherInv, service = "running", NEW p \in Conns,
           ~socketOpen[p]
    PROVE  /\ writeQ[p] = <<>> /\ Len(writeQ[p]) = 0
           /\ readOp[p] \notin {"header", "body"}
BY EmptySeq DEF DispatcherInv, ClosedIdle

LEMMA HandlerDrains ==
    ASSUME DispatcherInv, TypeOK', NEW p \in Conns, p \in peers_list,
           ~socketOpen[p], service' = "running", Handler(p)
    PROVE  Falls(p) /\ Stays(p)
<1> TypeOK
    BY DEF DispatcherInv
<1>1. service = "running"
    BY DEF Handler, RcvHeaderHandlerError, RcvHeaderHandler,
        RcvBodyHandlerError, RcvBodyHandler, SendHandler, SendHandlerError
<1>2. /\ writeQ[p] = <<>> /\ Len(writeQ[p]) = 0
      /\ readOp[p] \notin {"header", "body"}
    BY <1>1, ClosedPeer
<1>3. /\ writesOk[p] \in Nat /\ writesFailed[p] \in Nat
      /\ distributed \in Nat /\ readOp \in [Conns -> ReadStates]
    BY DEF TypeOK
<1>4. CASE /\ ReadHandlerFails(p)
           /\ readOp[p] \in {"header_error", "body_error", "header_done"}
  <2>1. PostError(p, 0) /\ writesFailed[p] >= 0
      BY <1>3, <1>4 DEF ReadHandlerFails
  <2>2. /\ writeQ'[p] = <<>>
        /\ writesFailed'[p] = (writesFailed[p] - 0) + Len(writeQ[p])
      BY <1>1, <2>1, PostErrorStep
  <2>3. /\ readOp'[p] = "none"
        /\ writesOk'[p] = writesOk[p] + 0
        /\ distributed' >= distributed
      BY <1>3, <1>4 DEF ReadHandlerFails, history
  <2>4. HandlersLeft(readOp'[p]) <= HandlersLeft(readOp[p]) + -1
      BY <1>4, <2>3 DEF HandlersLeft
  <2>5. writesFailed'[p] = writesFailed[p] + 0
      BY <1>2, <1>3, <2>2
  <2>6. Moves(p, -1, 0, 0)
      BY <1>2, <2>2, <2>3, <2>4, <2>5 DEF Moves
  <2> QED  BY <2>3, <2>6, FallsBy
<1>5. CASE RcvHeaderHandler(p) /\ ~ReadHandlerFails(p)
  <2>1. /\ readOp[p] = "header_done"
        /\ \/ readOp' = [readOp EXCEPT ![p] = StartRead(p, "body")]
           \/ readOp' = [readOp EXCEPT ![p] = "body_done"]
        /\ UNCHANGED <<writeQ, writesOk, writesFailed, distributed>>
      BY <1>5 DEF RcvHeaderHandler, writeVars, history
  <2>2. StartRead(p, "body") = "body_error"
      BY DEF StartRead, AbortRead
  <2>3. readOp'[p] \in {"body_error", "body_done"}
      BY <1>3, <2>1, <2>2
  <2>4. HandlersLeft(readOp'[p]) <= HandlersLeft(readOp[p]) + -1
      BY <2>1, <2>3 DEF HandlersLeft
  <2>5. /\ writesOk'[p] = writesOk[p] + 0
        /\ writesFailed'[p] = writesFailed[p] + 0
        /\ writeQ'[p] = writeQ[p] /\ distributed' >= distributed
      BY <1>3, <2>1
  <2>6. Moves(p, -1, 0, 0)
      BY <2>4, <2>5 DEF Moves
  <2> QED  BY <2>5, <2>6, FallsBy, SMTT(30)
<1>6. CASE RcvBodyHandler(p)
  <2>1. /\ readOp[p] = "body_done"
        /\ DistributeMessage(p, distributed + 1)
        /\ readOp' = [readOp EXCEPT ![p] = StartRead(p, "header")]
        /\ writesOk' = writesOk
      BY <1>6 DEF RcvBodyHandler
  <2>2. /\ writeQ'[p] = writeQ[p]
        /\ writesFailed'[p] = writesFailed[p] + 1
      BY <1>3, <2>1, DistributeStep
  <2>3. readOp'[p] = "header_error"
      BY <1>3, <2>1 DEF StartRead, AbortRead
  <2>4. HandlersLeft(readOp'[p]) <= HandlersLeft(readOp[p]) + -2
      BY <2>1, <2>3 DEF HandlersLeft
  <2>5. writesOk'[p] = writesOk[p] + 0 /\ distributed' >= distributed
      BY <1>3, <2>1 DEF DistributeMessage
  <2>6. Moves(p, -2, 0, 1)
      BY <2>2, <2>4, <2>5 DEF Moves
  <2> QED  BY <2>5, <2>6, FallsBy
<1>7. CASE SendHandler(p)
  <2>1. /\ writesOk'[p] = writesOk[p] + -1
        /\ writesFailed'[p] = writesFailed[p] + 0
        /\ writeQ'[p] = writeQ[p] /\ readOp'[p] = readOp[p]
        /\ distributed' >= distributed
      BY <1>3, <1>7 DEF SendHandler, history, TypeOK
  <2>2. HandlersLeft(readOp'[p]) <= HandlersLeft(readOp[p]) + 0
      BY <2>1, HandlersLeftType
  <2>3. Moves(p, 0, -1, 0)
      BY <2>1, <2>2 DEF Moves
  <2> QED  BY <2>1, <2>3, FallsBy
<1>8. CASE SendHandlerError(p)
  <2>1. PostError(p, 1) /\ writesFailed[p] >= 1
      BY <1>3, <1>8 DEF SendHandlerError
  <2>2. /\ writeQ'[p] = <<>>
        /\ writesFailed'[p] = (writesFailed[p] - 1) + Len(writeQ[p])
      BY <1>1, <2>1, PostErrorStep
  <2>3. readOp'[p] = readOp[p]
      BY <1>2, <1>3, <1>8 DEF SendHandlerError, AbortRead
  <2>4. HandlersLeft(readOp'[p]) <= HandlersLeft(readOp[p]) + 0
      BY <2>3, HandlersLeftType
  <2>5. /\ writesFailed'[p] = writesFailed[p] + -1
        /\ writesOk'[p] = writesOk[p] + 0 /\ distributed' >= distributed
      BY <1>2, <1>3, <1>8, <2>2 DEF SendHandlerError, history
  <2>6. Moves(p, 0, 0, -1)
      BY <1>2, <2>2, <2>4, <2>5 DEF Moves
  <2> QED  BY <2>5, <2>6, FallsBy
<1> QED  BY <1>4, <1>5, <1>6, <1>7, <1>8 DEF Handler, RcvHeaderHandlerError,
            RcvHeaderHandler, RcvBodyHandlerError

\* A step that is no handler of p.
LEMMA OthersDrain ==
    ASSUME DispatcherInv, TypeOK', [Next]_vars, NEW p \in Conns,
           p \in peers_list, ~socketOpen[p], service' = "running", ~Handler(p)
    PROVE  Stays(p)
<1> TypeOK
    BY DEF DispatcherInv
<1>1. /\ writesFailed[p] \in Nat /\ distributed \in Nat
      /\ readOp \in [Conns -> ReadStates]
      /\ writesOk \in [Conns -> Nat] /\ writesFailed \in [Conns -> Nat]
      /\ writeQ \in [Conns -> Seq(WriteOp)]
    BY DEF TypeOK
<1>2. SUFFICES \/ /\ UNCHANGED <<readOp[p], writeQ[p], writesOk[p],
                                 writesFailed[p], distributed>>
               \/ /\ UNCHANGED <<readOp[p], writeQ[p], writesOk[p]>>
                  /\ writesFailed'[p] = writesFailed[p] + 1
                  /\ distributed' = distributed + 1
  <2>1. CASE UNCHANGED <<readOp[p], writeQ[p], writesOk[p], writesFailed[p],
                         distributed>>
    <3>1. /\ writesFailed'[p] = writesFailed[p] + 0
          /\ distributed' = distributed + 0
        BY <1>1, <2>1
    <3> QED  BY <2>1, <3>1, StaysBy
  <2>2. CASE /\ UNCHANGED <<readOp[p], writeQ[p], writesOk[p]>>
             /\ writesFailed'[p] = writesFailed[p] + 1
             /\ distributed' = distributed + 1
      BY <2>2, StaysBy
  <2> QED  BY <2>1, <2>2
<1>3. CASE AcceptHandler
  <2>1. reference_count[p] > 0
      BY <1>3 DEF AcceptHandler, DispatcherInv, ListedIffReferenced
  <2>2. p # current_conn_id + 1
    <3>1. ~(p > current_conn_id)
        BY <2>1 DEF DispatcherInv, FreshUnused
    <3> QED  BY <3>1 DEF TypeOK, Conns
  <2>3. /\ readOp' = [readOp EXCEPT ![current_conn_id + 1] = "header"]
        /\ UNCHANGED <<writeQ, writesOk, writesFailed, distributed>>
      BY <1>3 DEF AcceptHandler, getNextConnectionId, writeVars
  <2> QED  BY <1>1, <2>2, <2>3
<1>4. CASE AcceptError \/ DestroyServer \/ Over \/ UNCHANGED vars
    BY <1>4 DEF AcceptError, DestroyServer, Over, vars, writeVars, history
<1>5. ASSUME NEW q \in Conns, Environment(q)
      PROVE  UNCHANGED <<readOp[p], writeQ[p], writesOk[p], writesFailed[p],
                         distributed>>
  <2>1. CASE LinkBreaks(q)
      BY <2>1 DEF LinkBreaks, writeVars, history
  <2>2. CASE ReadCompletes(q) \/ ReadFails(q)
    <3>1. service = "running" /\ readOp[q] \in {"header", "body"}
        BY <2>2 DEF ReadCompletes, ReadFails
    <3>2. q # p
        BY <3>1, ClosedPeer
    <3> QED  BY <1>1, <2>2, <3>2 DEF ReadCompletes, ReadFails, writeVars, history
  <2>3. CASE WriteSome(q)
    <3>1. service = "running" /\ writeQ[q] # <<>>
        BY <2>3 DEF WriteSome
    <3>2. q # p
        BY <3>1, ClosedPeer
    <3>3. /\ UNCHANGED <<readOp, writesFailed, distributed>>
          /\ \E x : writeQ' = [writeQ EXCEPT ![q] = x]
          /\ \E x : writesOk' = [writesOk EXCEPT ![q] = x]
      <4> DEFINE op == Head(writeQ[q])
                 next(n) == Append(Tail(writeQ[q]), [op EXCEPT !.taken = @ + n])
      <4>1. /\ UNCHANGED <<readOp, writesFailed, distributed>>
            /\ \E n \in 1..(Chunks - op.taken) :
                  \/ /\ writeQ' = [writeQ EXCEPT ![q] = Tail(@)]
                     /\ writesOk' = [writesOk EXCEPT ![q] = @ + 1]
                  \/ /\ writeQ' = [writeQ EXCEPT ![q] = next(n)]
                     /\ UNCHANGED writesOk
          BY <2>3 DEF WriteSome
      <4>2. writesOk = [writesOk EXCEPT ![q] = writesOk[q]]
          BY <1>1
      <4> HIDE DEF op, next
      <4> QED  BY <4>1, <4>2
    <3> QED  BY <1>1, <3>2, <3>3
  <2>4. CASE WriteFails(q)
    <3>1. service = "running" /\ writeQ[q] # <<>>
        BY <2>4 DEF WriteFails
    <3>2. q # p
        BY <3>1, ClosedPeer
    <3> QED  BY <1>1, <2>4, <3>2 DEF WriteFails, history
  <2> QED  BY <1>5, <2>1, <2>2, <2>3, <2>4 DEF Environment
<1>6. ASSUME NEW q \in Conns, Handler(q), ~RcvBodyHandler(q)
      PROVE  UNCHANGED <<readOp[p], writeQ[p], writesOk[p], writesFailed[p],
                         distributed>>
  <2>1. q # p
      BY <1>6
  <2>2. CASE ReadHandlerFails(q)
      BY <1>1, <2>1, <2>2 DEF ReadHandlerFails, PostError, history
  <2>3. CASE RcvHeaderHandler(q) /\ ~ReadHandlerFails(q)
      BY <1>1, <2>1, <2>3 DEF RcvHeaderHandler, writeVars, history
  <2>4. CASE SendHandler(q)
      BY <1>1, <2>1, <2>4 DEF SendHandler, history
  <2>5. CASE SendHandlerError(q)
      BY <1>1, <2>1, <2>5 DEF SendHandlerError, PostError, history
  <2> QED  BY <1>6, <2>2, <2>3, <2>4, <2>5 DEF Handler,
              RcvHeaderHandlerError, RcvBodyHandlerError
<1>7. ASSUME NEW q \in Conns, RcvBodyHandler(q)
      PROVE  /\ UNCHANGED <<readOp[p], writeQ[p], writesOk[p]>>
             /\ writesFailed'[p] = writesFailed[p] + 1
             /\ distributed' = distributed + 1
  <2>1. q # p
      BY <1>7 DEF Handler
  <2>2. service = "running" /\ readOp[q] = "body_done"
      BY <1>7 DEF RcvBodyHandler
  <2>3. q \in peers_list
      BY <2>2, BusyPeer
  <2>4. /\ DistributeMessage(q, distributed + 1)
        /\ readOp' = [readOp EXCEPT ![q] = StartRead(q, "header")]
        /\ writesOk' = writesOk
      BY <1>7, <2>3 DEF RcvBodyHandler
  <2>5. distributed + 1 \in Nat
      BY <1>1
  <2>6. /\ writeQ'[p] = writeQ[p]
        /\ writesFailed'[p] = writesFailed[p] + 1
      BY <2>4, <2>5, DistributeStep
  <2> QED  BY <1>1, <2>1, <2>4, <2>6 DEF DistributeMessage
<1> QED  BY <1>3, <1>4, <1>5, <1>6, <1>7 DEF Next

-----------------------------------------------------------------------------
(* The bodies that wait for their handler *)

\* The steps that read no body and run no handler of one.
LEMMA BodiesUntouched ==
    ASSUME UNCHANGED <<received, distributed>>,
           \A q \in Conns : readOp'[q] = "body_done" <=> readOp[q] = "body_done",
           BodiesAccounted
    PROVE  BodiesAccounted'
<1>1. BodiesWaiting' = BodiesWaiting
    BY DEF BodiesWaiting
<1> QED  BY <1>1 DEF BodiesAccounted

LEMMA BodiesFinite == IsFiniteSet(BodiesWaiting) /\ Cardinality(BodiesWaiting) \in Nat
<1>1. IsFiniteSet(Conns)
    BY Constants, FS_Interval DEF Conns
<1>2. BodiesWaiting \in SUBSET Conns
    BY DEF BodiesWaiting
<1> QED  BY <1>1, <1>2, FS_Subset, FS_CardinalityType

\* One more body was read, and waits.
LEMMA BodyArrives ==
    ASSUME NEW p \in Conns, readOp \in [Conns -> ReadStates],
           received \in Nat, distributed \in Nat,
           readOp[p] # "body_done",
           readOp' = [readOp EXCEPT ![p] = "body_done"],
           received' = received + 1, UNCHANGED distributed, BodiesAccounted
    PROVE  BodiesAccounted'
<1>1. BodiesWaiting' = BodiesWaiting \union {p} /\ p \notin BodiesWaiting
    BY DEF BodiesWaiting
<1>2. Cardinality(BodiesWaiting') = Cardinality(BodiesWaiting) + 1
    BY <1>1, BodiesFinite, FS_AddElement
<1> QED  BY <1>2, BodiesFinite DEF BodiesAccounted

LEMMA BodiesStep ==
    DispatcherInv /\ BodiesAccounted /\ [Next]_vars => BodiesAccounted'
<1> SUFFICES ASSUME DispatcherInv, BodiesAccounted, [Next]_vars
             PROVE  BodiesAccounted'
    OBVIOUS
<1>1. /\ readOp \in [Conns -> ReadStates]
      /\ received \in Nat /\ distributed \in Nat
    BY Constants DEF DispatcherInv, TypeOK
<1>2. CASE AcceptHandler
  <2> DEFINE n == current_conn_id + 1
  <2>1. n \in Conns /\ Outstanding(n) = 0
      BY <1>2, Constants DEF DispatcherInv, TypeOK, AcceptHandler, Conns,
          FreshUnused, HandlersCounted
  <2>2. readOp[n] = "none"
      BY <2>1, OutstandingZero DEF DispatcherInv
  <2>3. /\ readOp' = [readOp EXCEPT ![n] = "header"]
        /\ UNCHANGED <<received, distributed>>
      BY <1>2 DEF AcceptHandler, getNextConnectionId
  <2> QED  BY <1>1, <2>1, <2>2, <2>3, BodiesUntouched
<1>3. CASE AcceptError \/ DestroyServer \/ Over \/ UNCHANGED vars
    BY <1>3, BodiesUntouched DEF AcceptError, DestroyServer, Over, vars, history
<1>4. ASSUME NEW p \in Conns, LinkBreaks(p) \/ WriteSome(p) \/ WriteFails(p)
                                   \/ SendHandler(p)
      PROVE  BodiesAccounted'
    BY <1>4, BodiesUntouched DEF LinkBreaks, WriteSome, WriteFails, SendHandler,
        history
<1>5. ASSUME NEW p \in Conns, ReadFails(p)
      PROVE  BodiesAccounted'
    BY <1>1, <1>5, BodiesUntouched DEF ReadFails, AbortRead, history
<1>6. ASSUME NEW p \in Conns, ReadHandlerFails(p), readOp[p] # "body_done"
      PROVE  BodiesAccounted'
    BY <1>1, <1>6, BodiesUntouched DEF ReadHandlerFails, history
<1>7. ASSUME NEW p \in Conns, RcvHeaderHandler(p)
      PROVE  BodiesAccounted'
  <2>1. readOp[p] = "header_done"
      BY <1>7 DEF RcvHeaderHandler
  <2>2. CASE ReadHandlerFails(p)
      BY <1>6, <2>1, <2>2
  <2>3. CASE EmptyBody(p)
      BY <1>1, <2>1, <2>3, BodyArrives DEF EmptyBody
  <2>4. CASE ~ReadHandlerFails(p) /\ ~EmptyBody(p)
    <3>1. /\ UNCHANGED <<received, distributed>>
          /\ \/ readOp' = [readOp EXCEPT ![p] = StartRead(p, "body")]
             \/ UNCHANGED readOp
        BY <1>7, <2>4 DEF RcvHeaderHandler, EmptyBody, history
    <3>2. StartRead(p, "body") \in {"body", "body_error"}
        BY DEF StartRead, AbortRead
    <3> QED  BY <1>1, <2>1, <3>1, <3>2, BodiesUntouched
  <2> QED  BY <2>2, <2>3, <2>4
<1>8. ASSUME NEW p \in Conns, SendHandlerError(p)
      PROVE  BodiesAccounted'
  <2>1. /\ UNCHANGED <<received, distributed>>
        /\ readOp' = [readOp EXCEPT
               ![p] = IF Reports(p) THEN AbortRead(@) ELSE @]
      BY <1>8 DEF SendHandlerError, history
  <2>2. AbortRead(readOp[p]) = "body_done" <=> readOp[p] = "body_done"
      BY DEF AbortRead
  <2> QED  BY <1>1, <2>1, <2>2, BodiesUntouched
<1>9. ASSUME NEW p \in Conns, ReadCompletes(p)
      PROVE  BodiesAccounted'
  <2>1. UNCHANGED distributed
      BY <1>9 DEF ReadCompletes
  <2>2. CASE readOp[p] = "header"
      BY <1>1, <1>9, <2>1, <2>2, BodiesUntouched DEF ReadCompletes
  <2>3. CASE readOp[p] = "body"
    <3>1. /\ readOp' = [readOp EXCEPT ![p] = "body_done"]
          /\ received' = received + 1
        BY <1>9, <2>3 DEF ReadCompletes
    <3> QED  BY <1>1, <2>1, <2>3, <3>1, BodyArrives
  <2> QED  BY <1>9, <2>2, <2>3 DEF ReadCompletes
<1>10. ASSUME NEW p \in Conns, RcvBodyHandler(p)
       PROVE  BodiesAccounted'
  <2>1. service = "running" /\ readOp[p] = "body_done"
      BY <1>10 DEF RcvBodyHandler
  <2>2. p \in peers_list
      BY <2>1, BusyPeer
  <2>3. /\ distributed' = distributed + 1 /\ UNCHANGED received
        /\ readOp' = [readOp EXCEPT ![p] = StartRead(p, "header")]
      BY <1>10, <2>2 DEF RcvBodyHandler, DistributeMessage
  <2>4. StartRead(p, "header") \in {"header", "header_error"}
      BY DEF StartRead, AbortRead
  <2>5. BodiesWaiting' = BodiesWaiting \ {p} /\ p \in BodiesWaiting
      BY <1>1, <2>1, <2>3, <2>4 DEF BodiesWaiting
  <2>6. Cardinality(BodiesWaiting') = Cardinality(BodiesWaiting) - 1
      BY <2>5, BodiesFinite, FS_RemoveElement
  <2> QED  BY <1>1, <2>3, <2>6, BodiesFinite DEF BodiesAccounted
<1> QED  BY <1>2, <1>3, <1>4, <1>5, <1>6, <1>7, <1>8, <1>9, <1>10
          DEF Next, Handler, Environment, RcvHeaderHandlerError,
          RcvBodyHandlerError

-----------------------------------------------------------------------------
(* The theorems *)

(* Every step of the server keeps the reference counts exact, the map in    *)
(* step with them, and closed sockets idle: what each handler relies on    *)
(* when it starts and has to leave behind.                                 *)
THEOREM InvAlways == Spec => []DispatcherInv
<1>1. Init => DispatcherInv
    BY InitInv
<1>2. DispatcherInv /\ [Next]_vars => DispatcherInv'
    BY NextInv
<1> QED  BY <1>1, <1>2, PTL DEF Spec

(* Whatever the handlers, the kernel and the clients do, the variables of  *)
(* the server keep their types: a reference count never drops below zero   *)
(* and no id beyond the accepted ones is listed.                           *)
THEOREM TypeCorrect == Spec => []TypeOK
<1>1. DispatcherInv => TypeOK
    BY DEF DispatcherInv
<1> QED  BY <1>1, InvAlways, PTL

(* ReferenceCounter counts exactly the operations whose handler has not    *)
(* returned, through every way an operation can end.                       *)
THEOREM CountsCorrect == Spec => []HandlersCounted
<1>1. DispatcherInv => HandlersCounted
    BY DEF DispatcherInv
<1> QED  BY <1>1, InvAlways, PTL

(* ID_CAN_DELETE never erases a RemotePeer some handler still refers to.   *)
THEOREM SafeDeletion == Spec => []NoUseAfterDelete
<1>1. DispatcherInv => NoUseAfterDelete
    BY InvImplies
<1> QED  BY <1>1, InvAlways, PTL

(* Every peer in peers_list has a handler to come whose end can erase it.  *)
THEOREM NothingForgotten == Spec => []NoPeerForgotten
<1>1. DispatcherInv => NoPeerForgotten
    BY InvImplies
<1> QED  BY <1>1, InvAlways, PTL

(* The server keeps no socket open that it has stopped to receive from.    *)
THEOREM DeafClosed == Spec => []DeafPeerIsClosed
<1>1. DispatcherInv => DeafPeerIsClosed
    BY InvImplies
<1> QED  BY <1>1, InvAlways, PTL

(* No body that was read is lost or distributed twice: not by an error on  *)
(* another operation, nor by a shutdown before its handler runs.           *)
THEOREM NoBodyLost == Spec => []BodiesAccounted
<1>1. Init => BodiesAccounted
  <2> SUFFICES ASSUME Init PROVE BodiesAccounted
      OBVIOUS
  <2>1. BodiesWaiting = {}
      BY DEF Init, BodiesWaiting
  <2> QED  BY <2>1, FS_EmptySet DEF Init, BodiesAccounted
<1>2. DispatcherInv /\ BodiesAccounted /\ [Next]_vars => BodiesAccounted'
    BY BodiesStep
<1> QED  BY <1>1, <1>2, InvAlways, PTL DEF Spec

(* A socket that was shut down stays shut under its connection id, and     *)
(* nothing more reaches its client.                                        *)
THEOREM ShutForGood == Spec => ClosedForGood
<1> DEFINE StaysClosed ==
             \A p \in Conns : p <= current_conn_id /\ ~socketOpen[p] =>
                                ~socketOpen'[p] /\ UNCHANGED wire[p]
<1>1. DispatcherInv /\ [Next]_vars => [StaysClosed]_vars
    BY ClosedStep
<1> QED  BY <1>1, InvAlways, PTL DEF Spec, ClosedForGood

(* A peer that was shut down only moves towards its end, step by step,     *)
(* but for the messages that are still distributed to it.                  *)
THEOREM ClosedPeersDrain == Spec => PeerDrains
<1> DEFINE Drain == \A p \in peers_list :
                       ~socketOpen[p] /\ service' = "running" =>
                          /\ Handler(p) => Left(p)' < Left(p)
                          /\ Left(p)' <= Left(p) + (distributed' - distributed)
<1>1. DispatcherInv /\ [Next]_vars => [Drain]_vars
  <2> SUFFICES ASSUME DispatcherInv, [Next]_vars,
                      NEW p \in peers_list, ~socketOpen[p],
                      service' = "running"
               PROVE  (Handler(p) => Falls(p)) /\ Stays(p)
      BY Zenon DEF Falls, Stays
  <2>1. p \in Conns
      BY DEF DispatcherInv, TypeOK
  <2>2. TypeOK'
      BY NextInv DEF DispatcherInv
  <2>3. CASE Handler(p)
      BY <2>1, <2>2, <2>3, HandlerDrains
  <2>4. CASE ~Handler(p)
      BY <2>1, <2>2, <2>4, OthersDrain
  <2> QED  BY <2>3, <2>4
<1>2. Spec => []DispatcherInv /\ [][Next]_vars
    BY InvAlways, PTL DEF Spec
<1> QED  BY <1>1, <1>2, PTL DEF PeerDrains
=============================================================================
