---------------------------- MODULE BroadcastProofs ----------------------------
(***************************************************************************)
(* Dispatcher implements Broadcast, for any number of connections,         *)
(* messages and chunks and any set of headers, as long as the kernel takes *)
(* every frame in one piece; and when frames stay whole if it does not.    *)
(***************************************************************************)
EXTENDS DispatcherProofs, ServerBroadcast

-----------------------------------------------------------------------------
(* Positions in a stream of frames *)

LEMMA MultipleIsLarge ==
    ASSUME NEW c \in Nat, c >= 1, NEW d \in Int, d >= 1
    PROVE  d * c >= c
OBVIOUS

LEMMA Distributes ==
    ASSUME NEW a \in Int, NEW b \in Int, NEW c \in Int
    PROVE  (a - b) * c = a * c - b * c /\ (a + b) * c = a * c + b * c
OBVIOUS

LEMMA QuotientRemainder ==
    ASSUME NEW c \in Nat, c >= 1, NEW x \in Int
    PROVE  /\ x = (x \div c) * c + (x % c)
           /\ x \div c \in Int /\ x % c \in 0..(c - 1)
           /\ x >= 0 => x \div c \in Nat
OBVIOUS

\* Behind n frames of c chunks and r further chunks.
LEMMA Division ==
    ASSUME NEW c \in Nat, c >= 1, NEW n \in Nat, NEW r \in 0..(c - 1)
    PROVE  (n * c + r) \div c = n /\ (n * c + r) % c = r
<1> DEFINE x == n * c + r  q == x \div c  m == x % c
<1>1. x = q * c + m /\ q \in Int /\ m \in 0..(c - 1)
  <2>1. x \in Int
      OBVIOUS
  <2> HIDE DEF x
  <2> QED  BY <2>1, QuotientRemainder
<1>2. (q - n) * c = r - m /\ (n - q) * c = m - r
  <2>1. (q - n) * c = q * c - n * c /\ (n - q) * c = n * c - q * c
      BY <1>1, Distributes
  <2>2. n * c \in Int /\ q * c \in Int
      BY <1>1
  <2> QED  BY <1>1, <2>1, <2>2
<1> HIDE DEF x, q, m
<1>3. ~(q - n >= 1) /\ ~(n - q >= 1)
    BY <1>1, <1>2, MultipleIsLarge
<1>4. q = n
    BY <1>1, <1>3
<1>5. m = r
    BY <1>1, <1>2, <1>4
<1> QED  BY <1>4, <1>5 DEF x, q, m

\* A longer stream has more chunks.
LEMMA MultipleMonotonic ==
    ASSUME NEW c \in Nat, NEW a \in Nat, NEW b \in Nat, a <= b
    PROVE  a * c \in Nat /\ b * c \in Nat /\ a * c <= b * c
<1>1. (b - a) * c = b * c - a * c
    BY Distributes
<1>2. (b - a) * c >= 0
    OBVIOUS
<1> QED  BY <1>1, <1>2

\* The run of n messages after message a.
Run(a, n) == [i \in 1..n |-> a + i]

LEMMA RunGrows ==
    ASSUME NEW a \in Nat, NEW n \in Nat
    PROVE  /\ Run(a, n) \in Seq(Nat) /\ Len(Run(a, n)) = n
           /\ Run(a, n + 1) = Append(Run(a, n), a + n + 1)
<1>1. Run(a, n) \in [1..n -> Nat] /\ Run(a, n + 1) \in [1..(n + 1) -> Nat]
    BY DEF Run
<1>2. /\ Run(a, n) \in Seq(Nat) /\ Run(a, n + 1) \in Seq(Nat)
      /\ Len(Run(a, n)) = n /\ Len(Run(a, n + 1)) = n + 1
    BY <1>1, FunctionIsSeq, LenProperties DEF Run
<1> DEFINE longer == Append(Run(a, n), a + n + 1)
<1>3. /\ longer \in Seq(Nat) /\ Len(longer) = n + 1
      /\ \A i \in 1..n : longer[i] = Run(a, n)[i]
      /\ longer[n + 1] = a + n + 1
    BY <1>2, AppendProperties
<1> HIDE DEF longer
<1>4. \A i \in 1..(n + 1) : Run(a, n + 1)[i] = longer[i]
    BY <1>3 DEF Run
<1>5. Run(a, n + 1) = longer
    BY <1>2, <1>3, <1>4, SeqEqual
<1> QED  BY <1>2, <1>5 DEF longer

LEMMA WholeFrames ==
    ASSUME NEW w \in Seq(Chunk)
    PROVE  Len(w) \div Chunks \in Nat
<1> DEFINE l == Len(w)
<1>1. l \in Int /\ l >= 0
    BY LenProperties
<1> HIDE DEF l
<1>2. l \div Chunks \in Nat
    BY <1>1, Constants, QuotientRemainder
<1> QED  BY <1>2 DEF l

\* A stream of whole frames delivers the run it consists of.
LEMMA RunDelivered ==
    ASSUME NEW w \in Seq(Chunk), NEW a \in Nat, NEW n,
           n = Len(w) \div Chunks, Len(w) = n * Chunks,
           \A j \in 1..Len(w) : w[j] = Expected(a + 1, j)
    PROVE  n \in Nat /\ [i \in 1..n |-> w[i * Chunks].msg] = Run(a, n)
<1>1. n \in Nat
    BY WholeFrames
<1>2. ASSUME NEW i \in 1..n
      PROVE  w[i * Chunks].msg = a + i
  <2> DEFINE j == i * Chunks
  <2>1. i - 1 \in Nat /\ Chunks - 1 \in 0..(Chunks - 1)
      BY <1>1, Constants
  <2>2. j - 1 = (i - 1) * Chunks + (Chunks - 1)
    <3>1. (i - 1) * Chunks = i * Chunks - 1 * Chunks
        BY <1>1, Constants, Distributes
    <3> QED  BY <1>1, <3>1, Constants
  <2>3. (j - 1) \div Chunks = i - 1
      BY <2>1, <2>2, Constants, Division
  <2>4. j \in 1..Len(w)
    <3>1. i * Chunks <= n * Chunks
        BY <1>1, Constants, MultipleMonotonic
    <3>2. i * Chunks >= Chunks
        BY <1>1, Constants, MultipleIsLarge
    <3>3. j \in Int /\ n * Chunks \in Int
        BY <1>1, Constants
    <3> HIDE DEF j
    <3>4. j >= Chunks /\ j <= n * Chunks
        BY <3>1, <3>2, <3>3 DEF j
    <3> QED  BY <3>3, <3>4, Constants
  <2>5. w[j].msg = a + 1 + ((j - 1) \div Chunks)
    <3>1. w[j] = Expected(a + 1, j)
        BY <2>4
    <3> QED  BY <3>1 DEF Expected
  <2> HIDE DEF j
  <2>6. w[j].msg = a + i
      BY <1>1, <2>3, <2>5
  <2> QED  BY <2>6 DEF j
<1> QED  BY <1>1, <1>2 DEF Run

LEMMA DeliveredRun ==
    ASSUME DispatcherInv, StreamIsRun, NEW p \in Conns
    PROVE  /\ Frames(p) \in Nat /\ joined[p] \in Nat
           /\ Delivered(p) = Run(joined[p], Frames(p))
<1> DEFINE w == wire[p]  a == joined[p]  n == Frames(p)
<1>1. a \in Nat /\ w \in Seq(Chunk)
    BY DEF DispatcherInv, TypeOK
<1>2. n = Len(w) \div Chunks
    BY DEF Frames
<1>3. /\ Len(w) = n * Chunks
      /\ \A j \in 1..Len(w) : w[j] = Expected(a + 1, j)
    BY DEF StreamIsRun
<1>4. Delivered(p) = [i \in 1..n |-> w[i * Chunks].msg]
    BY DEF Delivered
<1> HIDE DEF w, a, n
<1>5. n \in Nat /\ [i \in 1..n |-> w[i * Chunks].msg] = Run(a, n)
    BY <1>1, <1>2, <1>3, RunDelivered
<1> QED  BY <1>1, <1>4, <1>5 DEF w, a, n

LEMMA DeliveredRunNext ==
    ASSUME DispatcherInv', StreamIsRun', NEW p \in Conns
    PROVE  Delivered(p)' = Run(joined'[p], Frames(p)')
<1> DEFINE w == wire'[p]  a == joined'[p]  n == Frames(p)'
<1>1. a \in Nat /\ w \in Seq(Chunk)
    BY DEF DispatcherInv, TypeOK
<1>2. n = Len(w) \div Chunks
    BY DEF Frames
<1>3. /\ Len(w) = n * Chunks
      /\ \A j \in 1..Len(w) : w[j] = Expected(a + 1, j)
    BY DEF StreamIsRun, Expected
<1>4. Delivered(p)' = [i \in 1..n |-> w[i * Chunks].msg]
    BY DEF Delivered
<1> HIDE DEF w, a, n
<1> QED  BY <1>1, <1>2, <1>3, <1>4, RunDelivered DEF w, a, n

-----------------------------------------------------------------------------
(* What a step does to streams, queues and members *)

\* The step writes, distributes and accepts nothing.
Quiet ==
    /\ UNCHANGED <<wire, joined, distributed, current_conn_id>>
    /\ \A q \in Conns : socketOpen'[q] /\ link'[q] # "reset" =>
           socketOpen[q] /\ link[q] # "reset" /\ UNCHANGED writeQ[q]

\* All sockets stay as they are, one of them is closed, or all are.
Shuts ==
    \/ \A q \in Conns : socketOpen'[q] = socketOpen[q]
    \/ \E p \in Conns :
          /\ socketOpen[p] /\ ~socketOpen'[p]
          /\ \A q \in Conns \ {p} : socketOpen'[q] = socketOpen[q]
    \/ \A q \in Conns : ~socketOpen'[q]

LEMMA PostErrorQuiet ==
    ASSUME DispatcherInv, service = "running", NEW p \in Conns,
           p \in peers_list, NEW own \in {0, 1}, writesFailed[p] >= own,
           PostError(p, own),
           UNCHANGED <<link, wire, joined, distributed, current_conn_id>>
    PROVE  Quiet /\ Shuts
<1>1. /\ ~socketOpen'[p]
      /\ \A q \in Conns \ {p} : UNCHANGED <<socketOpen[q], writeQ[q]>>
    BY PostErrorStep
<1>2. Quiet
    BY <1>1 DEF Quiet
<1>3. socketOpen \in [Conns -> BOOLEAN] /\ socketOpen' \in [Conns -> BOOLEAN]
    BY DEF DispatcherInv, TypeOK, PostError
<1>4. Shuts
  <2>1. CASE socketOpen[p]
      BY <1>1, <2>1 DEF Shuts
  <2>2. CASE ~socketOpen[p]
    <3>1. \A q \in Conns : socketOpen'[q] = socketOpen[q]
        BY <1>1, <1>3, <2>2
    <3> QED  BY <3>1 DEF Shuts
  <2> QED  BY <2>1, <2>2
<1> QED  BY <1>2, <1>4

LEMMA ReadHandlerFailsQuiet ==
    ASSUME DispatcherInv, service = "running", NEW p \in Conns,
           readOp[p] # "none", ReadHandlerFails(p)
    PROVE  Quiet /\ Shuts
<1>1. p \in peers_list /\ writesFailed[p] >= 0
    BY BusyPeer DEF DispatcherInv, TypeOK
<1> QED  BY <1>1, PostErrorQuiet DEF ReadHandlerFails, history

\* Every other step is one of three.
LEMMA Steps ==
    ASSUME DispatcherInv, [Next]_vars
    PROVE  \/ AcceptHandler
           \/ \E p \in Conns : RcvBodyHandler(p) \/ WriteSome(p)
           \/ Quiet /\ Shuts
<1>1. CASE AcceptError \/ Over \/ UNCHANGED vars
    BY <1>1 DEF Quiet, Shuts, AcceptError, Over, vars, peerVars, writeVars,
        history
<1>2. CASE DestroyServer
    BY <1>2 DEF Quiet, Shuts, DestroyServer, history
<1>3. ASSUME NEW p \in Conns, LinkBreaks(p)
      PROVE  Quiet /\ Shuts
    BY <1>3 DEF Quiet, Shuts, LinkBreaks, DispatcherInv, TypeOK, peerVars,
        writeVars, history
<1>4. ASSUME NEW p \in Conns, ReadCompletes(p) \/ ReadFails(p)
      PROVE  Quiet /\ Shuts
    BY <1>4 DEF Quiet, Shuts, ReadCompletes, ReadFails, peerVars, writeVars,
        history
<1>5. ASSUME NEW p \in Conns, WriteFails(p)
      PROVE  Quiet /\ Shuts
    BY <1>5 DEF Quiet, Shuts, WriteFails, DispatcherInv, TypeOK, peerVars,
        history
<1>6. ASSUME NEW p \in Conns, RcvHeaderHandlerError(p) \/ RcvBodyHandlerError(p)
      PROVE  Quiet /\ Shuts
    BY <1>6, ReadHandlerFailsQuiet DEF RcvHeaderHandlerError,
        RcvBodyHandlerError
<1>7. ASSUME NEW p \in Conns, RcvHeaderHandler(p)
      PROVE  Quiet /\ Shuts
  <2>1. CASE ReadHandlerFails(p)
      BY <1>7, <2>1, ReadHandlerFailsQuiet DEF RcvHeaderHandler
  <2>2. CASE UNCHANGED <<socketOpen, link, writeQ, wire, joined, distributed,
                         current_conn_id>>
      BY <2>2 DEF Quiet, Shuts
  <2> QED  BY <1>7, <2>1, <2>2 DEF RcvHeaderHandler, peerVars, writeVars,
              history
<1>8. ASSUME NEW p \in Conns, SendHandler(p)
      PROVE  Quiet /\ Shuts
    BY <1>8 DEF Quiet, Shuts, SendHandler, history
<1>9. ASSUME NEW p \in Conns, SendHandlerError(p)
      PROVE  Quiet /\ Shuts
  <2>1. service = "running" /\ writesFailed[p] > 0
      BY <1>9 DEF SendHandlerError
  <2>2. p \in peers_list /\ writesFailed[p] >= 1
      BY <2>1, BusyPeer DEF DispatcherInv, TypeOK
  <2> QED  BY <1>9, <2>1, <2>2, PostErrorQuiet DEF SendHandlerError, history
<1> QED  BY <1>1, <1>2, <1>3, <1>4, <1>5, <1>6, <1>7, <1>8, <1>9
          DEF Next, Handler, Environment

\* The kernel takes the first waiting frame, the next one of the run.
LEMMA WholeWrite ==
    ASSUME ~PartialWrites, DispatcherInv, BroadcastInv,
           NEW p \in Conns, WriteSome(p)
    PROVE  LET f == Frames(p)
           IN  /\ socketOpen[p] /\ link[p] # "reset" /\ writeQ[p] # <<>>
               /\ f \in Nat /\ Len(wire[p]) = f * Chunks
               /\ Len(wire'[p]) = f * Chunks + Chunks
               /\ Frames(p)' = f + 1
               /\ \A j \in 1..(f * Chunks) : wire'[p][j] = wire[p][j]
               /\ \A i \in 1..Chunks : wire'[p][f * Chunks + i] =
                      [msg |-> joined[p] + f + 1, chunk |-> i]
               /\ writeQ'[p] = Tail(writeQ[p])
               /\ \A q \in Conns \ {p} : UNCHANGED <<wire[q], writeQ[q]>>
<1> DEFINE f == Frames(p)
           m == joined[p] + f + 1
           frame == [i \in 1..Chunks |-> [msg |-> m, chunk |-> i]]
<1>1. /\ service = "running" /\ link[p] # "reset" /\ writeQ[p] # <<>>
      /\ socketOpen[p]
    BY DEF WriteSome, DispatcherInv, TypeOK, ClosedIdle
<1>2. /\ wire[p] \in Seq(Chunk) /\ writeQ[p] \in Seq(WriteOp)
      /\ writeQ \in [Conns -> Seq(WriteOp)] /\ wire \in [Conns -> Seq(Chunk)]
    BY DEF DispatcherInv, TypeOK
<1>3. f \in Nat /\ joined[p] \in Nat /\ m \in Nat /\ Len(wire[p]) = f * Chunks
    BY DeliveredRun DEF BroadcastInv, StreamIsRun
<1>4. Head(writeQ[p]) = [msg |-> m, taken |-> 0]
  <2>1. Len(writeQ[p]) >= 1 /\ Head(writeQ[p]) = writeQ[p][1]
      BY <1>1, <1>2, EmptySeq, LenProperties
  <2>2. 1 \in 1..Len(writeQ[p])
      BY <1>2, <2>1, LenProperties
  <2> QED  BY <1>1, <2>1, <2>2 DEF BroadcastInv, QueueIsRest
<1>5. /\ wire' = [wire EXCEPT ![p] = @ \o frame]
      /\ writeQ' = [writeQ EXCEPT ![p] = Tail(@)]
  <2> DEFINE op == Head(writeQ[p])
  <2>1. op.msg = m /\ op.taken = 0 /\ Chunks - op.taken = Chunks
      BY <1>4, Constants
  <2>2. /\ wire' = [wire EXCEPT ![p] = @ \o
               [i \in 1..Chunks |-> [msg |-> op.msg, chunk |-> op.taken + i]]]
        /\ writeQ' = [writeQ EXCEPT ![p] = Tail(@)]
      BY <2>1, WritesAssumption, Constants DEF WriteSome
  <2>3. [i \in 1..Chunks |-> [msg |-> op.msg, chunk |-> op.taken + i]] = frame
      BY <2>1
  <2> HIDE DEF op, frame
  <2> QED  BY <2>2, <2>3
<1>6. /\ frame \in Seq(Chunk) /\ Len(frame) = Chunks
  <2>1. frame \in [1..Chunks -> Chunk]
      BY <1>3, Constants DEF Chunk
  <2> HIDE DEF frame
  <2>2. frame \in Seq(Chunk)
      BY <2>1, Constants, FunctionIsSeq
  <2> QED  BY <2>1, <2>2, Constants, LenProperties
<1> DEFINE old == wire[p]
<1>7. /\ Len(old \o frame) = f * Chunks + Chunks
      /\ \A j \in 1..(f * Chunks + Chunks) : (old \o frame)[j] =
             IF j <= f * Chunks THEN old[j] ELSE frame[j - f * Chunks]
  <2>1. old \in Seq(Chunk)
      BY <1>2
  <2>2. Len(old) = f * Chunks
      BY <1>3
  <2> HIDE DEF frame, f, old
  <2>3. /\ Len(old \o frame) = Len(old) + Len(frame)
        /\ \A j \in 1..(Len(old) + Len(frame)) : (old \o frame)[j] =
               IF j <= Len(old) THEN old[j] ELSE frame[j - Len(old)]
      BY <1>6, <2>1, ConcatProperties
  <2> QED  BY <1>6, <2>2, <2>3
<1>8. /\ wire'[p] = old \o frame /\ writeQ'[p] = Tail(writeQ[p])
      /\ \A q \in Conns \ {p} : UNCHANGED <<wire[q], writeQ[q]>>
  <2> HIDE DEF frame
  <2> QED  BY <1>2, <1>5
<1>9. f * Chunks \in Nat /\ (f + 1) * Chunks = f * Chunks + Chunks
    BY <1>3, Constants, Distributes
<1>10. Frames(p)' = f + 1
  <2>1. Frames(p)' = ((f + 1) * Chunks + 0) \div Chunks
    <3> HIDE DEF frame, f
    <3>1. (f + 1) * Chunks + 0 = f * Chunks + Chunks
        BY <1>9, Constants
    <3> QED  BY <1>7, <1>8, <3>1 DEF Frames
  <2>2. f + 1 \in Nat /\ 0 \in 0..(Chunks - 1)
      BY <1>3, Constants
  <2> HIDE DEF f
  <2> QED  BY <2>1, <2>2, Constants, Division
<1>11. /\ \A j \in 1..(f * Chunks) : wire'[p][j] = old[j]
       /\ \A i \in 1..Chunks : wire'[p][f * Chunks + i] = frame[i]
  <2> HIDE DEF frame, f
  <2> DEFINE l == f * Chunks
  <2>1. l \in Nat
      BY <1>9
  <2>2. \A j \in 1..(l + Chunks) : wire'[p][j] =
             IF j <= l THEN old[j] ELSE frame[j - l]
      BY <1>7, <1>8
  <2> HIDE DEF l, old
  <2>3. \A j \in 1..l : wire'[p][j] = old[j]
      BY <2>1, <2>2, Constants
  <2>4. \A i \in 1..Chunks : wire'[p][l + i] = frame[i]
      BY <2>1, <2>2, Constants
  <2> QED  BY <2>3, <2>4 DEF l
<1> QED  BY <1>1, <1>3, <1>7, <1>8, <1>10, <1>11

\* An open socket receives, so its peer is listed and gets what is distributed.
LEMMA OpenIsListed ==
    ASSUME DispatcherInv, service = "running", NEW q \in Conns, socketOpen[q]
    PROVE  q \in peers_list
<1>1. readOp[q] # "none"
    BY DEF DispatcherInv, ClosedIdle
<1> QED  BY <1>1, BusyPeer

\* The id that is handed out next has nothing on its stream or in its queue.
LEMMA FreshEmpty ==
    ASSUME DispatcherInv, BroadcastInv, AcceptHandler
    PROVE  LET n == current_conn_id + 1
           IN  /\ n \in Conns /\ n > current_conn_id
               /\ wire[n] = <<>> /\ Frames(n) = 0 /\ writeQ[n] = <<>>
<1> DEFINE n == current_conn_id + 1
<1>1. n \in Conns /\ n > current_conn_id
    BY Constants DEF DispatcherInv, TypeOK, AcceptHandler, Conns
<1>2. wire[n] = <<>>
    BY <1>1 DEF BroadcastInv, FreshSilent
<1>3. Frames(n) = 0
    BY <1>2, Constants DEF Frames
<1>4. Outstanding(n) = 0
    BY <1>1 DEF DispatcherInv, FreshUnused, HandlersCounted
<1>5. writeQ[n] = <<>>
    BY <1>1, <1>4, OutstandingZero DEF DispatcherInv
<1> QED  BY <1>1, <1>2, <1>3, <1>5

LEMMA InitBroadcast == Init => BroadcastInv
<1> SUFFICES ASSUME Init PROVE BroadcastInv
    OBVIOUS
<1>1. \A p \in Conns : wire[p] = <<>> /\ writeQ[p] = <<>> /\ ~socketOpen[p]
    BY DEF Init
<1>2. ASSUME NEW p \in Conns
      PROVE  Len(wire[p]) = 0 /\ Frames(p) = 0
  <2>1. wire[p] = <<>>
      BY <1>1
  <2> QED  BY <2>1, Constants DEF Frames
<1>3. StreamIsRun
    BY <1>2, Constants DEF StreamIsRun
<1> QED  BY <1>1, <1>3 DEF BroadcastInv, QueueIsRest, FreshSilent

LEMMA AcceptBroadcast ==
    ASSUME DispatcherInv, BroadcastInv, AcceptHandler
    PROVE  BroadcastInv'
<1> DEFINE n == current_conn_id + 1
<1>1. /\ n \in Conns /\ n > current_conn_id
      /\ wire[n] = <<>> /\ Frames(n) = 0 /\ writeQ[n] = <<>>
    BY FreshEmpty
<1>2. /\ UNCHANGED <<wire, writeQ, distributed>>
      /\ current_conn_id' = n
      /\ joined'[n] = distributed /\ distributed \in Nat
      /\ current_conn_id \in Nat
      /\ \A q \in Conns \ {n} : UNCHANGED <<joined[q], socketOpen[q], link[q]>>
    BY <1>1 DEF AcceptHandler, getNextConnectionId, DispatcherInv, TypeOK,
        writeVars
<1>3. \A q \in Conns : Frames(q)' = Frames(q)
    BY <1>2 DEF Frames
<1> HIDE DEF n
<1>4. StreamIsRun'
  <2> SUFFICES ASSUME NEW q \in Conns
               PROVE  /\ Len(wire[q]) = Frames(q) * Chunks
                      /\ \A j \in 1..Len(wire[q]) :
                             wire[q][j] = Expected(joined'[q] + 1, j)
      BY <1>2, <1>3 DEF StreamIsRun, Expected
  <2>1. CASE q = n
      BY <1>1, <2>1, Constants
  <2>2. CASE q # n
    <3>1. joined'[q] = joined[q]
        BY <1>2, <2>2
    <3> QED  BY <3>1 DEF BroadcastInv, StreamIsRun
  <2> QED  BY <2>1, <2>2
<1>5. QueueIsRest'
  <2> SUFFICES ASSUME NEW q \in Conns, socketOpen'[q], link'[q] # "reset"
               PROVE  /\ joined'[q] + Frames(q) + Len(writeQ[q]) = distributed
                      /\ \A i \in 1..Len(writeQ[q]) : writeQ[q][i] =
                             [msg |-> joined'[q] + Frames(q) + i, taken |-> 0]
      BY <1>2, <1>3 DEF QueueIsRest
  <2>1. CASE q = n
      BY <1>1, <1>2, <2>1
  <2>2. CASE q # n
    <3>1. UNCHANGED <<joined[q], socketOpen[q], link[q]>>
        BY <1>2, <2>2
    <3> QED  BY <3>1 DEF BroadcastInv, QueueIsRest
  <2> QED  BY <2>1, <2>2
<1>6. FreshSilent'
    BY <1>2 DEF BroadcastInv, FreshSilent, Conns, n
<1> QED  BY <1>4, <1>5, <1>6 DEF BroadcastInv

LEMMA RcvBodyBroadcast ==
    ASSUME DispatcherInv, BroadcastInv, NEW p \in Conns, RcvBodyHandler(p)
    PROVE  BroadcastInv'
<1> DEFINE m == distributed + 1
           new == [msg |-> m, taken |-> 0]
<1>1. /\ service = "running" /\ readOp[p] = "body_done"
      /\ UNCHANGED <<socketOpen, link, wire, joined, current_conn_id>>
    BY DEF RcvBodyHandler
<1>2. DistributeMessage(p, m) /\ distributed \in Nat
    BY <1>1, BusyPeer DEF RcvBodyHandler, DispatcherInv, TypeOK
<1>3. \A q \in Conns : socketOpen[q] => writeQ'[q] = Append(writeQ[q], new)
    BY <1>1, <1>2, OpenIsListed DEF DistributeMessage
<1>4. distributed' = m
    BY <1>2 DEF DistributeMessage
<1>5. \A q \in Conns : Frames(q)' = Frames(q)
    BY <1>1 DEF Frames
<1>6. StreamIsRun' /\ FreshSilent'
    BY <1>1, <1>5 DEF BroadcastInv, StreamIsRun, FreshSilent, Expected
<1>7. ASSUME NEW q \in Conns, socketOpen[q], link[q] # "reset"
      PROVE  /\ joined[q] + Frames(q) + Len(writeQ'[q]) = m
             /\ \A i \in 1..Len(writeQ'[q]) : writeQ'[q][i] =
                    [msg |-> joined[q] + Frames(q) + i, taken |-> 0]
  <2> DEFINE l == Len(writeQ[q])
  <2>1. /\ writeQ[q] \in Seq(WriteOp) /\ l \in Nat
        /\ joined[q] \in Nat /\ Frames(q) \in Nat
      BY LenProperties, DeliveredRun DEF DispatcherInv, TypeOK, BroadcastInv
  <2>2. new \in WriteOp
      BY <1>2, Constants DEF WriteOp
  <2>3. /\ joined[q] + Frames(q) + l = distributed
        /\ \A i \in 1..l : writeQ[q][i] =
               [msg |-> joined[q] + Frames(q) + i, taken |-> 0]
      BY <1>7 DEF BroadcastInv, QueueIsRest
  <2>4. writeQ'[q] = Append(writeQ[q], new)
      BY <1>3, <1>7
  <2> HIDE DEF new
  <2>5. /\ Len(writeQ'[q]) = l + 1
        /\ \A i \in 1..l : writeQ'[q][i] = writeQ[q][i]
        /\ writeQ'[q][l + 1] = new
      BY <2>1, <2>2, <2>4, AppendProperties
  <2> HIDE DEF l
  <2>6. joined[q] + Frames(q) + (l + 1) = m
      BY <1>2, <2>1, <2>3
  <2>7. ASSUME NEW i \in 1..(l + 1)
        PROVE  writeQ'[q][i] = [msg |-> joined[q] + Frames(q) + i, taken |-> 0]
    <3>1. CASE i \in 1..l
        BY <2>3, <2>5, <3>1
    <3>2. CASE i = l + 1
        BY <2>5, <2>6, <3>2 DEF new
    <3> QED  BY <2>1, <3>1, <3>2
  <2> QED  BY <2>5, <2>6, <2>7
<1>8. QueueIsRest'
    BY <1>1, <1>4, <1>5, <1>7 DEF QueueIsRest
<1> QED  BY <1>6, <1>8 DEF BroadcastInv

LEMMA WriteBroadcast ==
    ASSUME ~PartialWrites, DispatcherInv, BroadcastInv,
           NEW p \in Conns, WriteSome(p)
    PROVE  BroadcastInv'
<1> DEFINE f == Frames(p)
           l == f * Chunks
<1>1. /\ socketOpen[p] /\ link[p] # "reset" /\ writeQ[p] # <<>>
      /\ f \in Nat /\ Len(wire[p]) = l
      /\ Len(wire'[p]) = l + Chunks
      /\ Frames(p)' = f + 1
      /\ \A j \in 1..l : wire'[p][j] = wire[p][j]
      /\ \A i \in 1..Chunks : wire'[p][l + i] =
             [msg |-> joined[p] + f + 1, chunk |-> i]
      /\ writeQ'[p] = Tail(writeQ[p])
      /\ \A q \in Conns \ {p} : UNCHANGED <<wire[q], writeQ[q]>>
    BY WholeWrite
<1>2. UNCHANGED <<socketOpen, link, joined, distributed, current_conn_id>>
    BY DEF WriteSome, peerVars
<1>3. \A q \in Conns \ {p} : Frames(q)' = Frames(q)
    BY <1>1 DEF Frames
<1>4. joined[p] \in Nat /\ writeQ[p] \in Seq(WriteOp) /\ Len(writeQ[p]) \in Nat
    BY LenProperties DEF DispatcherInv, TypeOK
<1>frames. f \in Nat
    BY <1>1
<1>5. l \in Nat /\ (f + 1) * Chunks = l + Chunks
  <2> HIDE DEF f
  <2> QED  BY <1>frames, Constants, Distributes
<1>6. ASSUME NEW j \in 1..(l + Chunks)
      PROVE  wire'[p][j] = Expected(joined[p] + 1, j)
  <2>1. CASE j <= l
    <3>1. j \in 1..l
        BY <1>5, <2>1
    <3>2. wire[p][j] = Expected(joined[p] + 1, j)
        BY <1>1, <3>1 DEF BroadcastInv, StreamIsRun
    <3> QED  BY <1>1, <3>1, <3>2
  <2>2. CASE j > l
    <3> DEFINE i == j - l
    <3> HIDE DEF l
    <3>1. i \in 1..Chunks /\ j = l + i /\ i - 1 \in 0..(Chunks - 1)
        BY <1>5, <2>2, Constants
    <3>2. wire'[p][j] = [msg |-> joined[p] + f + 1, chunk |-> i]
        BY <1>1, <3>1 DEF l
    <3>3. j - 1 = l + (i - 1)
        BY <1>5, <3>1, Constants
    <3> HIDE DEF i, f
    <3>4. (j - 1) \div Chunks = f /\ (j - 1) % Chunks = i - 1
        BY <1>frames, <3>1, <3>3, Constants, Division DEF l
    <3>5. /\ joined[p] + f + 1 = joined[p] + 1 + ((j - 1) \div Chunks)
          /\ i = 1 + ((j - 1) % Chunks)
        BY <1>frames, <1>4, <3>1, <3>4
    <3> QED  BY <3>2, <3>5 DEF Expected
  <2> QED  BY <1>5, <2>1, <2>2, Constants
<1> HIDE DEF f, l
<1>7. StreamIsRun'
  <2> SUFFICES ASSUME NEW q \in Conns
               PROVE  /\ Len(wire'[q]) = Frames(q)' * Chunks
                      /\ \A j \in 1..Len(wire'[q]) :
                             wire'[q][j] = Expected(joined[q] + 1, j)
      BY <1>2 DEF StreamIsRun, Expected
  <2>1. CASE q = p
      BY <1>1, <1>5, <1>6, <2>1
  <2>2. CASE q # p
    <3>1. wire'[q] = wire[q] /\ Frames(q)' = Frames(q)
        BY <1>1, <1>3, <2>2
    <3> QED  BY <3>1 DEF BroadcastInv, StreamIsRun
  <2> QED  BY <2>1, <2>2
<1>8. ASSUME NEW q \in Conns, socketOpen[q], link[q] # "reset"
      PROVE  /\ joined[q] + Frames(q)' + Len(writeQ'[q]) = distributed
             /\ \A i \in 1..Len(writeQ'[q]) : writeQ'[q][i] =
                    [msg |-> joined[q] + Frames(q)' + i, taken |-> 0]
  <2>1. /\ joined[q] + Frames(q) + Len(writeQ[q]) = distributed
        /\ \A i \in 1..Len(writeQ[q]) : writeQ[q][i] =
               [msg |-> joined[q] + Frames(q) + i, taken |-> 0]
      BY <1>8 DEF BroadcastInv, QueueIsRest
  <2>2. CASE q # p
    <3>1. writeQ'[q] = writeQ[q] /\ Frames(q)' = Frames(q)
        BY <1>1, <1>3, <2>2
    <3> QED  BY <2>1, <3>1
  <2>3. CASE q = p
    <3> DEFINE n == Len(writeQ[p])
    <3>1. /\ Len(writeQ'[p]) = n - 1
          /\ \A i \in 1..(n - 1) : writeQ'[p][i] = writeQ[p][i + 1]
        BY <1>1, <1>4, HeadTailProperties
    <3>2. /\ joined[p] + f + n = distributed
          /\ \A i \in 1..n : writeQ[p][i] =
                 [msg |-> joined[p] + f + i, taken |-> 0]
        BY <2>1, <2>3 DEF f
    <3>3. n \in Nat
        BY <1>4
    <3> HIDE DEF n
    <3>4. joined[p] + (f + 1) + (n - 1) = distributed
        BY <1>frames, <1>4, <3>2, <3>3
    <3>5. \A i \in 1..(n - 1) : writeQ'[p][i] =
              [msg |-> joined[p] + (f + 1) + i, taken |-> 0]
      <4> SUFFICES ASSUME NEW i \in 1..(n - 1)
                   PROVE  writeQ'[p][i] =
                              [msg |-> joined[p] + (f + 1) + i, taken |-> 0]
          OBVIOUS
      <4>1. i + 1 \in 1..n
          BY <3>3
      <4>2. joined[p] + f + (i + 1) = joined[p] + (f + 1) + i
          BY <1>frames, <1>4, <3>3
      <4> QED  BY <3>1, <3>2, <4>1, <4>2
    <3> QED  BY <1>1, <2>3, <3>1, <3>4, <3>5
  <2> QED  BY <2>2, <2>3
<1>9. QueueIsRest'
    BY <1>2, <1>8 DEF QueueIsRest
<1>10. FreshSilent'
  <2>1. p <= current_conn_id
    <3>1. Len(wire'[p]) > 0
        BY <1>1, <1>5, Constants
    <3>2. reference_count[p] # 0
      <4>1. Outstanding(p) # 0
          BY <1>1, OutstandingZero DEF DispatcherInv
      <4> QED  BY <4>1 DEF DispatcherInv, HandlersCounted
    <3> QED  BY <3>2 DEF DispatcherInv, TypeOK, FreshUnused, Conns
  <2> QED  BY <1>1, <1>2, <2>1 DEF BroadcastInv, FreshSilent, Conns,
              DispatcherInv, TypeOK
<1> QED  BY <1>7, <1>9, <1>10 DEF BroadcastInv

LEMMA QuietBroadcast ==
    ASSUME BroadcastInv, Quiet
    PROVE  BroadcastInv'
<1>1. \A q \in Conns : Frames(q)' = Frames(q)
    BY DEF Quiet, Frames
<1>2. StreamIsRun' /\ FreshSilent'
    BY <1>1 DEF BroadcastInv, StreamIsRun, FreshSilent, Expected, Quiet
<1>3. QueueIsRest'
  <2> SUFFICES ASSUME NEW q \in Conns, socketOpen'[q], link'[q] # "reset"
               PROVE  /\ joined[q] + Frames(q) + Len(writeQ[q]) = distributed
                      /\ \A i \in 1..Len(writeQ[q]) : writeQ[q][i] =
                             [msg |-> joined[q] + Frames(q) + i, taken |-> 0]
      BY <1>1 DEF QueueIsRest, Quiet
  <2>1. socketOpen[q] /\ link[q] # "reset"
      BY DEF Quiet
  <2> QED  BY <2>1 DEF BroadcastInv, QueueIsRest
<1> QED  BY <1>2, <1>3 DEF BroadcastInv

LEMMA NextBroadcast ==
    ASSUME ~PartialWrites, DispatcherInv, BroadcastInv, [Next]_vars
    PROVE  BroadcastInv'
BY Steps, AcceptBroadcast, RcvBodyBroadcast, WriteBroadcast, QuietBroadcast

-----------------------------------------------------------------------------
(* Every step is a step of Broadcast *)

Members == {p \in Conns : socketOpen[p]}
Streams == [p \in Conns |-> Delivered(p)]

\* The step of Broadcast that a step of Dispatcher is.
LEMMA AcceptIsJoin ==
    ASSUME DispatcherInv, BroadcastInv, AcceptHandler
    PROVE  \E c \in Conns : Broadcaster!Join(c)
<1> DEFINE n == current_conn_id + 1
<1>1. n \in Conns
    BY FreshEmpty
<1>2. /\ UNCHANGED <<wire, distributed>>
      /\ current_conn_id' = n /\ current_conn_id \in Nat
      /\ joined' = [joined EXCEPT ![n] = distributed]
      /\ socketOpen' = [socketOpen EXCEPT ![n] = TRUE]
    BY DEF AcceptHandler, getNextConnectionId, DispatcherInv, TypeOK
<1>3. 1..current_conn_id' = (1..current_conn_id) \union {n} /\ n \notin 1..current_conn_id
    BY <1>2
<1>4. Members' = Members \union {n}
    BY <1>1, <1>2 DEF Members, DispatcherInv, TypeOK
<1>5. Streams' = Streams
    BY <1>2 DEF Streams, Delivered, Frames
<1> QED  BY <1>1, <1>2, <1>3, <1>4, <1>5
          DEF Broadcaster!Join, Members, Streams

LEMMA RcvBodyIsPublish ==
    ASSUME DispatcherInv, NEW p \in Conns, RcvBodyHandler(p)
    PROVE  Broadcaster!Publish
<1>1. p \in peers_list
    BY BusyPeer DEF RcvBodyHandler
<1>2. /\ distributed' = distributed + 1
      /\ UNCHANGED <<wire, joined, current_conn_id, socketOpen>>
    BY <1>1 DEF RcvBodyHandler, DistributeMessage
<1>3. Members' = Members /\ Streams' = Streams
    BY <1>2 DEF Members, Streams, Delivered, Frames
<1> QED  BY <1>2, <1>3 DEF Broadcaster!Publish, Members, Streams

LEMMA WriteIsDeliver ==
    ASSUME ~PartialWrites, DispatcherInv, DispatcherInv', BroadcastInv,
           BroadcastInv', NEW p \in Conns, WriteSome(p)
    PROVE  Broadcaster!Deliver(p)
<1> DEFINE f == Frames(p)
<1>1. /\ socketOpen[p] /\ link[p] # "reset" /\ writeQ[p] # <<>>
      /\ f \in Nat /\ Frames(p)' = f + 1
      /\ \A q \in Conns \ {p} : UNCHANGED wire[q]
    BY WholeWrite
<1>2. UNCHANGED <<socketOpen, joined, distributed, current_conn_id>>
    BY DEF WriteSome, peerVars
<1>3. joined[p] \in Nat /\ Delivered(p) = Run(joined[p], f)
    BY DeliveredRun DEF BroadcastInv
<1>4. Delivered(p)' = Run(joined[p], f + 1)
  <2>1. StreamIsRun'
      BY DEF BroadcastInv
  <2>2. Delivered(p)' = Run(joined'[p], Frames(p)')
      BY <2>1, DeliveredRunNext
  <2> QED  BY <1>1, <1>2, <2>2
<1>5. /\ Len(Delivered(p)) = f
      /\ Delivered(p)' = Append(Delivered(p), joined[p] + f + 1)
    BY <1>1, <1>3, <1>4, RunGrows
<1>6. joined[p] + f < distributed
  <2>1. joined[p] + f + Len(writeQ[p]) = distributed
      BY <1>1 DEF BroadcastInv, QueueIsRest
  <2>2. Len(writeQ[p]) \in Nat /\ Len(writeQ[p]) # 0
      BY <1>1, QueueLength DEF DispatcherInv, TypeOK
  <2> QED  BY <1>1, <1>3, <2>1, <2>2
<1>7. Members' = Members
    BY <1>2 DEF Members
<1>8. \A q \in Conns \ {p} : Delivered(q)' = Delivered(q)
    BY <1>1 DEF Delivered, Frames
<1>9. Streams' = [Streams EXCEPT ![p] = Append(@, joined[p] + Len(@) + 1)]
    BY <1>5, <1>8 DEF Streams
<1>10. p \in Members /\ Streams[p] = Delivered(p)
    BY <1>1 DEF Members, Streams
<1>11. joined[p] + Len(Streams[p]) < distributed
    BY <1>5, <1>6, <1>10
<1> QED  BY <1>2, <1>7, <1>9, <1>10, <1>11
          DEF Broadcaster!Deliver, Members, Streams

LEMMA QuietIsLeave ==
    ASSUME DispatcherInv, DispatcherInv', Quiet, Shuts
    PROVE  \/ \E c \in Conns : Broadcaster!Leave(c)
           \/ Broadcaster!Close
           \/ UNCHANGED Broadcaster!absVars
<1>1. UNCHANGED <<joined, distributed, current_conn_id>> /\ Streams' = Streams
    BY DEF Quiet, Streams, Delivered, Frames
<1>2. CASE \A q \in Conns : socketOpen'[q] = socketOpen[q]
  <2>1. Members' = Members
      BY <1>2 DEF Members
  <2> QED  BY <1>1, <2>1 DEF Broadcaster!absVars, Members, Streams
<1>3. CASE \E p \in Conns :
             /\ socketOpen[p] /\ ~socketOpen'[p]
             /\ \A q \in Conns \ {p} : socketOpen'[q] = socketOpen[q]
  <2>1. PICK p \in Conns :
             /\ socketOpen[p] /\ ~socketOpen'[p]
             /\ \A q \in Conns \ {p} : socketOpen'[q] = socketOpen[q]
      BY <1>3
  <2>2. Members' = Members \ {p} /\ p \in Members
      BY <2>1 DEF Members
  <2>3. Broadcaster!Leave(p)
      BY <1>1, <2>2 DEF Broadcaster!Leave, Members, Streams
  <2> QED  BY <2>3
<1>4. CASE \A q \in Conns : ~socketOpen'[q]
  <2>1. Members' = {}
      BY <1>4 DEF Members
  <2> QED  BY <1>1, <2>1 DEF Broadcaster!Close, Members, Streams
<1> QED  BY <1>2, <1>3, <1>4 DEF Shuts

-----------------------------------------------------------------------------
(* The theorems *)

(* Streams and write queues are one gapless run per client, in whole       *)
(* frames, as long as the kernel takes frames whole: distributeMessage     *)
(* passes every message to every peer in one order, and shutting down or   *)
(* failing never leaves a hole in what was sent.                           *)
THEOREM StreamsAreRuns ==
    ASSUME ~PartialWrites
    PROVE  Spec => []BroadcastInv
<1>1. Init => BroadcastInv
    BY InitBroadcast
<1>2. DispatcherInv /\ BroadcastInv /\ [Next]_vars => BroadcastInv'
    BY NextBroadcast
<1> QED  BY <1>1, <1>2, InvAlways, PTL DEF Spec

-----------------------------------------------------------------------------
(* Frames that leave piece by piece *)

\* On the stream w the chunks of a frame follow each other.
Contiguous(w) ==
    \A i \in 1..Len(w) :
        IF w[i].chunk = 1
          THEN i = 1 \/ w[i-1].chunk = Chunks
          ELSE i > 1 /\ w[i-1] = [msg |-> w[i].msg, chunk |-> w[i].chunk - 1]

\* The stream w ends where t chunks of message m were taken: within its frame,
\* or, if t is 0, behind a whole one.
EndsAt(w, m, t) ==
    IF t > 0 THEN Len(w) > 0 /\ w[Len(w)] = [msg |-> m, chunk |-> t]
             ELSE Len(w) = 0 \/ w[Len(w)].chunk = Chunks

\* The next k chunks of message m, of which t were taken.
Piece(m, t, k) == [i \in 1..k |-> [msg |-> m, chunk |-> t + i]]

\* A stream that ends within a frame goes on with the frame's next chunks.
LEMMA PieceFollows ==
    ASSUME NEW w \in Seq(Chunk), NEW m \in Nat, NEW t \in 0..Chunks,
           NEW k \in 1..(Chunks - t), Contiguous(w), EndsAt(w, m, t)
    PROVE  LET x == w \o Piece(m, t, k)
           IN  /\ Contiguous(x)
               /\ Len(x) > 0
               /\ x[Len(x)] = [msg |-> m, chunk |-> t + k]
<1> DEFINE x == w \o Piece(m, t, k)  n == Len(w)
<1>1. n \in Nat /\ Chunks \in Nat /\ t \in Nat /\ k \in Nat /\ k >= 1
    BY Constants, LenProperties
<1>2. Piece(m, t, k) \in Seq(Chunk) /\ Len(Piece(m, t, k)) = k
  <2>1. Piece(m, t, k) \in [1..k -> Chunk]
      BY <1>1 DEF Piece, Chunk
  <2>2. Piece(m, t, k) \in Seq(Chunk)
      BY <1>1, <2>1, FunctionIsSeq
  <2> QED  BY <1>1, <2>1, <2>2, LenProperties
<1>3. /\ Len(x) = n + k
      /\ \A i \in 1..(n + k) :
             x[i] = IF i <= n THEN w[i] ELSE Piece(m, t, k)[i - n]
    BY <1>2, ConcatProperties
<1>4. /\ \A i \in 1..n : x[i] = w[i]
      /\ \A i \in 1..k : x[n + i] = [msg |-> m, chunk |-> t + i]
  <2> HIDE DEF x, n
  <2>1. \A i \in 1..n : x[i] = w[i]
      BY <1>1, <1>3
  <2>2. ASSUME NEW i \in 1..k
        PROVE  x[n + i] = [msg |-> m, chunk |-> t + i]
    <3>1. n + i \in 1..(n + k) /\ ~(n + i <= n) /\ (n + i) - n = i
        BY <1>1
    <3>2. x[n + i] = Piece(m, t, k)[i]
        BY <1>3, <3>1
    <3> QED  BY <3>2 DEF Piece
  <2> QED  BY <2>1, <2>2
<1> HIDE DEF x
<1>5. ASSUME NEW i \in 1..n
      PROVE  IF x[i].chunk = 1
               THEN i = 1 \/ x[i-1].chunk = Chunks
               ELSE i > 1 /\ x[i-1] = [msg |-> x[i].msg,
                                       chunk |-> x[i].chunk - 1]
  <2>1. x[i] = w[i]
      BY <1>4
  <2>2. i > 1 => x[i-1] = w[i-1]
      BY <1>1, <1>4
  <2>3. IF w[i].chunk = 1
          THEN i = 1 \/ w[i-1].chunk = Chunks
          ELSE i > 1 /\ w[i-1] = [msg |-> w[i].msg, chunk |-> w[i].chunk - 1]
      BY DEF Contiguous
  <2> QED  BY <1>1, <2>1, <2>2, <2>3
<1>6. ASSUME NEW i \in 1..k
      PROVE  IF x[n + i].chunk = 1
               THEN n + i = 1 \/ x[(n + i) - 1].chunk = Chunks
               ELSE n + i > 1 /\ x[(n + i) - 1] = [msg |-> x[n + i].msg,
                                          chunk |-> x[n + i].chunk - 1]
  <2>1. x[n + i].msg = m /\ x[n + i].chunk = t + i
    <3> DEFINE j == n + i
    <3>1. x[j] = [msg |-> m, chunk |-> t + i]
        BY <1>4
    <3> HIDE DEF j
    <3>2. x[j].msg = m /\ x[j].chunk = t + i
        BY <3>1
    <3> QED  BY <3>2 DEF j
  <2>2. CASE i > 1
    <3>1. i - 1 \in 1..k /\ n + (i - 1) = (n + i) - 1 /\ t + i # 1
        BY <1>1, <2>2
    <3>2. x[n + (i - 1)] = [msg |-> m, chunk |-> t + (i - 1)]
        BY <1>4, <3>1
    <3>3. t + (i - 1) = (t + i) - 1 /\ n + i > 1
        BY <1>1, <2>2
    <3> QED  BY <2>1, <3>1, <3>2, <3>3
  <2>3. CASE i = 1 /\ n = 0
    <3>1. t = 0
        BY <1>1, <2>3 DEF EndsAt
    <3> QED  BY <2>1, <2>3, <3>1
  <2>4. CASE i = 1 /\ n > 0
    <3>1. n \in 1..n /\ (n + i) - 1 = n /\ n + i > 1 /\ (t + i) - 1 = t
        BY <1>1, <2>4
    <3>2. x[(n + i) - 1] = w[n]
        BY <1>4, <3>1
    <3>3. CASE t > 0
      <4>1. w[n] = [msg |-> m, chunk |-> t] /\ t + i # 1
          BY <1>1, <2>4, <3>3 DEF EndsAt
      <4> QED  BY <2>1, <3>1, <3>2, <4>1
    <3>4. CASE t = 0
      <4>1. w[n].chunk = Chunks /\ t + i = 1
          BY <1>1, <2>4, <3>4 DEF EndsAt
      <4> QED  BY <2>1, <3>2, <4>1
    <3> QED  BY <1>1, <3>3, <3>4
  <2> QED  BY <1>1, <2>2, <2>3, <2>4
<1>7. Contiguous(x)
  <2> SUFFICES ASSUME NEW j \in 1..(n + k)
               PROVE  IF x[j].chunk = 1
                        THEN j = 1 \/ x[j-1].chunk = Chunks
                        ELSE j > 1 /\ x[j-1] = [msg |-> x[j].msg,
                                               chunk |-> x[j].chunk - 1]
      BY <1>3 DEF Contiguous
  <2>1. CASE j \in 1..n
      BY <1>5, <2>1
  <2>2. CASE j \notin 1..n
    <3>1. j - n \in 1..k /\ n + (j - n) = j
        BY <1>1, <2>2
    <3> QED  BY <1>6, <3>1
  <2> QED  BY <2>1, <2>2
<1>8. Len(x) > 0 /\ x[Len(x)] = [msg |-> m, chunk |-> t + k]
    BY <1>1, <1>3, <1>4
<1> QED  BY <1>7, <1>8 DEF x

\* At most one frame is being written to each client at any time.
OneWrite == \A p \in Conns : Len(writeQ[p]) <= 1

\* While p can be written to, its stream ends where the first write waiting
\* goes on.
StreamEnds(p) ==
    socketOpen[p] /\ link[p] # "reset" =>
        IF writeQ[p] = <<>>
          THEN EndsAt(wire[p], 0, 0)
          ELSE EndsAt(wire[p], Head(writeQ[p]).msg, Head(writeQ[p]).taken)

PiecesInv ==
    /\ FreshSilent
    /\ \A p \in Conns : Contiguous(wire[p]) /\ StreamEnds(p)

LEMMA InitPieces == Init => PiecesInv
<1> SUFFICES ASSUME Init PROVE PiecesInv
    OBVIOUS
<1>1. \A p \in Conns : wire[p] = <<>> /\ ~socketOpen[p]
    BY DEF Init
<1>2. Contiguous(<<>>)
    BY DEF Contiguous
<1> QED  BY <1>1, <1>2 DEF PiecesInv, StreamEnds, FreshSilent

LEMMA QuietPieces ==
    ASSUME PiecesInv, Quiet
    PROVE  PiecesInv'
<1>1. FreshSilent'
    BY DEF PiecesInv, FreshSilent, Quiet
<1>2. ASSUME NEW p \in Conns
      PROVE  Contiguous(wire[p])' /\ StreamEnds(p)'
  <2>1. wire' = wire
      BY DEF Quiet
  <2>2. Contiguous(wire[p]) /\ StreamEnds(p)
      BY DEF PiecesInv
  <2>3. Contiguous(wire'[p])
      BY <2>1, <2>2
  <2>4. ASSUME socketOpen'[p], link'[p] # "reset"
        PROVE  IF writeQ'[p] = <<>>
                 THEN EndsAt(wire'[p], 0, 0)
                 ELSE EndsAt(wire'[p], Head(writeQ'[p]).msg,
                             Head(writeQ'[p]).taken)
    <3>1. socketOpen[p] /\ link[p] # "reset" /\ writeQ'[p] = writeQ[p]
        BY <2>4 DEF Quiet
    <3> QED  BY <2>1, <2>2, <3>1 DEF StreamEnds
  <2> QED  BY <2>3, <2>4 DEF StreamEnds, Contiguous, EndsAt
<1> QED  BY <1>1, <1>2 DEF PiecesInv

\* An id that was not used yet has nothing on its stream or in its queue.
LEMMA FreshIdle ==
    ASSUME DispatcherInv, FreshSilent, AcceptHandler
    PROVE  LET n == current_conn_id + 1
           IN  n \in Conns /\ wire[n] = <<>> /\ writeQ[n] = <<>>
<1> DEFINE n == current_conn_id + 1
<1>1. n \in Conns /\ n > current_conn_id
    BY Constants DEF DispatcherInv, TypeOK, AcceptHandler, Conns
<1>2. wire[n] = <<>>
    BY <1>1 DEF FreshSilent
<1>3. Outstanding(n) = 0
    BY <1>1 DEF DispatcherInv, FreshUnused, HandlersCounted
<1>4. writeQ[n] = <<>>
    BY <1>1, <1>3, OutstandingZero DEF DispatcherInv
<1> QED  BY <1>1, <1>2, <1>4

\* What StreamEnds(p) needs to know of a step: where p can be written to
\* afterwards, its stream is the same, and so is its first write, unless a
\* whole frame is to be written to a peer that had nothing to write.
LEMMA EndKept ==
    ASSUME NEW p \in Conns, StreamEnds(p), wire'[p] = wire[p],
           socketOpen[p], link[p] # "reset",
           \/ writeQ'[p] = writeQ[p]
           \/ /\ writeQ[p] # <<>> /\ writeQ'[p] # <<>>
              /\ Head(writeQ'[p]) = Head(writeQ[p])
           \/ /\ writeQ[p] = <<>>
              /\ writeQ'[p] # <<>> /\ Head(writeQ'[p]).taken = 0
    PROVE  StreamEnds(p)'
BY DEF StreamEnds, EndsAt

LEMMA AcceptPieces ==
    ASSUME DispatcherInv, PiecesInv, AcceptHandler
    PROVE  PiecesInv'
<1> DEFINE n == current_conn_id + 1
<1>1. n \in Conns /\ wire[n] = <<>> /\ writeQ[n] = <<>>
    BY FreshIdle DEF PiecesInv
<1>2. /\ UNCHANGED <<wire, writeQ>> /\ current_conn_id' = n
      /\ current_conn_id \in Nat
      /\ \A q \in Conns \ {n} : UNCHANGED <<socketOpen[q], link[q]>>
    BY <1>1 DEF AcceptHandler, getNextConnectionId, DispatcherInv, TypeOK,
        writeVars
<1>3. FreshSilent'
    BY <1>2 DEF PiecesInv, FreshSilent, Conns
<1> HIDE DEF n
<1>4. ASSUME NEW q \in Conns
      PROVE  Contiguous(wire'[q]) /\ StreamEnds(q)'
  <2>1. Contiguous(wire'[q]) /\ StreamEnds(q)
      BY <1>2 DEF PiecesInv
  <2>2. CASE q = n
      BY <1>1, <1>2, <2>1, <2>2 DEF StreamEnds, EndsAt
  <2>3. CASE q # n
      BY <1>2, <2>1, <2>3, EndKept DEF StreamEnds
  <2> QED  BY <2>1, <2>2, <2>3
<1> QED  BY <1>3, <1>4 DEF PiecesInv, Contiguous

LEMMA RcvBodyPieces ==
    ASSUME DispatcherInv, PiecesInv, NEW p \in Conns, RcvBodyHandler(p)
    PROVE  PiecesInv'
<1> DEFINE new == [msg |-> distributed + 1, taken |-> 0]
<1>1. /\ service = "running" /\ readOp[p] = "body_done"
      /\ UNCHANGED <<socketOpen, link, wire, current_conn_id>>
    BY DEF RcvBodyHandler
<1>2. DistributeMessage(p, distributed + 1) /\ distributed \in Nat
    BY <1>1, BusyPeer DEF RcvBodyHandler, DispatcherInv, TypeOK
<1>3. FreshSilent'
    BY <1>1 DEF PiecesInv, FreshSilent
<1>4. ASSUME NEW q \in Conns
      PROVE  Contiguous(wire'[q]) /\ StreamEnds(q)'
  <2>1. Contiguous(wire'[q]) /\ StreamEnds(q)
      BY <1>1 DEF PiecesInv
  <2>2. CASE socketOpen[q] /\ link[q] # "reset"
    <3>1. writeQ'[q] = Append(writeQ[q], new)
        BY <1>1, <1>2, <2>2, OpenIsListed DEF DistributeMessage
    <3>2. writeQ[q] \in Seq(WriteOp) /\ new \in WriteOp
      <4>1. writeQ[q] \in Seq(WriteOp)
          BY DEF DispatcherInv, TypeOK
      <4>2. new \in WriteOp
          BY <1>2, Constants DEF WriteOp
      <4> QED  BY <4>1, <4>2
    <3>3. new.taken = 0
        OBVIOUS
    <3> HIDE DEF new
    <3>4. /\ Len(writeQ'[q]) = Len(writeQ[q]) + 1
          /\ \A i \in 1..Len(writeQ[q]) : writeQ'[q][i] = writeQ[q][i]
          /\ writeQ'[q][Len(writeQ[q]) + 1] = new
          /\ writeQ'[q] \in Seq(WriteOp)
        BY <3>1, <3>2, AppendProperties
    <3>5. Len(writeQ[q]) \in Nat
        BY <3>2, LenProperties
    <3>6. writeQ'[q] # <<>> /\ Head(writeQ'[q]) = writeQ'[q][1]
        BY <3>4, <3>5, EmptySeq, HeadTailProperties
    <3>7. CASE writeQ[q] = <<>>
      <4>1. Head(writeQ'[q]) = new
          BY <3>4, <3>6, <3>7, EmptySeq
      <4> QED  BY <1>1, <2>1, <2>2, <3>3, <3>6, <3>7, <4>1, EndKept
    <3>8. CASE writeQ[q] # <<>>
      <4>1. 1 \in 1..Len(writeQ[q]) /\ Head(writeQ[q]) = writeQ[q][1]
          BY <3>2, <3>5, <3>8, EmptySeq, HeadTailProperties
      <4>2. Head(writeQ'[q]) = Head(writeQ[q])
          BY <3>4, <3>6, <4>1
      <4> QED  BY <1>1, <2>1, <2>2, <3>6, <3>8, <4>2, EndKept
    <3> QED  BY <3>7, <3>8
  <2>3. CASE ~(socketOpen[q] /\ link[q] # "reset")
      BY <1>1, <2>1, <2>3 DEF StreamEnds
  <2> QED  BY <2>1, <2>2, <2>3
<1> QED  BY <1>3, <1>4 DEF PiecesInv, Contiguous

LEMMA WritePieces ==
    ASSUME DispatcherInv, OneWrite, PiecesInv, NEW p \in Conns, WriteSome(p)
    PROVE  PiecesInv'
<1> DEFINE op == Head(writeQ[p])
<1>1. /\ service = "running" /\ link[p] # "reset" /\ writeQ[p] # <<>>
      /\ socketOpen[p]
    BY DEF WriteSome, DispatcherInv, TypeOK, ClosedIdle
<1>2. /\ wire[p] \in Seq(Chunk) /\ writeQ[p] \in Seq(WriteOp)
      /\ writeQ \in [Conns -> Seq(WriteOp)] /\ wire \in [Conns -> Seq(Chunk)]
    BY DEF DispatcherInv, TypeOK
<1>3. /\ Len(writeQ[p]) = 1 /\ op \in WriteOp
      /\ Tail(writeQ[p]) = <<>>
  <2> DEFINE l == Len(writeQ[p])  rest == Tail(writeQ[p])
  <2>1. l \in Nat /\ l # 0 /\ l <= 1
      BY <1>1, <1>2, EmptySeq, LenProperties DEF OneWrite
  <2>2. op \in WriteOp /\ rest \in Seq(WriteOp) /\ Len(rest) = l - 1
      BY <1>1, <1>2, HeadTailProperties
  <2> HIDE DEF l, rest
  <2>3. l = 1
      BY <2>1
  <2>4. Len(rest) = 0
      BY <2>2, <2>3
  <2>5. rest = <<>>
      BY <2>2, <2>4, EmptySeq
  <2> QED  BY <2>2, <2>3, <2>5 DEF l, rest
<1>4. op.msg \in Nat /\ op.taken \in 0..Chunks
    BY <1>3 DEF WriteOp
<1>5. PICK n \in 1..(Chunks - op.taken) :
        /\ wire' = [wire EXCEPT ![p] = @ \o Piece(op.msg, op.taken, n)]
        /\ \/ /\ n = Chunks - op.taken
              /\ writeQ' = [writeQ EXCEPT ![p] = Tail(@)]
           \/ /\ writeQ' = [writeQ EXCEPT ![p] =
                               Append(Tail(@), [op EXCEPT !.taken = @ + n])]
    BY DEF WriteSome, Piece
<1>6. /\ UNCHANGED <<socketOpen, link, current_conn_id>>
    BY DEF WriteSome, peerVars
<1> DEFINE x == wire[p] \o Piece(op.msg, op.taken, n)
<1>7. /\ wire'[p] = x
      /\ \A q \in Conns \ {p} : UNCHANGED <<wire[q], writeQ[q]>>
      /\ \/ op.taken + n = Chunks /\ writeQ'[p] = <<>>
         \/ writeQ'[p] = <<[op EXCEPT !.taken = @ + n]>>
  <2>1. wire'[p] = x /\ \A q \in Conns \ {p} : wire'[q] = wire[q]
      BY <1>2, <1>5
  <2>2. n = Chunks - op.taken => op.taken + n = Chunks
      BY <1>4, Constants
  <2> DEFINE next == [op EXCEPT !.taken = @ + n]
  <2>3. Append(<<>>, next) = <<next>>
      OBVIOUS
  <2> HIDE DEF x, op, next
  <2>4. \A q \in Conns \ {p} : writeQ'[q] = writeQ[q]
      BY <1>2, <1>5
  <2>5. \/ op.taken + n = Chunks /\ writeQ'[p] = <<>>
        \/ writeQ'[p] = <<next>>
      BY <1>2, <1>3, <1>5, <2>2, <2>3 DEF next
  <2> QED  BY <2>1, <2>4, <2>5 DEF next
<1>8. Contiguous(wire[p]) /\ EndsAt(wire[p], op.msg, op.taken)
    BY <1>1 DEF PiecesInv, StreamEnds
<1>9. /\ Contiguous(x) /\ Len(x) > 0
      /\ x[Len(x)] = [msg |-> op.msg, chunk |-> op.taken + n]
  <2> DEFINE m == op.msg  t == op.taken  w == wire[p]
  <2>1. /\ w \in Seq(Chunk) /\ m \in Nat /\ t \in 0..Chunks
        /\ n \in 1..(Chunks - t) /\ Contiguous(w) /\ EndsAt(w, m, t)
      BY <1>2, <1>4, <1>8
  <2>2. x = w \o Piece(m, t, n)
      OBVIOUS
  <2> HIDE DEF m, t, w, x
  <2>3. /\ Contiguous(x) /\ Len(x) > 0
        /\ x[Len(x)] = [msg |-> m, chunk |-> t + n]
      BY <2>1, <2>2, PieceFollows
  <2> QED  BY <2>3 DEF m, t
<1>10. StreamEnds(p)'
  <2> DEFINE next == [op EXCEPT !.taken = @ + n]
  <2>1. next.msg = op.msg /\ next.taken = op.taken + n
      BY <1>3 DEF WriteOp
  <2>2. op.taken + n > 0
      BY <1>4, Constants
  <2>3. Head(<<next>>) = next /\ <<next>> # <<>>
      OBVIOUS
  <2> HIDE DEF op, x, next
  <2>4. CASE op.taken + n = Chunks /\ writeQ'[p] = <<>>
    <3>1. EndsAt(wire'[p], 0, 0)
        BY <1>7, <1>9, <2>4 DEF EndsAt
    <3> QED  BY <2>4, <3>1 DEF StreamEnds
  <2>5. CASE writeQ'[p] = <<next>>
    <3>1. EndsAt(wire'[p], next.msg, next.taken)
        BY <1>7, <1>9, <2>1, <2>2 DEF EndsAt
    <3> QED  BY <2>3, <2>5, <3>1 DEF StreamEnds
  <2> QED  BY <1>7, <2>4, <2>5 DEF next
<1> HIDE DEF op, x
<1>11. ASSUME NEW q \in Conns \ {p}
       PROVE  Contiguous(wire'[q]) /\ StreamEnds(q)'
  <2>1. Contiguous(wire[q]) /\ StreamEnds(q)
      BY DEF PiecesInv
  <2>2. UNCHANGED <<wire[q], writeQ[q], socketOpen[q], link[q]>>
      BY <1>6, <1>7
  <2> QED  BY <2>1, <2>2 DEF StreamEnds
<1>12. FreshSilent'
  <2>1. p <= current_conn_id
      BY <1>1 DEF DispatcherInv, FreshUnused, TypeOK, Conns
  <2> QED  BY <1>6, <1>7, <2>1, SMTT(20) DEF PiecesInv, FreshSilent,
              DispatcherInv, TypeOK, Conns
<1>13. Contiguous(wire'[p])
    BY <1>7, <1>9
<1> QED  BY <1>10, <1>11, <1>12, <1>13 DEF PiecesInv, Contiguous

LEMMA NextPieces ==
    DispatcherInv /\ OneWrite /\ PiecesInv /\ [Next]_vars => PiecesInv'
<1> SUFFICES ASSUME DispatcherInv, OneWrite, PiecesInv, [Next]_vars
             PROVE  PiecesInv'
    OBVIOUS
<1>1. CASE AcceptHandler
    BY <1>1, AcceptPieces
<1>2. ASSUME NEW p \in Conns, RcvBodyHandler(p)
      PROVE  PiecesInv'
    BY <1>2, RcvBodyPieces
<1>3. ASSUME NEW p \in Conns, WriteSome(p)
      PROVE  PiecesInv'
    BY <1>3, WritePieces
<1>4. CASE Quiet
    BY <1>4, QuietPieces
<1> QED  BY <1>1, <1>2, <1>3, <1>4, Steps

(* With partial writes as well, the frames of different messages never mix  *)
(* on a stream as long as no write to a peer is started before the last    *)
(* one has ended: it is the overlap of async_write operations that mixes   *)
(* them (sendMessage does not wait), not what becomes of each one of them. *)
THEOREM FramesStayWhole == Spec /\ []OneWrite => []FramesContiguous
<1>1. Init => PiecesInv
    BY InitPieces
<1>2. DispatcherInv /\ OneWrite /\ PiecesInv /\ [Next]_vars => PiecesInv'
    BY NextPieces
<1>3. PiecesInv => FramesContiguous
    BY Zenon DEF PiecesInv, Contiguous, FramesContiguous
<1> QED  BY <1>1, <1>2, <1>3, InvAlways, PTL DEF Spec

-----------------------------------------------------------------------------
(* The server implements the abstract broadcast, however handlers, errors  *)
(* and departures interleave.  That the kernel takes every frame in one    *)
(* piece is necessary: otherwise frames of two messages are mixed, since   *)
(* sendMessage starts writes while others are in progress.                 *)
THEOREM BroadcastImplemented ==
    ASSUME ~PartialWrites
    PROVE  Spec => ImplementsBroadcast
<1>1. Init => Broadcaster!Init
  <2> SUFFICES ASSUME Init PROVE Broadcaster!Init
      OBVIOUS
  <2>1. /\ current_conn_id = 0 /\ distributed = 0
        /\ joined = [p \in Conns |-> 0]
      BY DEF Init
  <2>2. Members = {} /\ 1..current_conn_id = {}
      BY <2>1 DEF Init, Members
  <2>3. ASSUME NEW p \in Conns
        PROVE  Delivered(p) = <<>>
    <3>1. Frames(p) = 0
        BY Constants DEF Init, Frames
    <3> QED  BY <3>1 DEF Delivered
  <2>4. Streams = [p \in Conns |-> <<>>]
      BY <2>3 DEF Streams
  <2> QED  BY <2>1, <2>2, <2>4 DEF Broadcaster!Init, Members, Streams
<1>2. DispatcherInv /\ DispatcherInv' /\ BroadcastInv /\ BroadcastInv'
          /\ [Next]_vars => [Broadcaster!Next]_(Broadcaster!absVars)
  <2> SUFFICES ASSUME DispatcherInv, DispatcherInv', BroadcastInv,
                      BroadcastInv', [Next]_vars
               PROVE  Broadcaster!Next \/ UNCHANGED Broadcaster!absVars
      OBVIOUS
  <2>1. CASE AcceptHandler
      BY <2>1, AcceptIsJoin DEF Broadcaster!Next
  <2>2. ASSUME NEW p \in Conns, RcvBodyHandler(p)
        PROVE  Broadcaster!Next
      BY <2>2, RcvBodyIsPublish DEF Broadcaster!Next
  <2>3. ASSUME NEW p \in Conns, WriteSome(p)
        PROVE  Broadcaster!Next
      BY <2>3, WriteIsDeliver DEF Broadcaster!Next
  <2>4. CASE Quiet /\ Shuts
      BY <2>4, QuietIsLeave DEF Broadcaster!Next
  <2> QED  BY <2>1, <2>2, <2>3, <2>4, Steps
<1> QED  BY <1>1, <1>2, InvAlways, StreamsAreRuns, PTL
          DEF Spec, ImplementsBroadcast, Broadcaster!Spec
=============================================================================
