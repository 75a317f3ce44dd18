--------------------------- MODULE ClientNodeProofs ---------------------------
(***************************************************************************)
(* Theorems about the client library.                                      *)
(***************************************************************************)
EXTENDS ClientNode, SequenceTheorems, FiniteSetTheorems, TLAPS

LEMMA Constants ==
    /\ MaxRequests \in Nat /\ MaxRequests >= 1
    /\ MaxMessages \in Nat
    /\ MaxRecords \in Nat /\ MaxRecords >= 1
BY ClientBounds

-----------------------------------------------------------------------------
(* Operations and completions *)

LEMMA OperationFields ==
    ASSUME NEW op \in Operation
    PROVE  /\ op.chain \in Chains
           /\ op.kind \in {"header", "body", "resolve", "connect", "write"}
           /\ op.kind = "write" => op.arg \in Messages
           /\ op.kind = "connect" => op.arg \in 1..MaxRecords
           /\ op.kind = "resolve" => op.arg \in 0..MaxRecords
           /\ op.kind \in {"header", "body"} => op.arg \in {0, 1}
BY DEF Operation

LEMMA OpIsOperation ==
    ASSUME NEW c \in Chains
    PROVE  /\ Op("header", c, 0) \in Operation
           /\ Op("body", c, 0) \in Operation
           /\ Op("body", c, 1) \in Operation
           /\ \A n \in 0..MaxRecords : Op("resolve", c, n) \in Operation
           /\ \A n \in 1..MaxRecords : Op("connect", c, n) \in Operation
           /\ \A m \in Messages : Op("write", c, m) \in Operation
BY DEF Op, Operation

LEMMA DoneIsCompletion ==
    ASSUME NEW op \in Operation, NEW r \in Results
    PROVE  /\ Done(op, r) \in Completion
           /\ Done(op, r).op = op /\ Done(op, r).result = r
BY DEF Done, Completion

-----------------------------------------------------------------------------
(* The fates of messages.                                                  *)
(*                                                                         *)
(* The lemmas of this section are about operations O, a queue Q, reports R *)
(* and two sets of messages: only those in S may be anywhere, and those in *)
(* K must be somewhere.  One lemma per thing a step does to them; a step   *)
(* that does two things takes two lemmas.                                  *)

FateOf(m, O, Q, R, S, K) ==
    /\ \A a \in O : IsWrite(a, m) =>
         /\ m \in S /\ R[m] = 0
         /\ \A i \in 1..Len(Q) : ~IsWrite(Q[i].op, m)
         /\ \A b \in O : IsWrite(b, m) => a = b
    /\ \A i \in 1..Len(Q) : IsWrite(Q[i].op, m) =>
         /\ m \in S /\ R[m] = 0
         /\ \A j \in 1..Len(Q) : IsWrite(Q[j].op, m) => i = j
    /\ R[m] <= 1
    /\ R[m] # 0 => m \in S
    /\ m \in K => \/ R[m] = 1
                  \/ \E a \in O : IsWrite(a, m)
                  \/ \E i \in 1..Len(Q) : IsWrite(Q[i].op, m)

HasRecords(d) == d.op.kind = "resolve" /\ d.result = "ok" => d.op.arg > 0

Books(O, Q, R, S, K) ==
    /\ O \subseteq Operation /\ IsFiniteSet(O)
    /\ Q \in Seq(Completion)
    /\ \A i \in 1..Len(Q) : HasRecords(Q[i])
    /\ R \in [Messages -> Nat]
    /\ \A m \in Messages : FateOf(m, O, Q, R, S, K)

LEMMA TailOfQueue ==
    ASSUME NEW Q \in Seq(Completion), Q # <<>>
    PROVE  /\ Tail(Q) \in Seq(Completion)
           /\ Len(Q) \in Nat /\ Len(Tail(Q)) = Len(Q) - 1
           /\ 1 \in 1..Len(Q) /\ Head(Q) = Q[1] /\ Head(Q) \in Completion
           /\ \A i \in 1..Len(Tail(Q)) :
                i + 1 \in 1..Len(Q) /\ Tail(Q)[i] = Q[i + 1]
           /\ \A j \in 1..Len(Q) :
                j # 1 => j - 1 \in 1..Len(Tail(Q)) /\ Tail(Q)[j - 1] = Q[j]
<1>1. /\ Tail(Q) \in Seq(Completion) /\ Len(Tail(Q)) = Len(Q) - 1
      /\ \A i \in 1..Len(Tail(Q)) : Tail(Q)[i] = Q[i + 1]
      /\ Head(Q) = Q[1] /\ Head(Q) \in Completion
    BY HeadTailProperties
<1>2. Len(Q) \in Nat /\ Len(Q) # 0
    BY LenProperties, EmptySeq
<1>3. \A j \in 1..Len(Q) :
         j # 1 => j - 1 \in 1..Len(Tail(Q)) /\ (j - 1) + 1 = j
    BY <1>1, <1>2
<1>4. \A i \in 1..Len(Tail(Q)) : i + 1 \in 1..Len(Q)
    BY <1>1, <1>2
<1>5. \A j \in 1..Len(Q) : j # 1 => Tail(Q)[j - 1] = Q[j]
  <2> TAKE j \in 1..Len(Q)
  <2> SUFFICES ASSUME j # 1 PROVE Tail(Q)[j - 1] = Q[j]
      OBVIOUS
  <2>1. j - 1 \in 1..Len(Tail(Q)) /\ (j - 1) + 1 = j
      BY <1>3
  <2>2. Tail(Q)[j - 1] = Q[(j - 1) + 1]
      BY <1>1, <2>1
  <2> QED  BY <2>1, <2>2
<1> QED  BY <1>1, <1>2, <1>3, <1>4, <1>5

LEMMA AppendToQueue ==
    ASSUME NEW Q \in Seq(Completion), NEW d \in Completion
    PROVE  /\ Append(Q, d) \in Seq(Completion)
           /\ Len(Q) \in Nat /\ Len(Append(Q, d)) = Len(Q) + 1
           /\ \A i \in 1..Len(Q) : Append(Q, d)[i] = Q[i]
           /\ Append(Q, d)[Len(Q) + 1] = d
BY AppendProperties, LenProperties

LEMMA FateTail ==
    ASSUME NEW O, NEW Q \in Seq(Completion), Q # <<>>, NEW R, NEW S, NEW K,
           NEW m \in Messages, FateOf(m, O, Q, R, S, K),
           ~IsWrite(Head(Q).op, m)
    PROVE  FateOf(m, O, Tail(Q), R, S, K)
<1>1. ASSUME NEW i \in 1..Len(Tail(Q)), IsWrite(Tail(Q)[i].op, m)
      PROVE  i + 1 \in 1..Len(Q) /\ IsWrite(Q[i + 1].op, m)
    BY <1>1, TailOfQueue
<1>2. ASSUME NEW i \in 1..Len(Q), IsWrite(Q[i].op, m)
      PROVE  i - 1 \in 1..Len(Tail(Q)) /\ IsWrite(Tail(Q)[i - 1].op, m)
  <2>1. i # 1
      BY <1>2, TailOfQueue
  <2> QED  BY <1>2, <2>1, TailOfQueue
<1>3. \A i, j \in 1..Len(Tail(Q)) : i + 1 = j + 1 => i = j
    OBVIOUS
<1>4. \A i \in 1..Len(Tail(Q)) : IsWrite(Tail(Q)[i].op, m) =>
         /\ m \in S /\ R[m] = 0
         /\ \A j \in 1..Len(Tail(Q)) : IsWrite(Tail(Q)[j].op, m) => i = j
    BY <1>1, <1>3 DEF FateOf
<1>5. \A a \in O : IsWrite(a, m) =>
         \A i \in 1..Len(Tail(Q)) : ~IsWrite(Tail(Q)[i].op, m)
    BY <1>1 DEF FateOf
<1>6. (\E i \in 1..Len(Q) : IsWrite(Q[i].op, m)) =>
         \E i \in 1..Len(Tail(Q)) : IsWrite(Tail(Q)[i].op, m)
    BY <1>2
<1> QED  BY <1>4, <1>5, <1>6, Zenon DEF FateOf

LEMMA FateAppend ==
    ASSUME NEW O, NEW Q \in Seq(Completion), NEW R, NEW S, NEW K,
           NEW m \in Messages, FateOf(m, O, Q, R, S, K),
           NEW d \in Completion, ~IsWrite(d.op, m)
    PROVE  FateOf(m, O, Append(Q, d), R, S, K)
<1>1. ASSUME NEW i \in 1..Len(Append(Q, d)), IsWrite(Append(Q, d)[i].op, m)
      PROVE  i \in 1..Len(Q) /\ Append(Q, d)[i] = Q[i]
  <2>1. i # Len(Q) + 1
      BY <1>1, AppendToQueue
  <2>2. i \in 1..Len(Q)
      BY <2>1, AppendToQueue
  <2> QED  BY <2>2, AppendToQueue
<1>2. ASSUME NEW i \in 1..Len(Q)
      PROVE  i \in 1..Len(Append(Q, d)) /\ Append(Q, d)[i] = Q[i]
    BY AppendToQueue
<1> QED  BY <1>1, <1>2, Zenon DEF FateOf

LEMMA RecordsTail ==
    ASSUME NEW Q \in Seq(Completion), Q # <<>>,
           \A i \in 1..Len(Q) : HasRecords(Q[i])
    PROVE  \A i \in 1..Len(Tail(Q)) : HasRecords(Tail(Q)[i])
BY TailOfQueue, Zenon

LEMMA RecordsAppend ==
    ASSUME NEW Q \in Seq(Completion), NEW d \in Completion, HasRecords(d),
           \A i \in 1..Len(Q) : HasRecords(Q[i])
    PROVE  \A i \in 1..Len(Append(Q, d)) : HasRecords(Append(Q, d)[i])
<1> TAKE i \in 1..Len(Append(Q, d))
<1>1. i \in 1..Len(Q) \/ i = Len(Q) + 1
    BY AppendToQueue
<1>2. Append(Q, d)[i] = IF i \in 1..Len(Q) THEN Q[i] ELSE d
    BY <1>1, AppendToQueue
<1> QED  BY <1>2, Zenon

\* A handler that is not of a write is taken.
LEMMA HeadDropped ==
    ASSUME NEW O, NEW Q, NEW R, NEW S, NEW K, Books(O, Q, R, S, K),
           Q # <<>>, Head(Q).op.kind # "write"
    PROVE  Books(O, Tail(Q), R, S, K)
<1>1. Tail(Q) \in Seq(Completion)
    BY TailOfQueue DEF Books
<1>2. \A i \in 1..Len(Tail(Q)) : HasRecords(Tail(Q)[i])
    BY RecordsTail DEF Books
<1>3. \A m \in Messages : FateOf(m, O, Tail(Q), R, S, K)
    BY FateTail DEF Books, IsWrite
<1> QED  BY <1>1, <1>2, <1>3 DEF Books

\* The handler of a write is taken and reports the message.
LEMMA HeadReported ==
    ASSUME NEW O, NEW Q, NEW R, NEW S, NEW K, Books(O, Q, R, S, K),
           Q # <<>>, Head(Q).op.kind = "write"
    PROVE  Books(O, Tail(Q), [R EXCEPT ![Head(Q).op.arg] = @ + 1], S, K)
<1> DEFINE n == Head(Q).op.arg
           R2 == [R EXCEPT ![n] = @ + 1]
<1>1. Tail(Q) \in Seq(Completion) /\ Head(Q) = Q[1] /\ 1 \in 1..Len(Q)
      /\ Head(Q) \in Completion
    BY TailOfQueue DEF Books
<1>2. \A i \in 1..Len(Tail(Q)) : HasRecords(Tail(Q)[i])
    BY RecordsTail DEF Books
<1>3. n \in Messages /\ IsWrite(Q[1].op, n)
    BY <1>1, OperationFields DEF Completion, IsWrite
<1>4. FateOf(n, O, Q, R, S, K) /\ R \in [Messages -> Nat]
    BY <1>3 DEF Books
<1>5. n \in S /\ R[n] = 0 /\ \A i \in 1..Len(Q) : IsWrite(Q[i].op, n) => i = 1
    BY <1>1, <1>3, <1>4, Zenon DEF FateOf
<1>6. \A a \in O : ~IsWrite(a, n)
    BY <1>1, <1>3, <1>4, Zenon DEF FateOf
<1>7. \A i \in 1..Len(Tail(Q)) : ~IsWrite(Tail(Q)[i].op, n)
  <2> TAKE i \in 1..Len(Tail(Q))
  <2>1. i + 1 \in 1..Len(Q) /\ Tail(Q)[i] = Q[i + 1] /\ i + 1 # 1
      BY TailOfQueue DEF Books
  <2> QED  BY <1>5, <2>1
<1>8. R2 \in [Messages -> Nat] /\ R2[n] = 1
      /\ \A m \in Messages \ {n} : R2[m] = R[m]
    BY <1>3, <1>4, <1>5
<1> HIDE DEF R2
<1>9. FateOf(n, O, Tail(Q), R2, S, K)
    BY <1>5, <1>6, <1>7, <1>8 DEF FateOf
<1>10. ASSUME NEW m \in Messages \ {n}
       PROVE  FateOf(m, O, Tail(Q), R2, S, K)
  <2>1. ~IsWrite(Head(Q).op, m)
      BY DEF IsWrite
  <2>2. FateOf(m, O, Tail(Q), R, S, K)
      BY <2>1, FateTail DEF Books
  <2> QED  BY <1>8, <2>2 DEF FateOf
<1>11. \A m \in Messages : FateOf(m, O, Tail(Q), R2, S, K)
    BY <1>9, <1>10
<1> QED  BY <1>1, <1>2, <1>8, <1>11 DEF Books, R2

\* An operation completes and its handler is queued.
LEMMA OperationDone ==
    ASSUME NEW O, NEW Q, NEW R, NEW S, NEW K, Books(O, Q, R, S, K),
           NEW op \in O, NEW d \in Completion, HasRecords(d),
           d.op = op \/ (op.kind # "write" /\ d.op.kind # "write")
    PROVE  Books(O \ {op}, Append(Q, d), R, S, K)
<1>1. O \ {op} \subseteq Operation /\ IsFiniteSet(O \ {op})
    BY FS_RemoveElement DEF Books
<1>2. Append(Q, d) \in Seq(Completion)
      /\ \A i \in 1..Len(Append(Q, d)) : HasRecords(Append(Q, d)[i])
    BY AppendToQueue, RecordsAppend DEF Books
<1>3. ASSUME NEW m \in Messages
      PROVE  FateOf(m, O \ {op}, Append(Q, d), R, S, K)
  <2>1. FateOf(m, O, Q, R, S, K) /\ Q \in Seq(Completion)
      BY DEF Books
  <2>2. CASE ~IsWrite(op, m)
    <3>1. ~IsWrite(d.op, m)
        BY <2>2 DEF IsWrite
    <3>2. FateOf(m, O, Append(Q, d), R, S, K)
        BY <2>1, <3>1, FateAppend
    <3>3. \A a \in O : IsWrite(a, m) => a \in O \ {op}
        BY <2>2
    <3> QED  BY <3>2, <3>3, Zenon DEF FateOf
  <2>3. CASE IsWrite(op, m)
    <3>1. IsWrite(d.op, m)
        BY <2>3 DEF IsWrite
    <3>2. /\ m \in S /\ R[m] = 0
          /\ \A i \in 1..Len(Q) : ~IsWrite(Q[i].op, m)
          /\ \A b \in O : IsWrite(b, m) => op = b
        BY <2>1, <2>3, Zenon DEF FateOf
    <3>3. \A a \in O \ {op} : ~IsWrite(a, m)
        BY <3>2
    <3> DEFINE n == Len(Q) + 1
    <3>4. n \in 1..Len(Append(Q, d)) /\ Append(Q, d)[n] = d
        BY <2>1, AppendToQueue
    <3>5. \A i \in 1..Len(Append(Q, d)) :
             IsWrite(Append(Q, d)[i].op, m) => i = n
      <4> TAKE i \in 1..Len(Append(Q, d))
      <4>1. i \in 1..Len(Q) \/ i = n
          BY <2>1, AppendToQueue
      <4>2. CASE i \in 1..Len(Q)
          BY <2>1, <3>2, <4>2, AppendToQueue
      <4> QED  BY <4>1, <4>2
    <3> HIDE DEF n
    <3> QED  BY <3>1, <3>2, <3>3, <3>4, <3>5 DEF FateOf
  <2> QED  BY <2>2, <2>3
<1> QED  BY <1>1, <1>2, <1>3 DEF Books

\* A handler that is not of a write is queued.
LEMMA HandlerQueued ==
    ASSUME NEW O, NEW Q, NEW R, NEW S, NEW K, Books(O, Q, R, S, K),
           NEW d \in Completion, HasRecords(d), d.op.kind # "write"
    PROVE  Books(O, Append(Q, d), R, S, K)
<1>1. Append(Q, d) \in Seq(Completion)
      /\ \A i \in 1..Len(Append(Q, d)) : HasRecords(Append(Q, d)[i])
    BY AppendToQueue, RecordsAppend DEF Books
<1>2. \A m \in Messages : FateOf(m, O, Append(Q, d), R, S, K)
    BY FateAppend DEF Books, IsWrite
<1> QED  BY <1>1, <1>2 DEF Books

\* An operation that is not a write is started.
LEMMA OperationStarted ==
    ASSUME NEW O, NEW Q, NEW R, NEW S, NEW K, Books(O, Q, R, S, K),
           NEW op \in Operation, op.kind # "write"
    PROVE  Books(O \union {op}, Q, R, S, K)
<1>1. O \union {op} \subseteq Operation /\ IsFiniteSet(O \union {op})
    BY FS_AddElement DEF Books
<1>2. ASSUME NEW m \in Messages
      PROVE  FateOf(m, O \union {op}, Q, R, S, K)
  <2>1. FateOf(m, O, Q, R, S, K) /\ ~IsWrite(op, m)
      BY DEF Books, IsWrite
  <2>2. \A a \in O \union {op} : IsWrite(a, m) => a \in O
      BY <2>1
  <2> QED  BY <2>1, <2>2, Zenon DEF FateOf
<1> QED  BY <1>1, <1>2 DEF Books

\* A message that was nowhere yet is nowhere.
LEMMA NewMessage ==
    ASSUME NEW O, NEW Q, NEW R, NEW S, NEW K, Books(O, Q, R, S, K),
           NEW n \in Messages, n \notin S
    PROVE  /\ \A a \in O : ~IsWrite(a, n)
           /\ \A i \in 1..Len(Q) : ~IsWrite(Q[i].op, n)
           /\ R[n] = 0
BY DEF Books, FateOf

\* The machine takes a message and starts to write it.
LEMMA WriteStarted ==
    ASSUME NEW O, NEW Q, NEW R, NEW S, NEW K, Books(O, Q, R, S, K),
           NEW op \in Operation, op.kind = "write", op.arg \notin S
    PROVE  Books(O \union {op}, Q, R, S \union {op.arg}, K \union {op.arg})
<1> DEFINE n == op.arg
<1>1. O \union {op} \subseteq Operation /\ IsFiniteSet(O \union {op})
    BY FS_AddElement DEF Books
<1>2. n \in Messages /\ IsWrite(op, n)
    BY OperationFields DEF IsWrite
<1>3. /\ \A a \in O : ~IsWrite(a, n)
      /\ \A i \in 1..Len(Q) : ~IsWrite(Q[i].op, n)
      /\ R[n] = 0
    BY <1>2, NewMessage
<1>4. FateOf(n, O \union {op}, Q, R, S \union {n}, K \union {n})
    BY <1>2, <1>3 DEF FateOf
<1>5. ASSUME NEW m \in Messages, m # n
      PROVE  FateOf(m, O \union {op}, Q, R, S \union {n}, K \union {n})
  <2>1. FateOf(m, O, Q, R, S, K)
      BY DEF Books
  <2>2. \A a \in O \union {op} : IsWrite(a, m) => a \in O
      BY <1>5 DEF IsWrite
  <2>3. m \in K \union {n} <=> m \in K
      BY <1>5
  <2> QED  BY <2>1, <2>2, <2>3, Zenon DEF FateOf
<1> QED  BY <1>1, <1>4, <1>5 DEF Books

\* The machine takes a message whose write fails at once.
LEMMA WriteRefused ==
    ASSUME NEW O, NEW Q, NEW R, NEW S, NEW K, Books(O, Q, R, S, K),
           NEW op \in Operation, op.kind = "write", op.arg \notin S
    PROVE  Books(O, Append(Q, Done(op, "error")), R,
                 S \union {op.arg}, K \union {op.arg})
<1> DEFINE n == op.arg
           d == Done(op, "error")
           S2 == S \union {n}
           K2 == K \union {n}
<1>1. d \in Completion /\ d.op = op /\ HasRecords(d)
    BY DoneIsCompletion DEF HasRecords, Results
<1>2. n \in Messages /\ IsWrite(op, n)
    BY OperationFields DEF IsWrite
<1>3. /\ \A a \in O : ~IsWrite(a, n)
      /\ \A i \in 1..Len(Q) : ~IsWrite(Q[i].op, n)
      /\ R[n] = 0
    BY <1>2, NewMessage
<1> HIDE DEF d
<1>4. Books(O \union {op}, Q, R, S2, K2)
    BY WriteStarted
<1>5. Books((O \union {op}) \ {op}, Append(Q, d), R, S2, K2)
    BY <1>1, <1>4, OperationDone
<1>6. op \notin O
    BY <1>2, <1>3
<1>7. (O \union {op}) \ {op} = O
    BY <1>6
<1> QED  BY <1>5, <1>7, Zenon DEF d

\* The machine takes a message and reports its failure.
LEMMA MessageRefused ==
    ASSUME NEW O, NEW Q, NEW R, NEW S, NEW K, Books(O, Q, R, S, K),
           NEW n \in Messages, n \notin S
    PROVE  Books(O, Q, [R EXCEPT ![n] = @ + 1], S \union {n}, K \union {n})
<1> DEFINE R2 == [R EXCEPT ![n] = @ + 1]
<1>1. /\ \A a \in O : ~IsWrite(a, n)
      /\ \A i \in 1..Len(Q) : ~IsWrite(Q[i].op, n)
      /\ R[n] = 0
    BY NewMessage
<1>2. /\ R2 \in [Messages -> Nat] /\ R2[n] = 1
      /\ \A m \in Messages \ {n} : R2[m] = R[m]
    BY <1>1 DEF Books
<1> HIDE DEF R2
<1>3. FateOf(n, O, Q, R2, S \union {n}, K \union {n})
    BY <1>1, <1>2 DEF FateOf
<1>4. ASSUME NEW m \in Messages \ {n}
      PROVE  FateOf(m, O, Q, R2, S \union {n}, K \union {n})
  <2>1. FateOf(m, O, Q, R, S, K) /\ R2[m] = R[m]
      BY <1>2 DEF Books
  <2>2. m \in K \union {n} <=> m \in K
      OBVIOUS
  <2> QED  BY <2>1, <2>2, Zenon DEF FateOf
<1> QED  BY <1>2, <1>3, <1>4 DEF Books, R2

\* The operations are given up, and which messages those were.
LEMMA OperationsLost ==
    ASSUME NEW O, NEW Q, NEW R, NEW S, NEW K, Books(O, Q, R, S, K),
           NEW S2, S \subseteq S2
    PROVE  Books({}, Q, R, S2, {})
<1>1. {} \subseteq Operation /\ IsFiniteSet({})
    BY FS_EmptySet
<1>2. \A m \in Messages : FateOf(m, {}, Q, R, S2, {})
    BY DEF Books, FateOf
<1> QED  BY <1>1, <1>2 DEF Books

\* Every operation on the socket is in its place in the order, exactly once.
LEMMA OrderIsComplete ==
    ASSUME NEW T, IsFiniteSet(T), NEW order \in CompletionOrders(T)
    PROVE  \E n \in Nat :
             /\ order \in [1..n -> T]
             /\ \A i, j \in 1..n : order[i] = order[j] => i = j
             /\ \A op \in T : \E i \in 1..n : order[i] = op
<1> DEFINE n == Cardinality(T)
<1>1. n \in Nat
    BY FS_CardinalityType
<1>2. /\ order \in [1..n -> T]
      /\ \A i, j \in 1..n : i # j => order[i] # order[j]
    BY DEF CompletionOrders, SetToSeqs
<1>3. order \in Injection(1..n, T)
    BY <1>2 DEF Injection, IsInjective
<1>4. Cardinality(1..n) = n
  <2>1. Cardinality(1..n) = IF 1 > n THEN 0 ELSE n - 1 + 1
      BY <1>1, FS_Interval
  <2> HIDE DEF n
  <2> QED  BY <1>1, <2>1
<1>5. order \in Surjection(1..n, T)
    BY <1>3, <1>4, FS_Injection
<1>6. \A op \in T : \E i \in 1..n : order[i] = op
    BY <1>5 DEF Surjection
<1> QED  BY <1>1, <1>2, <1>6

LEMMA ConcatQueues ==
    ASSUME NEW Q \in Seq(Completion), NEW A \in Seq(Completion)
    PROVE  /\ Q \o A \in Seq(Completion)
           /\ Len(Q) \in Nat /\ Len(A) \in Nat
           /\ \A i \in 1..Len(Q) :
                i \in 1..Len(Q \o A) /\ (Q \o A)[i] = Q[i]
           /\ \A j \in 1..Len(A) : /\ Len(Q) + j \in 1..Len(Q \o A)
                                    /\ (Q \o A)[Len(Q) + j] = A[j]
           /\ \A i \in 1..Len(Q \o A) :
                i \in 1..Len(Q) \/ \E j \in 1..Len(A) : i = Len(Q) + j
<1>1. /\ Q \o A \in Seq(Completion)
      /\ Len(Q \o A) = Len(Q) + Len(A)
      /\ \A i \in 1..(Len(Q) + Len(A)) :
           (Q \o A)[i] = IF i <= Len(Q) THEN Q[i] ELSE A[i - Len(Q)]
    BY ConcatProperties
<1>2. Len(Q) \in Nat /\ Len(A) \in Nat
    BY LenProperties
<1>3. \A i \in 1..Len(Q) : i \in 1..(Len(Q) + Len(A)) /\ i <= Len(Q)
    BY <1>2
<1>4. ASSUME NEW j \in 1..Len(A)
      PROVE  /\ Len(Q) + j \in 1..Len(Q \o A)
             /\ (Q \o A)[Len(Q) + j] = A[j]
  <2>1. /\ Len(Q) + j \in 1..(Len(Q) + Len(A))
        /\ ~(Len(Q) + j <= Len(Q)) /\ (Len(Q) + j) - Len(Q) = j
      BY <1>2
  <2>2. (Q \o A)[Len(Q) + j] = A[(Len(Q) + j) - Len(Q)]
      BY <1>1, <2>1
  <2> QED  BY <1>1, <2>1, <2>2
<1>5. ASSUME NEW i \in 1..(Len(Q) + Len(A)), i \notin 1..Len(Q)
      PROVE  \E j \in 1..Len(A) : i = Len(Q) + j
  <2>1. i - Len(Q) \in 1..Len(A) /\ i = Len(Q) + (i - Len(Q))
      BY <1>2, <1>5
  <2> QED  BY <2>1
<1> QED  BY <1>1, <1>2, <1>3, <1>4, <1>5

\* The handlers of the operations on a socket that is closed.
LEMMA AbortedHandlers ==
    ASSUME NEW O, O \subseteq Operation, IsFiniteSet(O),
           NEW order \in CompletionOrders(OnSocket(O))
    PROVE  LET A == [i \in DOMAIN order |-> Done(order[i], "aborted")]
           IN  /\ A \in Seq(Completion)
               /\ \A i \in 1..Len(A) : A[i].op = order[i] /\ order[i] \in OnSocket(O)
               /\ \A i, j \in 1..Len(A) : order[i] = order[j] => i = j
               /\ \A op \in OnSocket(O) : \E i \in 1..Len(A) : order[i] = op
<1> DEFINE A == [i \in DOMAIN order |-> Done(order[i], "aborted")]
<1>1. OnSocket(O) \subseteq Operation /\ IsFiniteSet(OnSocket(O))
  <2>1. OnSocket(O) \subseteq O
      BY DEF OnSocket
  <2> QED  BY <2>1, FS_Subset
<1>2. PICK n \in Nat :
         /\ order \in [1..n -> OnSocket(O)]
         /\ \A i, j \in 1..n : order[i] = order[j] => i = j
         /\ \A op \in OnSocket(O) : \E i \in 1..n : order[i] = op
    BY <1>1, OrderIsComplete
<1>3. \A i \in 1..n : /\ Done(order[i], "aborted") \in Completion
                      /\ Done(order[i], "aborted").op = order[i]
                      /\ order[i] \in OnSocket(O)
  <2>1. \A i \in 1..n : order[i] \in OnSocket(O) /\ order[i] \in Operation
      BY <1>1, <1>2
  <2> QED  BY <2>1, DoneIsCompletion DEF Results
<1>4. DOMAIN order = 1..n
    BY <1>2
<1>5. A \in [1..n -> Completion]
    BY <1>3, <1>4
<1>6. A \in Seq(Completion)
    BY <1>5, SeqDef
<1>7. Len(A) = n
    BY <1>5, <1>6, LenProperties
<1>8. \A i \in 1..n : A[i] = Done(order[i], "aborted")
    BY <1>4
<1> HIDE DEF A
<1>9. \A i \in 1..n : A[i].op = order[i] /\ order[i] \in OnSocket(O)
    BY <1>3, <1>8
<1> QED  BY <1>2, <1>6, <1>7, <1>9 DEF A

\* The socket is closed: its operations give way to their aborted handlers.
LEMMA OperationsAborted ==
    ASSUME NEW O, NEW Q, NEW R, NEW S, NEW K, Books(O, Q, R, S, K),
           NEW order \in CompletionOrders(OnSocket(O))
    PROVE  Books(O \ OnSocket(O),
                 Q \o [i \in DOMAIN order |-> Done(order[i], "aborted")],
                 R, S, K)
<1> DEFINE O2 == O \ OnSocket(O)
           A == [i \in DOMAIN order |-> Done(order[i], "aborted")]
           Q2 == Q \o A
<1>1. OnSocket(O) \subseteq O /\ IsFiniteSet(OnSocket(O))
      /\ O2 \subseteq Operation /\ IsFiniteSet(O2)
  <2>1. OnSocket(O) \subseteq O
      BY DEF OnSocket
  <2>2. O2 \subseteq O
      OBVIOUS
  <2> QED  BY <2>1, <2>2, FS_Subset DEF Books
<1> DEFINE n == Len(A)
<1>2. /\ A \in Seq(Completion)
      /\ \A i \in 1..n : A[i].op = order[i] /\ order[i] \in OnSocket(O)
      /\ \A i, j \in 1..n : order[i] = order[j] => i = j
      /\ \A op \in OnSocket(O) : \E i \in 1..n : order[i] = op
    BY AbortedHandlers, ZenonT(40) DEF Books
<1> HIDE DEF A
<1>3. \A i \in 1..n : order[i] \in O /\ order[i].kind # "resolve"
    BY <1>1, <1>2 DEF OnSocket
<1>4. \A i \in 1..n : A[i].op = order[i]
    BY <1>2
<1>5. n \in Nat
    BY <1>2, LenProperties
<1>6. /\ Q2 \in Seq(Completion) /\ Len(Q) \in Nat
      /\ \A i \in 1..Len(Q) : i \in 1..Len(Q2) /\ Q2[i] = Q[i]
      /\ \A j \in 1..n : Len(Q) + j \in 1..Len(Q2) /\ Q2[Len(Q) + j] = A[j]
      /\ \A i \in 1..Len(Q2) :
           i \in 1..Len(Q) \/ \E j \in 1..n : i = Len(Q) + j
    BY <1>2, ConcatQueues DEF Books
<1> HIDE DEF Q2, n
<1>7. \A j \in 1..n : HasRecords(A[j])
    BY <1>3, <1>4 DEF HasRecords
<1>8. \A i \in 1..Len(Q2) : HasRecords(Q2[i])
    BY <1>6, <1>7, Zenon DEF Books
<1>9. ASSUME NEW m \in Messages
      PROVE  FateOf(m, O2, Q2, R, S, K)
  <2>1. FateOf(m, O, Q, R, S, K)
      BY DEF Books
  <2>2. \A a \in O2 : ~IsWrite(a, m)
    <3>1. \A a \in O2 : a.kind = "resolve"
        BY DEF OnSocket
    <3> QED  BY <3>1 DEF IsWrite
  <2>3. \A a \in O : IsWrite(a, m) => \E j \in 1..n : order[j] = a
      BY <1>2 DEF IsWrite, OnSocket
  <2>4. \A i \in 1..Len(Q2) : IsWrite(Q2[i].op, m) =>
           \/ i \in 1..Len(Q) /\ IsWrite(Q[i].op, m)
           \/ \E j \in 1..n : i = Len(Q) + j /\ IsWrite(order[j], m)
    <3> TAKE i \in 1..Len(Q2)
    <3>1. CASE i \in 1..Len(Q)
        BY <1>6, <3>1
    <3>2. CASE \E j \in 1..n : i = Len(Q) + j
      <4>1. PICK j \in 1..n : i = Len(Q) + j
          BY <3>2
      <4>2. Q2[i].op = order[j]
          BY <1>4, <1>6, <4>1
      <4> QED  BY <4>1, <4>2
    <3> QED  BY <1>6, <3>1, <3>2
  <2>5. \A i, j \in 1..n :
           IsWrite(order[i], m) /\ IsWrite(order[j], m) => i = j
      BY <1>2, <1>3, <2>1, ZenonT(30) DEF FateOf
  <2>6. \A i \in 1..Len(Q2) : IsWrite(Q2[i].op, m) =>
           /\ m \in S /\ R[m] = 0
           /\ \A j \in 1..Len(Q2) : IsWrite(Q2[j].op, m) => i = j
    <3>1. CASE \E a \in O : IsWrite(a, m)
      <4>1. /\ m \in S /\ R[m] = 0
            /\ \A i \in 1..Len(Q) : ~IsWrite(Q[i].op, m)
          BY <2>1, <3>1, Zenon DEF FateOf
      <4>2. \A i \in 1..Len(Q2) : IsWrite(Q2[i].op, m) =>
               \E j \in 1..n : i = Len(Q) + j /\ IsWrite(order[j], m)
          BY <2>4, <4>1, Zenon
      <4> QED  BY <2>5, <4>1, <4>2, Zenon
    <3>2. CASE ~ \E a \in O : IsWrite(a, m)
      <4>1. \A i \in 1..Len(Q2) : IsWrite(Q2[i].op, m) =>
               i \in 1..Len(Q) /\ IsWrite(Q[i].op, m)
          BY <1>3, <2>4, <3>2, Zenon
      <4> QED  BY <2>1, <4>1, Zenon DEF FateOf
    <3> QED  BY <3>1, <3>2
  <2>7. (\E a \in O : IsWrite(a, m)) =>
           \E i \in 1..Len(Q2) : IsWrite(Q2[i].op, m)
    <3> SUFFICES ASSUME NEW a \in O, IsWrite(a, m)
                 PROVE  \E i \in 1..Len(Q2) : IsWrite(Q2[i].op, m)
        OBVIOUS
    <3>1. PICK j \in 1..n : order[j] = a
        BY <2>3
    <3>2. Len(Q) + j \in 1..Len(Q2) /\ Q2[Len(Q) + j].op = a
        BY <1>4, <1>6, <3>1
    <3> QED  BY <3>2
  <2>8. (\E i \in 1..Len(Q) : IsWrite(Q[i].op, m)) =>
           \E i \in 1..Len(Q2) : IsWrite(Q2[i].op, m)
      BY <1>6, Zenon
  <2> QED  BY <2>1, <2>2, <2>6, <2>7, <2>8, Zenon DEF FateOf
<1>10. Books(O2, Q2, R, S, K)
    BY <1>1, <1>6, <1>8, <1>9 DEF Books
<1> QED  BY <1>10 DEF Q2, A

-----------------------------------------------------------------------------
(* The books of a state *)

SentNow == {m \in Messages : Sent(m)}
KeptNow == IF machine = "Undefined" THEN {} ELSE SentNow

Balanced == Books(ops, queue, sendReports, SentNow, KeptNow)

\* What the threads, the machine and the user's calls maintain.
Control ==
    /\ machine \in {"Waiting", "Negotiating", "Connected", "Terminated",
                   "Undefined"}
    /\ chain \in 0..MaxRequests
    /\ caller \in {"idle", "connect", "join", "spawn", "send", "disconnect",
                  "undefined"} \union Destruction
    /\ io_thread \in 0..MaxRequests
    /\ thread \in [Chains -> ThreadStates]
    /\ event \in [Chains -> [kind : Events, chain : 0..MaxRequests]]
    /\ stopped \in BOOLEAN
    /\ socket \in [state : {"closed", "open", "connecting", "connected"},
                   chain : 0..MaxRequests]
    /\ reported \in {"DISCONNECTED", "CONNECTING", "CONNECTED"}
    /\ last_msg_id \in 0..MaxMessages
    /\ CallsInOrder
    /\ \A t \in Chains : thread[t] \in {"react", "rearm"} => event[t].chain > 0
    /\ ReportInStep

LEMMA InvIsBalance ==
    ClientInv <=> Control /\ Balanced
<1>1. ASSUME ClientInv PROVE Control /\ Balanced
  <2>1. Control
      BY <1>1 DEF ClientInv, TypeOK, Control, HandlersInOrder
  <2>2. /\ ops \subseteq Operation /\ IsFiniteSet(ops)
        /\ queue \in Seq(Completion) /\ sendReports \in [Messages -> Nat]
      BY <1>1 DEF ClientInv, TypeOK, HandlersInOrder
  <2>3. \A i \in 1..Len(queue) : HasRecords(queue[i])
      BY <1>1, Zenon DEF ClientInv, HandlersInOrder, HasRecords
  <2>4. ASSUME NEW m \in Messages
        PROVE  FateOf(m, ops, queue, sendReports, SentNow, KeptNow)
    <3>1. /\ m \in SentNow <=> Sent(m)
          /\ m \in KeptNow => Sent(m) /\ machine # "Undefined"
        BY DEF SentNow, KeptNow
    <3>2. /\ sendReports[m] \in Nat /\ sendReports[m] <= 1
          /\ ~Sent(m) => Writing(m) = {} /\ Written(m) = {} /\ sendReports[m] = 0
          /\ Writing(m) # {} => Written(m) = {} /\ sendReports[m] = 0
          /\ Written(m) # {} => sendReports[m] = 0
          /\ \A a, b \in Writing(m) : a = b
          /\ \A i, j \in Written(m) : i = j
          /\ machine # "Undefined" /\ Sent(m) =>
               Writing(m) # {} \/ Written(m) # {} \/ sendReports[m] = 1
        BY <1>1, <2>2 DEF ClientInv, OneFate, SendReportedOnce, MessagesAccounted
    <3>3. /\ \A a \in ops : IsWrite(a, m) <=> a \in Writing(m)
          /\ \A i \in 1..Len(queue) : IsWrite(queue[i].op, m) <=> i \in Written(m)
          /\ Writing(m) \subseteq ops /\ Written(m) \subseteq 1..Len(queue)
        BY DEF Writing, Written
    <3> QED  BY <3>1, <3>2, <3>3 DEF FateOf
  <2> QED  BY <2>1, <2>2, <2>3, <2>4 DEF Balanced, Books
<1>2. ASSUME Control, Balanced PROVE ClientInv
  <2>1. /\ ops \subseteq Operation /\ IsFiniteSet(ops)
        /\ queue \in Seq(Completion) /\ sendReports \in [Messages -> Nat]
        /\ \A i \in 1..Len(queue) : HasRecords(queue[i])
        /\ \A m \in Messages :
             FateOf(m, ops, queue, sendReports, SentNow, KeptNow)
      BY <1>2 DEF Balanced, Books
  <2>2. TypeOK /\ CallsInOrder /\ ReportInStep
      BY <1>2, <2>1 DEF Control, TypeOK
  <2>3. HandlersInOrder
    <3>1. \A t \in Chains :
             thread[t] \in {"react", "rearm"} => event[t].chain > 0
        BY <1>2 DEF Control
    <3> QED  BY <2>1, <3>1, Zenon DEF HandlersInOrder, HasRecords
  <2>4. ASSUME NEW m \in Messages
        PROVE  /\ ~Sent(m) => /\ Writing(m) = {} /\ Written(m) = {}
                             /\ sendReports[m] = 0
               /\ Writing(m) # {} => Written(m) = {} /\ sendReports[m] = 0
               /\ Written(m) # {} => sendReports[m] = 0
               /\ \A a, b \in Writing(m) : a = b
               /\ \A i, j \in Written(m) : i = j
               /\ sendReports[m] <= 1
               /\ machine # "Undefined" /\ Sent(m) =>
                    Writing(m) # {} \/ Written(m) # {} \/ sendReports[m] = 1
    <3>1. /\ m \in SentNow <=> Sent(m)
          /\ machine # "Undefined" /\ Sent(m) => m \in KeptNow
        BY DEF SentNow, KeptNow
    <3>2. /\ \A a \in Writing(m) : a \in ops /\ IsWrite(a, m)
          /\ \A i \in Written(m) :
               i \in 1..Len(queue) /\ IsWrite(queue[i].op, m)
          /\ \A a \in ops : IsWrite(a, m) => a \in Writing(m)
          /\ \A i \in 1..Len(queue) :
               IsWrite(queue[i].op, m) => i \in Written(m)
        BY DEF Writing, Written
    <3>3. FateOf(m, ops, queue, sendReports, SentNow, KeptNow)
        BY <2>1
    <3> QED  BY <3>1, <3>2, <3>3 DEF FateOf
  <2>5. OneFate /\ SendReportedOnce /\ MessagesAccounted
      BY <2>4 DEF OneFate, SendReportedOnce, MessagesAccounted
  <2> QED  BY <2>2, <2>3, <2>5 DEF ClientInv
<1> QED  BY <1>1, <1>2

\* Steps in which no message is handed over.
LEMMA SameMessages ==
    ASSUME UNCHANGED last_msg_id, caller = "send" <=> caller' = "send",
           machine = "Undefined" <=> machine' = "Undefined"
    PROVE  SentNow' = SentNow /\ KeptNow' = KeptNow
<1>1. \A m \in Messages : Sent(m)' <=> Sent(m)
    BY DEF Sent
<1>2. SentNow' = SentNow
    BY <1>1 DEF SentNow
<1> QED  BY <1>2 DEF KeptNow

-----------------------------------------------------------------------------
(* What the io_service does to the books *)

LEMMA TransferBalance ==
    ASSUME NEW q, NEW R, NEW S, NEW K, Books(ops, q, R, S, K),
           NEW op \in Operation, op.kind \in {"header", "body"},
           StartTransfer(q, op)
    PROVE  Books(ops', queue', R, S, K)
<1>1. CASE socket.state \in {"connecting", "connected"}
    BY <1>1, OperationStarted DEF StartTransfer
<1>2. CASE socket.state \notin {"connecting", "connected"}
  <2>1. /\ Done(op, "error") \in Completion /\ HasRecords(Done(op, "error"))
        /\ Done(op, "error").op.kind # "write"
      BY DoneIsCompletion DEF Results, HasRecords
  <2>2. Books(ops, Append(q, Done(op, "error")), R, S, K)
      BY <2>1, HandlerQueued
  <2> QED  BY <1>2, <2>2 DEF StartTransfer
<1> QED  BY <1>1, <1>2

LEMMA AbortBalance ==
    ASSUME NEW q, NEW R, NEW S, NEW K, Books(ops, q, R, S, K), Abort(q)
    PROVE  Books(ops \ OnSocket(ops), queue', R, S, K)
BY OperationsAborted DEF Abort

LEMMA ConnectBalance ==
    ASSUME NEW q, NEW R, NEW S, NEW K, Books(ops, q, R, S, K),
           NEW c \in Chains, NEW n \in 1..MaxRecords,
           StartConnect(q, c, n) \/ ReopenConnect(q, c, n)
    PROVE  /\ Books(ops', queue', R, S, K)
           /\ socket' = socket
              \/ socket' = [state |-> "connecting", chain |-> c]
<1> DEFINE op == Op("connect", c, n)
<1>1. op \in Operation /\ op.kind = "connect"
    BY OpIsOperation DEF Op
<1>2. /\ Done(op, "error") \in Completion /\ HasRecords(Done(op, "error"))
      /\ Done(op, "error").op.kind # "write"
    BY <1>1, DoneIsCompletion DEF Results, HasRecords
<1> HIDE DEF op
<1>3. CASE StartConnect(q, c, n)
  <2>1. Books(ops \union {op}, q, R, S, K)
      BY <1>1, OperationStarted
  <2>2. Books(ops, Append(q, Done(op, "error")), R, S, K)
      BY <1>2, HandlerQueued
  <2> QED  BY <1>3, <2>1, <2>2 DEF StartConnect, op
<1>4. CASE ReopenConnect(q, c, n)
  <2>1. Books(ops \ OnSocket(ops), queue', R, S, K)
      BY <1>4, AbortBalance DEF ReopenConnect
  <2>2. Books((ops \ OnSocket(ops)) \union {op}, queue', R, S, K)
      BY <1>1, <2>1, OperationStarted
  <2> QED  BY <1>4, <2>2 DEF ReopenConnect, op
<1> QED  BY <1>3, <1>4

LEMMA StopBalance ==
    ASSUME Balanced, NEW now, stopIOOperations(now)
    PROVE  Books(ops', queue', sendReports, SentNow, KeptNow)
BY AbortBalance DEF Balanced, stopIOOperations

\* The threads that leave run() hold no event; nor did they before.
LEMMA StopThreads ==
    ASSUME Control, NEW now \in [Chains -> ThreadStates], stopIOOperations(now),
           \A t \in Chains : now[t] \in {"react", "rearm"} => event[t].chain > 0
    PROVE  /\ thread' \in [Chains -> ThreadStates]
           /\ \A t \in Chains :
                thread'[t] \in {"react", "rearm"} => event[t].chain > 0
           /\ stopped' \in BOOLEAN
           /\ socket' \in [state : {"closed", "open", "connecting", "connected"},
                           chain : 0..MaxRequests]
<1>1. closedSocket \in
          [state : {"closed", "open", "connecting", "connected"},
           chain : 0..MaxRequests]
    BY Constants DEF closedSocket
<1> QED  BY <1>1 DEF stopIOOperations, ThreadStates

-----------------------------------------------------------------------------
(* Calls of the user's thread, and destruction *)

LEMMA UserCallsInv ==
    ASSUME Control, Balanced, UserCalls \/ ConnectToUnparsable \/ DestroyNode
    PROVE  Control' /\ Balanced'
<1>1. Control'
  <2>1. CASE UserCalls
      BY <2>1, Constants DEF Control, CallsInOrder, ReportInStep, UserCalls,
         Destruction, threadVars, ioVars, reportVars
  <2>2. CASE ConnectToUnparsable
      BY <2>2, Constants DEF Control, CallsInOrder, ReportInStep,
         ConnectToUnparsable, Destruction, threadVars, ioVars
  <2>3. CASE DestroyNode
      BY <2>3, Constants DEF Control, CallsInOrder, ReportInStep, DestroyNode,
         Destruction, threadVars, ioVars, reportVars
  <2> QED  BY <2>1, <2>2, <2>3
<1>2. UNCHANGED <<ops, queue, sendReports, machine>>
    BY DEF UserCalls, ConnectToUnparsable, DestroyNode, ioVars, reportVars
<1>3. \A m \in Messages : Sent(m)' <=> Sent(m)
  <2>1. CASE UserCalls /\ last_msg_id' # last_msg_id
    <3>1. /\ last_msg_id' = last_msg_id + 1 /\ caller' = "send"
          /\ caller = "idle" /\ last_msg_id \in Nat
        BY <2>1, Constants DEF UserCalls, Control
    <3>2. \A m \in Messages : m \in Nat
        BY Constants DEF Messages
    <3> QED  BY <3>1, <3>2 DEF Sent
  <2>2. CASE last_msg_id' = last_msg_id
    <3>1. caller = "idle" /\ caller' # "send"
        BY <2>2 DEF UserCalls, ConnectToUnparsable, DestroyNode, Control
    <3> QED  BY <2>2, <3>1 DEF Sent
  <2> QED  BY <2>1, <2>2 DEF ConnectToUnparsable, DestroyNode
<1>4. SentNow' = SentNow /\ KeptNow' = KeptNow
  <2>1. SentNow' = SentNow
      BY <1>3 DEF SentNow
  <2> QED  BY <1>2, <2>1 DEF KeptNow
<1> QED  BY <1>1, <1>2, <1>4 DEF Balanced

\* Steps that leave operations, handlers and reports alone keep the books.
LEMMA IdleBooks ==
    ASSUME Balanced, UNCHANGED <<ops, queue, sendReports, last_msg_id>>,
           caller = "send" <=> caller' = "send",
           machine = "Undefined" <=> machine' = "Undefined"
    PROVE  Balanced'
<1>1. SentNow' = SentNow /\ KeptNow' = KeptNow
    BY SameMessages
<1> QED  BY <1>1 DEF Balanced

LEMMA ConnectRequestInv ==
    ASSUME Control, Balanced, ConnectRequest
    PROVE  Control' /\ Balanced'
<1>1. Control'
    BY Constants DEF Control, CallsInOrder, ReportInStep, ConnectRequest,
       BusyReport, Destruction, threadVars
<1>2. SentNow' = SentNow /\ KeptNow' = KeptNow
    BY SameMessages DEF ConnectRequest
<1>3. UNCHANGED <<queue, sendReports>>
      /\ (ops' = ops \/ ops' = ops \union {Op("resolve", chain + 1, 0)})
    BY DEF ConnectRequest
<1>4. Op("resolve", chain + 1, 0) \in Operation
      /\ Op("resolve", chain + 1, 0).kind # "write"
  <2>1. chain + 1 \in Chains /\ 0 \in 0..MaxRecords
      BY Constants DEF ConnectRequest, Control, CallsInOrder, Chains
  <2> QED  BY <2>1, OpIsOperation DEF Op
<1>5. Books(ops', queue, sendReports, SentNow, KeptNow)
    BY <1>3, <1>4, OperationStarted DEF Balanced
<1> QED  BY <1>1, <1>2, <1>3, <1>5 DEF Balanced

LEMMA StartThreadInv ==
    ASSUME Control, Balanced, CatchThread \/ StartThread
    PROVE  Control' /\ Balanced'
<1>1. Control'
  <2>1. CASE CatchThread
      BY <2>1, Constants DEF Control, CallsInOrder, ReportInStep, CatchThread,
         Destruction, ioVars, reportVars
  <2>2. CASE StartThread
      BY <2>2, Constants DEF Control, CallsInOrder, ReportInStep, StartThread,
         Destruction, ioVars, reportVars, ThreadStates
  <2> QED  BY <2>1, <2>2
<1>2. Balanced'
    BY IdleBooks DEF CatchThread, StartThread, Control, CallsInOrder, ioVars,
       reportVars
<1> QED  BY <1>1, <1>2

LEMMA StartThreadFailsInv ==
    ASSUME Control, Balanced, StartThreadFails
    PROVE  Control' /\ Balanced'
<1>1. stopIOOperations(thread)
    BY DEF StartThreadFails
<1>2. /\ thread' \in [Chains -> ThreadStates]
      /\ \A t \in Chains :
           thread'[t] \in {"react", "rearm"} => event[t].chain > 0
      /\ stopped' \in BOOLEAN
      /\ socket' \in [state : {"closed", "open", "connecting", "connected"},
                     chain : 0..MaxRequests]
    BY <1>1, StopThreads DEF Control
<1>3. Control'
    BY <1>2, Constants DEF Control, CallsInOrder, ReportInStep,
       StartThreadFails, Destruction
<1>4. SentNow' = SentNow /\ KeptNow' = KeptNow
    BY SameMessages DEF StartThreadFails, Control, CallsInOrder
<1>5. Balanced'
    BY <1>1, <1>4, StopBalance DEF Balanced, StartThreadFails
<1> QED  BY <1>3, <1>5

LEMMA DisconnectRequestInv ==
    ASSUME Control, Balanced, DisconnectRequest
    PROVE  Control' /\ Balanced'
<1>1. CASE machine = "Waiting"
  <2>1. Control'
      BY <1>1, Constants DEF Control, CallsInOrder, ReportInStep,
         DisconnectRequest, Destruction, ioVars
  <2>2. Balanced'
      BY <1>1, IdleBooks DEF DisconnectRequest, ioVars
  <2> QED  BY <2>1, <2>2
<1>2. CASE machine # "Waiting"
  <2>1. stopIOOperations(thread)
      BY <1>2 DEF DisconnectRequest
  <2>2. /\ thread' \in [Chains -> ThreadStates]
        /\ \A t \in Chains :
             thread'[t] \in {"react", "rearm"} => event[t].chain > 0
        /\ stopped' \in BOOLEAN
        /\ socket' \in [state : {"closed", "open", "connecting", "connected"},
                       chain : 0..MaxRequests]
      BY <2>1, StopThreads DEF Control
  <2>3. Control'
      BY <1>2, <2>2, Constants DEF Control, CallsInOrder, ReportInStep,
         DisconnectRequest, Destruction
  <2>4. SentNow' = SentNow /\ KeptNow' = KeptNow
      BY <1>2, SameMessages DEF DisconnectRequest, Control, CallsInOrder
  <2>5. Balanced'
      BY <2>1, <2>4, StopBalance DEF Balanced, DisconnectRequest
  <2> QED  BY <2>3, <2>5
<1> QED  BY <1>1, <1>2

\* The message being sent is one the machine has not taken before.
LEMMA SendMsgInv ==
    ASSUME Control, Balanced, SendMsg
    PROVE  Control' /\ Balanced'
<1> DEFINE n == last_msg_id
<1>1. Control'
    BY Constants DEF Control, CallsInOrder, ReportInStep, SendMsg, Destruction,
       threadVars
<1>2. /\ caller = "send" /\ caller' = "idle" /\ UNCHANGED <<last_msg_id, machine>>
      /\ n \in Messages
    BY Constants DEF SendMsg, Control, CallsInOrder, Messages
<1>3. n \notin SentNow /\ SentNow' = SentNow \union {n}
  <2>1. \A m \in Messages : m \in Nat
      BY Constants DEF Messages
  <2>2. \A m \in Messages : Sent(m)' <=> Sent(m) \/ m = n
      BY <1>2, <2>1 DEF Sent
  <2>3. ~Sent(n)
      BY <1>2, <2>1 DEF Sent
  <2> QED  BY <1>2, <2>2, <2>3 DEF SentNow
<1>4. KeptNow' = KeptNow \union {n}
    BY <1>2, <1>3 DEF KeptNow, Control, CallsInOrder
<1>5. Books(ops', queue', sendReports', SentNow \union {n}, KeptNow \union {n})
  <2>1. CASE machine = "Connected"
    <3> DEFINE op == Op("write", chain, n)
    <3>1. chain \in Chains
        BY <2>1, Constants DEF Control, CallsInOrder, Chains
    <3>2. op \in Operation /\ op.kind = "write" /\ op.arg = n
        BY <1>2, <3>1, OpIsOperation DEF Op
    <3> HIDE DEF op
    <3>3. Books(ops \union {op}, queue, sendReports,
                SentNow \union {op.arg}, KeptNow \union {op.arg})
        BY <1>3, <3>2, WriteStarted DEF Balanced
    <3>4. Books(ops, Append(queue, Done(op, "error")), sendReports,
                SentNow \union {op.arg}, KeptNow \union {op.arg})
        BY <1>3, <3>2, WriteRefused DEF Balanced
    <3> QED  BY <2>1, <3>2, <3>3, <3>4 DEF SendMsg, StartTransfer, op
  <2>2. CASE machine # "Connected"
    <3>1. Books(ops, queue, [sendReports EXCEPT ![n] = @ + 1],
                SentNow \union {n}, KeptNow \union {n})
        BY <1>2, <1>3, MessageRefused DEF Balanced
    <3> QED  BY <2>2, <3>1 DEF SendMsg
  <2> QED  BY <2>1, <2>2
<1> QED  BY <1>1, <1>3, <1>4, <1>5 DEF Balanced

\* Destructor steps in which nothing is stopped.
LEMMA DestructorsInv ==
    ASSUME Control, Balanced,
           \/ Terminate \/ CatchLastThread \/ CountHandlers
           \/ AwaitHandlers \/ WakesSpuriously
    PROVE  Control' /\ Balanced'
<1>1. Control'
  <2>1. CASE Terminate
      BY <2>1, Constants DEF Control, CallsInOrder, ReportInStep, Terminate,
         Destruction, threadVars, ioVars, reportVars
  <2>2. CASE CatchLastThread
      BY <2>2, Constants DEF Control, CallsInOrder, ReportInStep,
         CatchLastThread, Destruction, ioVars, reportVars
  <2>3. CASE CountHandlers
      BY <2>3, Constants DEF Control, CallsInOrder, ReportInStep, CountHandlers,
         Destruction, threadVars, ioVars, reportVars
  <2>4. CASE AwaitHandlers \/ WakesSpuriously
      BY <2>4, Constants DEF Control, CallsInOrder, ReportInStep, AwaitHandlers,
         WakesSpuriously, Destruction, threadVars, ioVars, reportVars
  <2> QED  BY <2>1, <2>2, <2>3, <2>4
<1>2. Balanced'
    BY IdleBooks DEF Terminate, CatchLastThread, CountHandlers, AwaitHandlers,
       WakesSpuriously, Control, CallsInOrder, ioVars, reportVars
<1> QED  BY <1>1, <1>2

LEMMA StopMachineInv ==
    ASSUME Control, Balanced, StopMachine
    PROVE  Control' /\ Balanced'
<1>1. stopIOOperations(thread)
    BY DEF StopMachine
<1>2. /\ thread' \in [Chains -> ThreadStates]
      /\ \A t \in Chains :
           thread'[t] \in {"react", "rearm"} => event[t].chain > 0
      /\ stopped' \in BOOLEAN
      /\ socket' \in [state : {"closed", "open", "connecting", "connected"},
                     chain : 0..MaxRequests]
    BY <1>1, StopThreads DEF Control
<1>3. Control'
    BY <1>2, Constants DEF Control, CallsInOrder, ReportInStep, StopMachine,
       Destruction, reportVars
<1>4. SentNow' = SentNow /\ KeptNow' = KeptNow
    BY SameMessages DEF StopMachine
<1>5. Balanced'
    BY <1>1, <1>4, StopBalance DEF Balanced, StopMachine, reportVars
<1> QED  BY <1>3, <1>5

\* Nothing is claimed of the messages afterwards but that none is answered
\* twice.
LEMMA UndefinedInv ==
    ASSUME Control, Balanced, BecomesUndefined
    PROVE  Control' /\ Balanced'
<1>1. Control'
    BY Constants DEF Control, CallsInOrder, ReportInStep, BecomesUndefined,
       Destruction, ThreadStates, reportVars
<1>2. SentNow \subseteq SentNow' /\ KeptNow' = {}
    BY DEF BecomesUndefined, SentNow, KeptNow, Sent
<1>3. Books({}, queue, sendReports, SentNow', {})
    BY <1>2, OperationsLost DEF Balanced
<1>4. ops' = {} /\ UNCHANGED <<queue, sendReports>>
    BY DEF BecomesUndefined, reportVars
<1> QED  BY <1>1, <1>2, <1>3, <1>4 DEF Balanced

LEMMA LeaveInv ==
    ASSUME Control, Balanced, Leave
    PROVE  Control' /\ Balanced'
<1>1. CASE BecomesUndefined
    BY <1>1, UndefinedInv
<1>2. CASE /\ caller = "leave" /\ caller' = "gone"
           /\ UNCHANGED <<machine, chain, threadVars, ioVars, reportVars,
                          last_msg_id>>
  <2>1. Control'
      BY <1>2, Constants DEF Control, CallsInOrder, ReportInStep, Destruction,
         threadVars, ioVars, reportVars
  <2>2. Balanced'
      BY <1>2, IdleBooks DEF ioVars, reportVars
  <2> QED  BY <2>1, <2>2
<1> QED  BY <1>1, <1>2 DEF Leave

-----------------------------------------------------------------------------
(* The network and the I/O threads *)

LEMMA NetworkInv ==
    ASSUME Control, Balanced, Network
    PROVE  Control' /\ Balanced'
<1>1. Control'
  <2>1. CASE ResolveCompletes
      BY <2>1, Constants DEF Control, CallsInOrder, ReportInStep,
         ResolveCompletes, threadVars, reportVars
  <2>2. CASE ConnectCompletes
    <3>1. socket' \in [state : {"closed", "open", "connecting", "connected"},
                      chain : 0..MaxRequests]
        BY <2>2 DEF Control, ConnectCompletes
    <3> QED  BY <2>2, <3>1, Constants DEF Control, CallsInOrder, ReportInStep,
                ConnectCompletes, threadVars, reportVars
  <2>3. CASE TransferCompletes
      BY <2>3, Constants DEF Control, CallsInOrder, ReportInStep,
         TransferCompletes, threadVars, reportVars
  <2> QED  BY <2>1, <2>2, <2>3 DEF Network
<1>2. UNCHANGED <<machine, caller, last_msg_id, sendReports>>
    BY DEF Network, ResolveCompletes, ConnectCompletes, TransferCompletes,
       reportVars
<1>3. SentNow' = SentNow /\ KeptNow' = KeptNow
    BY <1>2, SameMessages
<1>4. \E op \in ops : \E d \in Completion :
         /\ d.op = op \/ (op.kind # "write" /\ d.op.kind # "write")
         /\ HasRecords(d)
         /\ ops' = ops \ {op} /\ queue' = Append(queue, d)
  <2>1. ops \subseteq Operation
      BY DEF Balanced, Books
  <2>2. CASE ResolveCompletes
    <3>1. PICK op \in ops, n \in 0..MaxRecords :
             /\ op.kind = "resolve"
             /\ ops' = ops \ {op}
             /\ queue' = Append(queue,
                    IF n = 0 THEN Done(op, "error")
                             ELSE Done([op EXCEPT !.arg = n], "ok"))
        BY <2>2 DEF ResolveCompletes
    <3>2. /\ [op EXCEPT !.arg = n] \in Operation
          /\ [op EXCEPT !.arg = n].kind = "resolve"
          /\ [op EXCEPT !.arg = n].arg = n
        BY <2>1, <3>1 DEF Operation
    <3>3. /\ Done(op, "error") \in Completion /\ Done(op, "error").op = op
          /\ HasRecords(Done(op, "error"))
      <4>1. op \in Operation
          BY <2>1, <3>1
      <4> QED  BY <4>1, DoneIsCompletion DEF Results, HasRecords
    <3>4. /\ Done([op EXCEPT !.arg = n], "ok") \in Completion
          /\ Done([op EXCEPT !.arg = n], "ok").op = [op EXCEPT !.arg = n]
        BY <3>2, DoneIsCompletion DEF Results
    <3>5. n # 0 => HasRecords(Done([op EXCEPT !.arg = n], "ok"))
      <4>1. n # 0 => n > 0
          BY Constants
      <4>2. Done([op EXCEPT !.arg = n], "ok").op.arg = n
          BY <3>2, <3>4
      <4> QED  BY <4>1, <4>2, Zenon DEF HasRecords
    <3>6. CASE n = 0
        BY <3>1, <3>3, <3>6
    <3>7. CASE n # 0
        BY <3>1, <3>2, <3>4, <3>5, <3>7
    <3> QED  BY <3>6, <3>7
  <2>3. ASSUME NEW op \in ops, NEW r \in {"ok", "error"},
               op.kind # "resolve",
               ops' = ops \ {op}, queue' = Append(queue, Done(op, r))
        PROVE  \E d \in Completion :
                 /\ d.op = op \/ (op.kind # "write" /\ d.op.kind # "write")
                 /\ HasRecords(d)
                 /\ ops' = ops \ {op} /\ queue' = Append(queue, d)
    <3>1. Done(op, r) \in Completion /\ Done(op, r).op = op
          /\ HasRecords(Done(op, r))
        BY <2>1, <2>3, DoneIsCompletion DEF Results, HasRecords
    <3> QED  BY <2>3, <3>1
  <2>4. CASE ConnectCompletes
    <3>1. PICK op \in ops, r \in {"ok", "error"} :
             /\ op.kind = "connect"
             /\ ops' = ops \ {op} /\ queue' = Append(queue, Done(op, r))
        BY <2>4 DEF ConnectCompletes
    <3> QED  BY <2>3, <3>1
  <2>5. CASE TransferCompletes
    <3>1. PICK op \in ops, r \in {"ok", "error"} :
             /\ op.kind \in {"header", "body", "write"}
             /\ ops' = ops \ {op} /\ queue' = Append(queue, Done(op, r))
        BY <2>5 DEF TransferCompletes
    <3> QED  BY <2>3, <3>1
  <2> QED  BY <2>2, <2>4, <2>5 DEF Network
<1>5. Books(ops', queue', sendReports, SentNow, KeptNow)
    BY <1>4, OperationDone DEF Balanced
<1> QED  BY <1>1, <1>2, <1>3, <1>5 DEF Balanced

\* What the taken handler knows.
LEMMA TakenHandler ==
    ASSUME Control, Balanced, NEW t \in Chains, NEW k, Takes(t, k)
    PROVE  /\ queue # <<>> /\ Head(queue) \in Completion
           /\ Head(queue).op \in Operation /\ Head(queue).op.kind = k
           /\ Head(queue).result \in Results
           /\ Head(queue).op.chain \in Chains
           /\ HasRecords(Head(queue))
<1>1. queue \in Seq(Completion) /\ queue # <<>>
      /\ \A i \in 1..Len(queue) : HasRecords(queue[i])
    BY DEF Balanced, Books, Takes
<1>2. /\ 1 \in 1..Len(queue) /\ Head(queue) = queue[1]
      /\ Head(queue) \in Completion
    BY <1>1, TailOfQueue
<1>3. Head(queue).op \in Operation /\ Head(queue).result \in Results
    BY <1>2 DEF Completion
<1> QED  BY <1>1, <1>2, <1>3, OperationFields DEF Takes

\* The handler of an operation that is not a write leaves the queue.
LEMMA TakenBalance ==
    ASSUME Balanced, NEW t \in Chains, NEW k, k # "write", Takes(t, k)
    PROVE  Books(ops, Tail(queue), sendReports, SentNow, KeptNow)
BY HeadDropped DEF Balanced, Takes

\* A handler that goes on with an event or returns.
LEMMA HandlerControl ==
    ASSUME Control, NEW t \in Chains, NEW k, Takes(t, k),
           \/ NoMore(t)
           \/ \E e \in Events : \E c \in Chains : Raise(t, e, c),
           socket' \in [state : {"closed", "open", "connecting", "connected"},
                       chain : 0..MaxRequests]
    PROVE  Control'
<1>1. /\ thread' \in [Chains -> ThreadStates]
      /\ event' \in [Chains -> [kind : Events, chain : 0..MaxRequests]]
      /\ \A u \in Chains :
           thread'[u] \in {"react", "rearm"} => event'[u].chain > 0
  <2>1. CASE NoMore(t)
      BY <2>1 DEF NoMore, Control, ThreadStates
  <2>2. CASE \E e \in Events : \E c \in Chains : Raise(t, e, c)
    <3>1. PICK e \in Events, c \in Chains : Raise(t, e, c)
        BY <2>2
    <3>2. /\ c \in 0..MaxRequests /\ c > 0
          /\ [kind |-> e, chain |-> c] \in [kind : Events, chain : 0..MaxRequests]
        BY Constants DEF Chains
    <3> QED  BY <3>1, <3>2 DEF Raise, Control, ThreadStates
  <2> QED  BY <2>1, <2>2
<1> QED  BY <1>1, Constants DEF Control, CallsInOrder, ReportInStep, Takes

LEMMA ResolveHandlerInv ==
    ASSUME Control, Balanced, NEW t \in Chains, ResolveHandler(t)
    PROVE  Control' /\ Balanced'
<1> DEFINE h == Head(queue)
<1>1. Takes(t, "resolve") /\ UNCHANGED sendReports
    BY DEF ResolveHandler
<1>2. /\ h.op \in Operation /\ h.op.kind = "resolve" /\ h.op.chain \in Chains
      /\ HasRecords(h)
    BY <1>1, TakenHandler
<1>3. Books(ops, Tail(queue), sendReports, SentNow, KeptNow)
    BY <1>1, TakenBalance
<1>4. SentNow' = SentNow /\ KeptNow' = KeptNow
    BY <1>1, SameMessages DEF Takes
<1>5. CASE h.result = "ok"
  <2>1. h.op.arg \in 1..MaxRecords
    <3>1. h.op.arg \in 0..MaxRecords /\ h.op.arg > 0
        BY <1>2, <1>5, OperationFields DEF HasRecords
    <3> QED  BY <3>1, Constants
  <2>2. StartConnect(Tail(queue), h.op.chain, h.op.arg) /\ NoMore(t)
      BY <1>5 DEF ResolveHandler
  <2>3. /\ Books(ops', queue', sendReports, SentNow, KeptNow)
        /\ \/ socket' = socket
           \/ socket' = [state |-> "connecting", chain |-> h.op.chain]
      BY <1>2, <1>3, <2>1, <2>2, ConnectBalance
  <2>4. socket' \in [state : {"closed", "open", "connecting", "connected"},
                    chain : 0..MaxRequests]
      BY <1>2, <2>3, Constants DEF Control, Chains
  <2>5. Control'
      BY <1>1, <2>2, <2>4, HandlerControl
  <2> QED  BY <1>1, <1>4, <2>3, <2>5 DEF Balanced
<1>6. CASE h.result # "ok"
  <2>1. /\ queue' = Tail(queue) /\ UNCHANGED <<ops, socket>>
        /\ Raise(t, "connect_failed", h.op.chain)
      BY <1>6 DEF ResolveHandler
  <2>2. Control'
      BY <1>1, <1>2, <2>1, HandlerControl DEF Control, Events
  <2> QED  BY <1>1, <1>3, <1>4, <2>1, <2>2 DEF Balanced
<1> QED  BY <1>5, <1>6

LEMMA ConnectHandlerInv ==
    ASSUME Control, Balanced, NEW t \in Chains, ConnectHandler(t)
    PROVE  Control' /\ Balanced'
<1> DEFINE h == Head(queue)
           c == h.op.chain
<1>1. Takes(t, "connect") /\ UNCHANGED sendReports
    BY DEF ConnectHandler
<1>2. /\ h.op \in Operation /\ h.op.kind = "connect" /\ c \in Chains
      /\ h.op.arg \in 1..MaxRecords
    BY <1>1, TakenHandler, OperationFields
<1>3. Books(ops, Tail(queue), sendReports, SentNow, KeptNow)
    BY <1>1, TakenBalance
<1>4. SentNow' = SentNow /\ KeptNow' = KeptNow
    BY <1>1, SameMessages DEF Takes
<1>5. CASE /\ StartTransfer(Tail(queue), Op("header", c, 0))
           /\ Raise(t, "connected", c)
           /\ UNCHANGED socket
  <2>1. /\ Op("header", c, 0) \in Operation
        /\ Op("header", c, 0).kind \in {"header", "body"}
      BY <1>2, OpIsOperation DEF Op
  <2>2. Books(ops', queue', sendReports, SentNow, KeptNow)
      BY <1>3, <1>5, <2>1, TransferBalance
  <2>3. Control'
      BY <1>1, <1>2, <1>5, HandlerControl DEF Control, Events
  <2> QED  BY <1>1, <1>4, <2>2, <2>3 DEF Balanced
<1>6. CASE /\ MoreRecords(h.op)
           /\ ReopenConnect(Tail(queue), c, h.op.arg - 1)
           /\ NoMore(t)
  <2>1. h.op.arg - 1 \in 1..MaxRecords
      BY <1>2, <1>6, Constants DEF MoreRecords
  <2>2. Books(ops', queue', sendReports, SentNow, KeptNow)
      BY <1>2, <1>3, <1>6, <2>1, ConnectBalance
  <2>3. socket' \in [state : {"closed", "open", "connecting", "connected"},
                    chain : 0..MaxRequests]
      BY <1>2, <1>6, Constants DEF ReopenConnect, Chains
  <2>4. Control'
      BY <1>1, <1>6, <2>3, HandlerControl
  <2> QED  BY <1>1, <1>4, <2>2, <2>4 DEF Balanced
<1>7. CASE /\ queue' = Tail(queue)
           /\ NoMore(t) \/ Raise(t, "connect_failed", c)
           /\ UNCHANGED <<ops, socket>>
  <2>1. Control'
      BY <1>1, <1>2, <1>7, HandlerControl DEF Control, Events
  <2> QED  BY <1>1, <1>3, <1>4, <1>7, <2>1 DEF Balanced
<1> QED  BY <1>5, <1>6, <1>7 DEF ConnectHandler

LEMMA ReceiveHandlerInv ==
    ASSUME Control, Balanced, NEW t \in Chains,
           HeaderHandler(t) \/ BodyHandler(t)
    PROVE  Control' /\ Balanced'
<1> DEFINE h == Head(queue)
           c == h.op.chain
<1>1. PICK k \in {"header", "body"} : Takes(t, k)
    BY DEF HeaderHandler, BodyHandler
<1>2. c \in Chains /\ UNCHANGED <<socket, sendReports>>
    BY <1>1, TakenHandler DEF HeaderHandler, BodyHandler
<1>3. Books(ops, Tail(queue), sendReports, SentNow, KeptNow)
    BY <1>1, TakenBalance
<1>4. SentNow' = SentNow /\ KeptNow' = KeptNow
    BY <1>1, SameMessages DEF Takes
<1>5. CASE StartTransfer(Tail(queue), Op("body", c, 1)) /\ NoMore(t)
  <2>1. /\ Op("body", c, 1) \in Operation
        /\ Op("body", c, 1).kind \in {"header", "body"}
      BY <1>2, OpIsOperation DEF Op
  <2>2. Books(ops', queue', sendReports, SentNow, KeptNow)
      BY <1>3, <1>5, <2>1, TransferBalance
  <2>3. Control'
      BY <1>1, <1>2, <1>5, HandlerControl DEF Control
  <2> QED  BY <1>2, <1>4, <2>2, <2>3 DEF Balanced
<1>6. CASE /\ queue' = Tail(queue) /\ UNCHANGED ops
           /\ \/ NoMore(t)
              \/ \E e \in {"disconnected", "message", "empty"} : Raise(t, e, c)
  <2>1. Control'
      BY <1>1, <1>2, <1>6, HandlerControl DEF Control, Events
  <2> QED  BY <1>2, <1>3, <1>4, <1>6, <2>1 DEF Balanced
<1>7. CASE /\ queue' = Append(Tail(queue), Done(Op("body", c, 0), "ok"))
           /\ UNCHANGED ops /\ NoMore(t)
  <2> DEFINE op == Op("body", c, 0)
  <2>1. op \in Operation /\ op.kind = "body"
      BY <1>2, OpIsOperation DEF Op
  <2>2. queue' = Append(Tail(queue), Done(op, "ok"))
      BY <1>7
  <2> HIDE DEF op
  <2>3. /\ Done(op, "ok") \in Completion /\ HasRecords(Done(op, "ok"))
        /\ Done(op, "ok").op.kind # "write"
      BY <2>1, DoneIsCompletion DEF Results, HasRecords
  <2>4. Books(ops, queue', sendReports, SentNow, KeptNow)
      BY <1>3, <2>2, <2>3, HandlerQueued
  <2>5. Control'
      BY <1>1, <1>2, <1>7, HandlerControl DEF Control
  <2> QED  BY <1>2, <1>4, <1>7, <2>4, <2>5 DEF Balanced
<1>8. CASE HeaderHandler(t)
    BY <1>5, <1>6, <1>7, <1>8 DEF HeaderHandler
<1>9. CASE BodyHandler(t)
    BY <1>6, <1>9 DEF BodyHandler
<1> QED  BY <1>8, <1>9

LEMMA WriteHandlerInv ==
    ASSUME Control, Balanced, NEW t \in Chains, WriteHandler(t)
    PROVE  Control' /\ Balanced'
<1> DEFINE h == Head(queue)
<1>1. /\ Takes(t, "write") /\ queue' = Tail(queue) /\ UNCHANGED <<ops, socket>>
      /\ sendReports' = [sendReports EXCEPT ![h.op.arg] = @ + 1]
      /\ NoMore(t) \/ Raise(t, "disconnected", h.op.chain)
    BY DEF WriteHandler
<1>2. queue # <<>> /\ h.op.kind = "write" /\ h.op.chain \in Chains
    BY <1>1, TakenHandler
<1>3. Books(ops, Tail(queue), [sendReports EXCEPT ![h.op.arg] = @ + 1],
            SentNow, KeptNow)
    BY <1>2, HeadReported DEF Balanced
<1>4. SentNow' = SentNow /\ KeptNow' = KeptNow
    BY <1>1, SameMessages DEF Takes
<1>5. Control'
    BY <1>1, <1>2, HandlerControl DEF Control, Events
<1> QED  BY <1>1, <1>3, <1>4, <1>5 DEF Balanced

LEMMA ReactInv ==
    ASSUME Control, Balanced, NEW t \in Chains, React(t)
    PROVE  Control' /\ Balanced'
<1> DEFINE now == [thread EXCEPT ![t] =
                     IF event[t].kind \in {"message", "empty"} THEN "rearm"
                                                              ELSE "return"]
<1>1. /\ thread[t] = "react" /\ caller = "idle"
      /\ machine' = Reaction(event[t].kind)
      /\ UNCHANGED <<chain, caller, io_thread, event, sendReports, last_msg_id>>
    BY DEF React
<1>2. /\ machine \in {"Waiting", "Negotiating", "Connected"}
      /\ machine' \in {"Waiting", "Negotiating", "Connected"}
      /\ machine' # machine => machine \in {"Negotiating", "Connected"}
                             /\ machine' \in {"Waiting", "Connected"}
    BY <1>1 DEF Control, CallsInOrder, Reaction, Destruction
<1>3. /\ now \in [Chains -> ThreadStates]
      /\ \A u \in Chains : now[u] \in {"react", "rearm"} => event[u].chain > 0
    BY <1>1 DEF Control, ThreadStates
<1>4. SentNow' = SentNow /\ KeptNow' = KeptNow
    BY <1>1, <1>2, SameMessages
<1>5. CASE machine' = "Waiting" /\ machine # "Waiting"
  <2>1. reported' = "DISCONNECTED" /\ stopIOOperations(now)
      BY <1>5 DEF React
  <2>2. /\ thread' \in [Chains -> ThreadStates]
        /\ \A u \in Chains :
             thread'[u] \in {"react", "rearm"} => event[u].chain > 0
        /\ stopped' \in BOOLEAN
        /\ socket' \in [state : {"closed", "open", "connecting", "connected"},
                        chain : 0..MaxRequests]
    <3> HIDE DEF now
    <3> QED  BY <1>3, <2>1, StopThreads
  <2>3. Control'
      BY <1>1, <1>5, <2>1, <2>2, Constants DEF Control, CallsInOrder,
         ReportInStep, Destruction
  <2>4. Books(ops', queue', sendReports, SentNow, KeptNow)
      BY <2>1, StopBalance
  <2> QED  BY <1>1, <1>4, <2>3, <2>4 DEF Balanced
<1>6. CASE ~(machine' = "Waiting" /\ machine # "Waiting")
  <2>1. /\ reported' = IF machine' = machine THEN reported ELSE "CONNECTED"
        /\ thread' = now /\ UNCHANGED ioVars
      BY <1>6 DEF React
  <2>2. /\ thread' \in [Chains -> ThreadStates]
        /\ \A u \in Chains :
             thread'[u] \in {"react", "rearm"} => event[u].chain > 0
      BY <1>3, <2>1
  <2> HIDE DEF now
  <2>3. Control'
      BY <1>1, <1>2, <1>6, <2>1, <2>2, Constants DEF Control, CallsInOrder,
         ReportInStep, Destruction, ioVars
  <2> QED  BY <1>1, <1>4, <2>1, <2>3 DEF Balanced, ioVars
<1> QED  BY <1>5, <1>6

LEMMA RearmInv ==
    ASSUME Control, Balanced, NEW t \in Chains, Rearm(t)
    PROVE  Control' /\ Balanced'
<1> DEFINE op == Op("header", event[t].chain, 0)
<1>1. event[t].chain \in Chains
    BY Constants DEF Rearm, Control, Chains
<1>2. op \in Operation /\ op.kind \in {"header", "body"}
    BY <1>1, OpIsOperation DEF Op
<1>3. StartTransfer(queue, op)
    BY DEF Rearm
<1> HIDE DEF op
<1>4. Books(ops', queue', sendReports, SentNow, KeptNow)
    BY <1>2, <1>3, TransferBalance DEF Balanced
<1>5. SentNow' = SentNow /\ KeptNow' = KeptNow
    BY SameMessages DEF Rearm
<1>6. Control'
    BY Constants DEF Control, CallsInOrder, ReportInStep, Rearm, reportVars,
       ThreadStates
<1> QED  BY <1>4, <1>5, <1>6 DEF Balanced, Rearm, reportVars

\* Steps of a thread in and out of run().
LEMMA ThreadInv ==
    ASSUME Control, Balanced, NEW t \in Chains,
           RunStarts(t) \/ RunReturns(t) \/ HandlerReturns(t)
    PROVE  Control' /\ Balanced'
<1>1. Control'
  <2>1. CASE RunStarts(t)
    <3>1. /\ thread' \in [Chains -> ThreadStates] /\ stopped' \in BOOLEAN
          /\ \A u \in Chains :
               thread'[u] \in {"react", "rearm"} => event[u].chain > 0
      <4>1. \E s \in {"finished", "loop"} : thread' = [thread EXCEPT ![t] = s]
          BY <2>1 DEF RunStarts
      <4>2. stopped' = TRUE \/ stopped' = stopped
          BY <2>1 DEF RunStarts
      <4> QED  BY <4>1, <4>2 DEF Control, ThreadStates
    <3>2. UNCHANGED <<machine, chain, caller, io_thread, event, socket, reported,
                      last_msg_id>>
        BY <2>1 DEF RunStarts, reportVars
    <3> QED  BY <3>1, <3>2, Constants DEF Control, CallsInOrder, ReportInStep
  <2>2. CASE RunReturns(t)
      BY <2>2, Constants DEF Control, CallsInOrder, ReportInStep, RunReturns,
         ioVars, reportVars, ThreadStates
  <2>3. CASE HandlerReturns(t)
    <3>1. noEvent \in [kind : Events, chain : 0..MaxRequests]
        BY Constants DEF noEvent, Events
    <3>2. /\ event' \in [Chains -> [kind : Events, chain : 0..MaxRequests]]
          /\ thread' \in [Chains -> ThreadStates]
          /\ \A u \in Chains :
               thread'[u] \in {"react", "rearm"} => event'[u].chain > 0
        BY <2>3, <3>1 DEF HandlerReturns, Control, ThreadStates
    <3>3. /\ stopped' \in BOOLEAN
          /\ caller' = caller \/ (caller = "wait" /\ caller' = "leave")
          /\ UNCHANGED <<machine, chain, io_thread, socket, reported,
                         last_msg_id>>
        BY <2>3 DEF HandlerReturns, Control, reportVars
    <3> QED  BY <3>2, <3>3, Constants DEF Control, CallsInOrder, ReportInStep,
                Destruction
  <2> QED  BY <2>1, <2>2, <2>3
<1>2. Balanced'
    BY IdleBooks DEF RunStarts, RunReturns, HandlerReturns, ioVars, reportVars
<1> QED  BY <1>1, <1>2

LEMMA IoThreadInv ==
    ASSUME Control, Balanced, NEW t \in Chains, IoThread(t)
    PROVE  Control' /\ Balanced'
<1>1. CASE ResolveHandler(t)
    BY <1>1, ResolveHandlerInv
<1>2. CASE ConnectHandler(t)
    BY <1>2, ConnectHandlerInv
<1>3. CASE HeaderHandler(t) \/ BodyHandler(t)
    BY <1>3, ReceiveHandlerInv
<1>4. CASE WriteHandler(t)
    BY <1>4, WriteHandlerInv
<1>5. CASE React(t)
    BY <1>5, ReactInv
<1>6. CASE EmptyMessage(t) \/ Race(t) \/ ReportsTooLate(t)
  <2>1. BecomesUndefined
      BY <1>6 DEF EmptyMessage, Race, ReportsTooLate
  <2> QED  BY <2>1, UndefinedInv
<1>7. CASE Rearm(t)
    BY <1>7, RearmInv
<1>8. CASE RunStarts(t) \/ RunReturns(t) \/ HandlerReturns(t)
    BY <1>8, ThreadInv
<1> QED  BY <1>1, <1>2, <1>3, <1>4, <1>5, <1>6, <1>7, <1>8 DEF IoThread

-----------------------------------------------------------------------------
(* The theorems *)

LEMMA InitInv == Init => ClientInv
<1> SUFFICES ASSUME Init PROVE ClientInv
    OBVIOUS
<1>1. /\ noEvent \in [kind : Events, chain : 0..MaxRequests]
      /\ closedSocket \in [state : {"closed", "open", "connecting", "connected"},
                           chain : 0..MaxRequests]
    BY Constants DEF noEvent, closedSocket, Events
<1>2. Control
  <2>1. /\ thread \in [Chains -> ThreadStates]
        /\ \A t \in Chains : thread[t] = "none"
      BY DEF Init, ThreadStates
  <2>2. event \in [Chains -> [kind : Events, chain : 0..MaxRequests]]
      BY <1>1 DEF Init
  <2>3. socket \in [state : {"closed", "open", "connecting", "connected"},
                   chain : 0..MaxRequests]
      BY <1>1 DEF Init
  <2>4. /\ machine = "Waiting" /\ chain = 0 /\ caller = "idle" /\ io_thread = 0
        /\ stopped = FALSE /\ reported = "DISCONNECTED" /\ last_msg_id = 0
      BY DEF Init
  <2>5. CallsInOrder /\ ReportInStep
      BY <2>4 DEF CallsInOrder, ReportInStep, Destruction
  <2>6. 0 \in 0..MaxRequests /\ 0 \in 0..MaxMessages
      BY Constants
  <2>7. \A t \in Chains : thread[t] \in {"react", "rearm"} => event[t].chain > 0
      BY <2>1
  <2> QED  BY <2>1, <2>2, <2>3, <2>4, <2>5, <2>6, <2>7, Zenon DEF Control
<1>3. Balanced
  <2>1. /\ ops = {} /\ queue = <<>> /\ last_msg_id = 0 /\ caller = "idle"
        /\ sendReports = [m \in Messages |-> 0]
      BY DEF Init
  <2>2. SentNow = {} /\ KeptNow = {}
    <3>1. \A m \in Messages : ~Sent(m)
        BY <2>1, Constants DEF Sent, Messages
    <3> QED  BY <3>1 DEF SentNow, KeptNow
  <2>3. \A m \in Messages : FateOf(m, {}, <<>>, sendReports, {}, {})
      BY <2>1 DEF FateOf
  <2>4. {} \subseteq Operation /\ IsFiniteSet({}) /\ <<>> \in Seq(Completion)
        /\ \A i \in 1..Len(<<>>) : HasRecords(<<>>[i])
      BY FS_EmptySet, EmptySeq
  <2> QED  BY <2>1, <2>2, <2>3, <2>4 DEF Balanced, Books
<1> QED  BY <1>2, <1>3, InvIsBalance

LEMMA NextInv == ClientInv /\ [Next]_vars => ClientInv'
<1> SUFFICES ASSUME ClientInv, [Next]_vars PROVE ClientInv'
    OBVIOUS
<1>1. Control /\ Balanced
    BY InvIsBalance
<1>2. ASSUME Control', Balanced' PROVE ClientInv'
  <2>1. (Control /\ Balanced => ClientInv)'
      BY InvIsBalance, PTL
  <2> QED  BY <1>2, <2>1
<1>3. CASE User
  <2>1. CASE ConnectToUnparsable \/ UserCalls
      BY <1>1, <1>2, <2>1, UserCallsInv
  <2>2. CASE ConnectRequest
      BY <1>1, <1>2, <2>2, ConnectRequestInv
  <2>3. CASE CatchThread \/ StartThread
      BY <1>1, <1>2, <2>3, StartThreadInv
  <2>4. CASE StartThreadFails
      BY <1>1, <1>2, <2>4, StartThreadFailsInv
  <2>5. CASE SendMsg
      BY <1>1, <1>2, <2>5, SendMsgInv
  <2>6. CASE DisconnectRequest
      BY <1>1, <1>2, <2>6, DisconnectRequestInv
  <2> QED  BY <1>3, <2>1, <2>2, <2>3, <2>4, <2>5, <2>6 DEF User
<1>4. CASE DestroyNode
    BY <1>1, <1>2, <1>4, UserCallsInv
<1>5. CASE Destructors
  <2>1. CASE StopMachine
      BY <1>1, <1>2, <2>1, StopMachineInv
  <2>2. CASE Leave
      BY <1>1, <1>2, <2>2, LeaveInv
  <2>3. CASE \/ Terminate \/ CatchLastThread \/ CountHandlers
             \/ AwaitHandlers \/ WakesSpuriously
      BY <1>1, <1>2, <2>3, DestructorsInv
  <2> QED  BY <1>5, <2>1, <2>2, <2>3 DEF Destructors
<1>6. CASE Network
    BY <1>1, <1>2, <1>6, NetworkInv
<1>7. CASE \E t \in Chains : IoThread(t)
    BY <1>1, <1>2, <1>7, IoThreadInv
<1>8. CASE UNCHANGED vars
  <2>1. Balanced'
      BY <1>1, <1>8, IdleBooks DEF vars, ioVars, reportVars
  <2>2. Control'
      BY <1>1, <1>8 DEF vars, threadVars, ioVars, reportVars, Control,
         CallsInOrder, ReportInStep
  <2> QED  BY <1>2, <2>1, <2>2
<1> QED  BY <1>3, <1>4, <1>5, <1>6, <1>7, <1>8 DEF Next, Over

(* What the calls, handlers and threads of the client maintain, over any   *)
(* number of connections, messages and records.                            *)
THEOREM InvAlways == Spec => []ClientInv
BY InitInv, NextInv, PTL DEF Spec

(* Every variable of the client keeps its type: no handler counts below    *)
(* the first record, no event loses the attempt it belongs to.             *)
THEOREM TypeCorrect == Spec => []TypeOK
<1>1. ClientInv => TypeOK
    BY DEF ClientInv
<1> QED  BY <1>1, InvAlways, PTL

(* sendUserMessage is never answered twice, whether its write ends, fails, *)
(* is aborted by a disconnection or never starts.                          *)
THEOREM ReportedOnce == Spec => []SendReportedOnce
<1>1. ClientInv => SendReportedOnce
    BY DEF ClientInv
<1> QED  BY <1>1, InvAlways, PTL

(* No message the machine took is lost: until it is reported its write is  *)
(* in progress or its handler is queued.                                   *)
THEOREM NoMessageLost == Spec => []MessagesAccounted
<1>1. ClientInv => MessagesAccounted
    BY DEF ClientInv
<1> QED  BY <1>1, InvAlways, PTL

(* The last ConnectionStatusReport says whether the machine is connected,  *)
(* for a user that passes only strings that parse: connectTo reports the   *)
(* others as disconnections whatever the machine is doing.                 *)
THEOREM ReportsCurrent ==
    ASSUME ~BadDestinations
    PROVE  Spec => []ReportIsCurrent
<1>1. ClientInv => ReportIsCurrent
    BY DEF ClientInv, ReportInStep, CallsInOrder, Destruction, ReportIsCurrent,
       Settled
<1> QED  BY <1>1, InvAlways, PTL

-----------------------------------------------------------------------------
(* The first connection.                                                   *)
(*                                                                         *)
(* Again first the lemmas about operations O and a queue Q.                *)

Found(kinds, O, Q) ==
    \/ \E op \in O : op.kind \in kinds
    \/ \E i \in 1..Len(Q) : Q[i].op.kind \in kinds

Alone(O, Q) ==
    Found(Attempts, O, Q) =>
        /\ \A a, b \in O : a = b
        /\ Len(Q) <= 1
        /\ O # {} => Q = <<>>

Unaborted(Q) ==
    \A i \in 1..Len(Q) : Q[i].op.kind \in Reads => Q[i].result # "aborted"

\* Behind a handler there is no attempt.
LEMMA NoAttemptBehind ==
    ASSUME NEW O, NEW Q \in Seq(Completion), Q # <<>>, Alone(O, Q)
    PROVE  /\ ~Found(Attempts, O, Tail(Q))
           /\ Head(Q).op.kind \in Attempts => O = {} /\ Tail(Q) = <<>>
<1>1. /\ Len(Q) \in Nat /\ 1 \in 1..Len(Q) /\ Head(Q) = Q[1]
      /\ Tail(Q) \in Seq(Completion) /\ Len(Tail(Q)) = Len(Q) - 1
      /\ \A i \in 1..Len(Tail(Q)) : i + 1 \in 1..Len(Q) /\ Tail(Q)[i] = Q[i + 1]
    BY TailOfQueue
<1>2. ASSUME Found(Attempts, O, Q)
      PROVE  O = {} /\ Tail(Q) = <<>> /\ Len(Tail(Q)) = 0
  <2>1. O = {} /\ Len(Q) <= 1
      BY <1>2 DEF Alone
  <2>2. Len(Q) = 1
      BY <1>1, <2>1
  <2>3. Len(Tail(Q)) = 0
      BY <1>1, <2>2
  <2> QED  BY <1>1, <2>1, <2>3, EmptySeq
<1>3. Found(Attempts, O, Tail(Q)) => Found(Attempts, O, Q)
    BY <1>1 DEF Found
<1>4. ASSUME Found(Attempts, O, Tail(Q)) PROVE FALSE
  <2>1. O = {} /\ Len(Tail(Q)) = 0
      BY <1>2, <1>3, <1>4
  <2>2. 1..0 = {}
      OBVIOUS
  <2> QED  BY <1>4, <2>1, <2>2, Zenon DEF Found
<1>5. Head(Q).op.kind \in Attempts => Found(Attempts, O, Q)
    BY <1>1 DEF Found
<1> QED  BY <1>2, <1>4, <1>5

LEMMA UnabortedTail ==
    ASSUME NEW Q \in Seq(Completion), Q # <<>>, Unaborted(Q)
    PROVE  Unaborted(Tail(Q))
<1>1. \A i \in 1..Len(Tail(Q)) : i + 1 \in 1..Len(Q) /\ Tail(Q)[i] = Q[i + 1]
    BY TailOfQueue
<1> QED  BY <1>1, Zenon DEF Unaborted

\* Reads remain when something else is taken.
LEMMA ReadsBehind ==
    ASSUME NEW O, NEW Q \in Seq(Completion), Q # <<>>, Found(Reads, O, Q),
           Head(Q).op.kind \notin Reads
    PROVE  Found(Reads, O, Tail(Q))
<1>1. CASE \E op \in O : op.kind \in Reads
    BY <1>1 DEF Found
<1>2. CASE \E i \in 1..Len(Q) : Q[i].op.kind \in Reads
  <2>1. PICK i \in 1..Len(Q) : Q[i].op.kind \in Reads
      BY <1>2
  <2>2. i # 1
      BY <2>1, TailOfQueue
  <2>3. i - 1 \in 1..Len(Tail(Q)) /\ Tail(Q)[i - 1] = Q[i]
      BY <2>2, TailOfQueue
  <2> QED  BY <2>1, <2>3, Zenon DEF Found
<1> QED  BY <1>1, <1>2 DEF Found

\* An operation completes: what was alone stays alone.
LEMMA DoneStaysAlone ==
    ASSUME NEW O, NEW Q \in Seq(Completion), Alone(O, Q), NEW op \in O,
           NEW d \in Completion, d.op.kind = op.kind, d.result # "aborted"
    PROVE  /\ Alone(O \ {op}, Append(Q, d))
           /\ \A kinds : Found(kinds, O, Q) <=> Found(kinds, O \ {op}, Append(Q, d))
           /\ Unaborted(Q) => Unaborted(Append(Q, d))
<1> DEFINE Q2 == Append(Q, d)
<1>1. /\ Q2 \in Seq(Completion) /\ Len(Q) \in Nat /\ Len(Q2) = Len(Q) + 1
      /\ \A i \in 1..Len(Q) : Q2[i] = Q[i]
      /\ Q2[Len(Q) + 1] = d
    BY AppendToQueue
<1> HIDE DEF Q2
<1>2. /\ \A i \in 1..Len(Q) : i \in 1..Len(Q2)
      /\ Len(Q) + 1 \in 1..Len(Q2)
      /\ \A i \in 1..Len(Q2) : i \in 1..Len(Q) \/ i = Len(Q) + 1
    BY <1>1
<1>3. ASSUME NEW kinds
      PROVE  Found(kinds, O, Q) <=> Found(kinds, O \ {op}, Q2)
  <2>1. ASSUME Found(kinds, O, Q) PROVE Found(kinds, O \ {op}, Q2)
    <3>1. CASE \E a \in O \ {op} : a.kind \in kinds
        BY <3>1 DEF Found
    <3>2. CASE op.kind \in kinds
        BY <1>1, <1>2, <3>2 DEF Found
    <3>3. CASE \E i \in 1..Len(Q) : Q[i].op.kind \in kinds
        BY <1>1, <1>2, <3>3 DEF Found
    <3> QED  BY <2>1, <3>1, <3>2, <3>3 DEF Found
  <2>2. ASSUME Found(kinds, O \ {op}, Q2) PROVE Found(kinds, O, Q)
    <3>1. CASE \E a \in O \ {op} : a.kind \in kinds
        BY <3>1 DEF Found
    <3>2. CASE \E i \in 1..Len(Q2) : Q2[i].op.kind \in kinds
      <4>1. PICK i \in 1..Len(Q2) : Q2[i].op.kind \in kinds
          BY <3>2
      <4>2. CASE i \in 1..Len(Q)
          BY <1>1, <4>1, <4>2 DEF Found
      <4>3. CASE i = Len(Q) + 1
          BY <1>1, <4>1, <4>3 DEF Found
      <4> QED  BY <1>2, <4>2, <4>3
    <3> QED  BY <2>2, <3>1, <3>2 DEF Found
  <2> QED  BY <2>1, <2>2
<1>4. Alone(O \ {op}, Q2)
  <2> SUFFICES ASSUME Found(Attempts, O \ {op}, Q2)
               PROVE  O \ {op} = {} /\ Len(Q2) <= 1
      BY DEF Alone
  <2>1. Found(Attempts, O, Q)
      BY <1>3
  <2>2. (\A a \in O : a = op) /\ Q = <<>>
      BY <2>1 DEF Alone
  <2>3. Len(Q) = 0
      BY <2>2, EmptySeq
  <2> QED  BY <1>1, <2>2, <2>3
<1>5. ASSUME Unaborted(Q) PROVE Unaborted(Q2)
  <2> SUFFICES ASSUME NEW i \in 1..Len(Q2), Q2[i].op.kind \in Reads
               PROVE  Q2[i].result # "aborted"
      BY DEF Unaborted
  <2>1. CASE i \in 1..Len(Q)
    <3>1. Q2[i] = Q[i]
        BY <1>1, <2>1
    <3> QED  BY <1>5, <2>1, <3>1, Zenon DEF Unaborted
  <2>2. CASE i = Len(Q) + 1
      BY <1>1, <2>2
  <2> QED  BY <1>2, <2>1, <2>2
<1>6. /\ Alone(O \ {op}, Q2)
      /\ \A kinds : Found(kinds, O, Q) <=> Found(kinds, O \ {op}, Q2)
      /\ Unaborted(Q) => Unaborted(Q2)
    BY <1>3, <1>4, <1>5, Zenon
<1> QED  BY <1>6, Zenon DEF Q2

\* What was alone is alone when it is aborted.
LEMMA AbortedStaysAlone ==
    ASSUME NEW O, NEW Q \in Seq(Completion), O \subseteq Operation, IsFiniteSet(O),
           Alone(O, Q), NEW order \in CompletionOrders(OnSocket(O))
    PROVE  LET Q2 == Q \o [i \in DOMAIN order |-> Done(order[i], "aborted")]
           IN  /\ Alone(O \ OnSocket(O), Q2)
               /\ Found(Attempts, O \ OnSocket(O), Q2) => Found(Attempts, O, Q)
               /\ O = {} => Q2 = Q
<1> DEFINE A == [i \in DOMAIN order |-> Done(order[i], "aborted")]
           Q2 == Q \o A
<1> DEFINE n == Len(A)
<1>1. OnSocket(O) \subseteq O
    BY DEF OnSocket
<1>2. /\ A \in Seq(Completion)
      /\ \A i \in 1..n : A[i].op = order[i] /\ order[i] \in OnSocket(O)
      /\ \A i, j \in 1..n : order[i] = order[j] => i = j
      /\ \A op \in OnSocket(O) : \E i \in 1..n : order[i] = op
    BY AbortedHandlers, ZenonT(40)
<1> HIDE DEF A
<1>3. \A i \in 1..n : order[i] \in OnSocket(O) /\ order[i] \in O
    BY <1>1, <1>2
<1>4. A \in Seq(Completion) /\ \A i \in 1..n : A[i].op = order[i]
    BY <1>2
<1>10. n \in Nat
    BY <1>2, LenProperties
<1>5. /\ Q2 \in Seq(Completion) /\ Len(Q) \in Nat /\ Len(Q2) = Len(Q) + n
      /\ \A i \in 1..Len(Q) : Q2[i] = Q[i]
      /\ \A j \in 1..n : Q2[Len(Q) + j] = A[j]
      /\ \A i \in 1..Len(Q2) :
           i \in 1..Len(Q) \/ \E j \in 1..n : i = Len(Q) + j
  <2>1. Len(Q2) = Len(Q) + Len(A)
      BY <1>4, ConcatProperties
  <2> QED  BY <1>4, <2>1, ConcatQueues
<1>6. n = 0 => Q2 = Q
  <2>1. SUFFICES ASSUME n = 0 PROVE Q2 = Q
      OBVIOUS
  <2>2. A = <<>>
      BY <1>4, <2>1, EmptySeq
  <2> QED  BY <2>2, ConcatEmptySeq
<1> HIDE DEF Q2, n
<1>7. ASSUME Found(Attempts, O \ OnSocket(O), Q2) PROVE Found(Attempts, O, Q)
  <2>1. CASE \E a \in O \ OnSocket(O) : a.kind \in Attempts
      BY <2>1 DEF Found
  <2>2. CASE \E i \in 1..Len(Q2) : Q2[i].op.kind \in Attempts
    <3>1. PICK i \in 1..Len(Q2) : Q2[i].op.kind \in Attempts
        BY <2>2
    <3>2. CASE i \in 1..Len(Q)
      <4>1. Q2[i] = Q[i]
          BY <1>5, <3>2
      <4> QED  BY <3>1, <3>2, <4>1, Zenon DEF Found
    <3>3. CASE \E j \in 1..n : i = Len(Q) + j
      <4>1. PICK j \in 1..n : i = Len(Q) + j
          BY <3>3
      <4>2. Q2[i].op = order[j]
          BY <1>4, <1>5, <4>1
      <4>3. order[j] \in O /\ order[j].kind \in Attempts
          BY <1>3, <3>1, <4>2
      <4> QED  BY <4>3, Zenon DEF Found
    <3> QED  BY <1>5, <3>2, <3>3
  <2> QED  BY <1>7, <2>1, <2>2 DEF Found
<1>8. O = {} => n = 0
  <2>1. O = {} => 1 \notin 1..n
      BY <1>3
  <2> QED  BY <1>10, <2>1
<1>9. Alone(O \ OnSocket(O), Q2)
  <2> SUFFICES ASSUME Found(Attempts, O \ OnSocket(O), Q2)
               PROVE  /\ \A a, b \in O \ OnSocket(O) : a = b
                      /\ Len(Q2) <= 1
                      /\ O \ OnSocket(O) # {} => Q2 = <<>>
      BY DEF Alone
  <2>1. /\ \A a, b \in O : a = b
        /\ Len(Q) <= 1
        /\ O # {} => Q = <<>>
      BY <1>7 DEF Alone
  <2>2. CASE O = {}
      BY <1>6, <1>8, <2>1, <2>2
  <2>3. CASE O # {}
    <3>1. Q = <<>> /\ Len(Q) = 0
        BY <2>1, <2>3, EmptySeq
    <3>2. n <= 1
      <4>1. 1 \in 1..n /\ 2 \in 1..n => 1 = 2
          BY <1>2, <1>3, <2>1
      <4>2. n > 1 => 1 \in 1..n /\ 2 \in 1..n
          BY <1>10
      <4> QED  BY <1>10, <4>1, <4>2
    <3>3. O \ OnSocket(O) # {} => n = 0
      <4>1. O \ OnSocket(O) # {} => OnSocket(O) = {}
          BY <1>1, <2>1
      <4>2. OnSocket(O) = {} => 1 \notin 1..n
          BY <1>3
      <4>3. 1 \notin 1..n => n = 0
          BY <1>10
      <4> QED  BY <4>1, <4>2, <4>3
    <3>4. Len(Q2) <= 1
        BY <1>5, <1>10, <3>1, <3>2
    <3> QED  BY <1>6, <2>1, <3>1, <3>3, <3>4
  <2> QED  BY <2>2, <2>3
<1> QED  BY <1>6, <1>7, <1>8, <1>9 DEF Q2, A

\* A read or a write, started or refused, is not an attempt; a read that is
\* refused is not aborted.
LEMMA TransferIsNoAttempt ==
    ASSUME NEW O, NEW Q \in Seq(Completion), ~Found(Attempts, O, Q),
           NEW op \in Operation, op.kind \notin Attempts,
           NEW O2, NEW Q2,
           \/ O2 = O \union {op} /\ Q2 = Q
           \/ O2 = O /\ Q2 = Append(Q, Done(op, "error"))
           \/ O2 = O /\ Q2 = Append(Q, Done(op, "ok"))
    PROVE  /\ ~Found(Attempts, O2, Q2)
           /\ \A kinds : Found(kinds, O, Q) \/ op.kind \in kinds =>
                            Found(kinds, O2, Q2)
           /\ Unaborted(Q) => Unaborted(Q2)
<1>1. CASE O2 = O \union {op} /\ Q2 = Q
    BY <1>1 DEF Found
<1>2. ASSUME NEW r \in {"error", "ok"},
             O2 = O /\ Q2 = Append(Q, Done(op, r))
      PROVE  /\ ~Found(Attempts, O2, Q2)
             /\ \A kinds : Found(kinds, O, Q) \/ op.kind \in kinds =>
                              Found(kinds, O2, Q2)
             /\ Unaborted(Q) => Unaborted(Q2)
  <2> DEFINE d == Done(op, r)
  <2>1. d \in Completion /\ d.op = op /\ d.result \in {"error", "ok"}
      BY DoneIsCompletion DEF Results
  <2> HIDE DEF d
  <2>2. /\ Len(Q) \in Nat /\ Len(Q2) = Len(Q) + 1
        /\ \A i \in 1..Len(Q) : Q2[i] = Q[i]
        /\ Q2[Len(Q) + 1] = d
      BY <1>2, <2>1, AppendToQueue DEF d
  <2>3. /\ \A i \in 1..Len(Q) : i \in 1..Len(Q2)
        /\ Len(Q) + 1 \in 1..Len(Q2)
        /\ \A i \in 1..Len(Q2) : i \in 1..Len(Q) \/ i = Len(Q) + 1
      BY <2>2
  <2>4. \A i \in 1..Len(Q2) : Q2[i] = d \/ \E j \in 1..Len(Q) : Q2[i] = Q[j]
      BY <2>2, <2>3
  <2>5. \E i \in 1..Len(Q2) : Q2[i] = d
      BY <2>2, <2>3
  <2>6. \A j \in 1..Len(Q) : \E i \in 1..Len(Q2) : Q2[i] = Q[j]
      BY <2>2, <2>3
  <2>7. ~Found(Attempts, O2, Q2)
      BY <1>2, <2>1, <2>4, Zenon DEF Found
  <2>8. \A kinds : Found(kinds, O, Q) \/ op.kind \in kinds =>
                      Found(kinds, O2, Q2)
      BY <1>2, <2>1, <2>5, <2>6, Zenon DEF Found
  <2>9. Unaborted(Q) => Unaborted(Q2)
    <3>1. d.result # "aborted"
        BY <2>1
    <3> QED  BY <2>4, <3>1, Zenon DEF Unaborted
  <2> QED  BY <2>7, <2>8, <2>9
<1> QED  BY <1>1, <1>2

\* The invariant of the first connection in these terms.
FirstNow ==
    /\ chain = 0 => ops = {} /\ queue = <<>>
    /\ caller \in {"join", "spawn"} => Found(Attempts, ops, queue)
    /\ \A t \in Chains :
         t > chain \/ caller \in {"join", "spawn"} =>
             thread[t] \in {"none", "undefined"}
    /\ Alone(ops, queue)
    /\ Found(Attempts, ops, queue) =>
         /\ machine # "Connected"
         /\ \A t \in Chains : thread[t] \notin {"react", "rearm"}
    /\ machine \in {"Negotiating", "Connected"} => Unaborted(queue)
    /\ machine = "Negotiating" =>
         \A t \in Chains : thread[t] = "react" /\ event[t].kind = "connected" =>
             Found(Reads, ops, queue)
    /\ machine = "Connected" =>
         Found(Reads, ops, queue) \/ \E t \in Chains : Answers(t)

LEMMA FirstIsNow ==
    NothingBefore /\ AttemptAlone /\ ReadsContinue <=> FirstNow
<1>1. \A kinds : InProgress(kinds) <=> Found(kinds, ops, queue)
    BY DEF InProgress, Found
<1> QED  BY <1>1, Zenon DEF NothingBefore, AttemptAlone, ReadsContinue, FirstNow,
            Alone, Unaborted

\* Thread t is the I/O thread of the first connection, and no other runs.
OnlyThread(t) ==
    /\ t = 1 /\ chain = 1
    /\ caller \notin {"join", "spawn"}
    /\ \A u \in Chains : u # t => thread[u] \in {"none", "undefined"}

LEMMA OneThread ==
    ASSUME chain <= 1, Control, FirstNow, NEW t \in Chains,
           thread[t] \notin {"none", "undefined"}
    PROVE  OnlyThread(t)
<1>1. \A u \in Chains : u \in Nat /\ u >= 1
    BY DEF Chains
<1>2. chain \in Nat
    BY Constants DEF Control
<1>3. t <= chain /\ caller \notin {"join", "spawn"}
    BY <1>1, <1>2 DEF FirstNow
<1>4. t = 1 /\ chain = 1
    BY <1>1, <1>2, <1>3
<1>5. \A u \in Chains : u # t => thread[u] \in {"none", "undefined"}
  <2>1. \A u \in Chains : u # t => u > chain
      BY <1>1, <1>4
  <2> QED  BY <2>1 DEF FirstNow
<1> QED  BY <1>3, <1>4, <1>5 DEF OnlyThread

LEMMA ThreadMoves ==
    ASSUME Control, NEW t \in Chains, OnlyThread(t), UNCHANGED chain,
           caller' \notin {"join", "spawn"},
           \E s : thread' = [thread EXCEPT ![t] = s]
    PROVE  OnlyThread(t)'
BY DEF Control, OnlyThread

LEMMA BooksTypes ==
    ASSUME Balanced
    PROVE  /\ ops \subseteq Operation /\ IsFiniteSet(ops)
           /\ queue \in Seq(Completion)
BY DEF Balanced, Books

\* Steps of the user's thread that stop nothing and start nothing.
LEMMA QuietFirst ==
    ASSUME FirstNow, UNCHANGED <<ops, queue, thread, event, chain>>,
           machine' = machine \/ machine' = "Terminated",
           caller' \in {"join", "spawn"} => caller \in {"join", "spawn"}
    PROVE  FirstNow'
BY Zenon DEF FirstNow, Answers

\* What has to be shown of a step of the only thread.
LEMMA FirstThread ==
    ASSUME NEW t \in Chains, OnlyThread(t)', Alone(ops', queue'),
           Found(Attempts, ops', queue') =>
               /\ machine' # "Connected"
               /\ thread'[t] \notin {"react", "rearm"},
           machine' \in {"Negotiating", "Connected"} => Unaborted(queue'),
           machine' = "Negotiating" =>
               (thread'[t] = "react" /\ event'[t].kind = "connected" =>
                   Found(Reads, ops', queue')),
           machine' = "Connected" => Found(Reads, ops', queue') \/ Answers(t)'
    PROVE  FirstNow'
<1>1. \A u \in Chains : u # t => thread'[u] \notin {"react", "rearm"}
    BY DEF OnlyThread
<1>2. \A u \in Chains :
         u > chain' \/ caller' \in {"join", "spawn"} =>
             thread'[u] \in {"none", "undefined"}
    BY DEF OnlyThread
<1>3. chain' # 0 /\ caller' \notin {"join", "spawn"}
    BY DEF OnlyThread
<1> QED  BY <1>1, <1>2, <1>3, Zenon DEF FirstNow

\* A thread enters run(), leaves it, or returns from a handler.
LEMMA ThreadFirst ==
    ASSUME chain <= 1, Control, FirstNow, NEW t \in Chains,
           RunStarts(t) \/ RunReturns(t) \/ HandlerReturns(t)
    PROVE  FirstNow'
<1>1. /\ thread[t] \in {"start", "loop", "return"}
      /\ \E s \in {"finished", "loop"} : thread' = [thread EXCEPT ![t] = s]
      /\ UNCHANGED <<ops, queue, chain, machine>>
      /\ caller' \in {"join", "spawn"} => caller \in {"join", "spawn"}
    BY DEF RunStarts, RunReturns, HandlerReturns, ioVars
<1>2. OnlyThread(t)
    BY <1>1, OneThread
<1>3. thread'[t] \in {"finished", "loop"}
    BY <1>1 DEF Control
<1>4. OnlyThread(t)'
    BY <1>1, <1>2, ThreadMoves DEF OnlyThread
<1>5. ~Answers(t)
    BY <1>1 DEF Answers
<1>6. chain # 0
    BY <1>2 DEF OnlyThread
<1>7. machine = "Connected" => Found(Reads, ops, queue)
  <2>1. \A u \in Chains : ~Answers(u)
      BY <1>2, <1>5 DEF OnlyThread, Answers
  <2> QED  BY <2>1 DEF FirstNow
<1>8. \A u \in Chains : thread'[u] \notin {"react", "rearm"}
    BY <1>3, <1>4 DEF OnlyThread
<1>9. /\ Alone(ops, queue)
      /\ Found(Attempts, ops, queue) => machine # "Connected"
      /\ machine \in {"Negotiating", "Connected"} => Unaborted(queue)
    BY Zenon DEF FirstNow
<1> QED  BY <1>1, <1>4, <1>6, <1>7, <1>8, <1>9, FirstThread

\* The operations are stopped: nothing is said of the rest of a connection.
LEMMA StopFirst ==
    ASSUME chain <= 1, Control, Balanced, FirstNow, NEW now,
           stopIOOperations(now), DOMAIN thread = Chains,
           \A t \in Chains : \/ now[t] = thread[t]
                             \/ now[t] = "return" /\ ~(t > chain),
           machine' \in {"Waiting", "Terminated"}, UNCHANGED chain,
           caller' \notin {"join", "spawn"}
    PROVE  FirstNow'
<1>1. PICK order \in CompletionOrders(OnSocket(ops)) :
         queue' = queue \o [i \in DOMAIN order |-> Done(order[i], "aborted")]
    BY DEF stopIOOperations, Abort
<1>2. ops' = ops \ OnSocket(ops)
    BY DEF stopIOOperations
<1>3. Alone(ops, queue)
    BY DEF FirstNow
<1>4. /\ Alone(ops', queue')
      /\ Found(Attempts, ops', queue') => Found(Attempts, ops, queue)
      /\ ops = {} => queue' = queue
    BY <1>1, <1>2, <1>3, BooksTypes, AbortedStaysAlone
<1>5. \A t \in Chains :
         /\ thread'[t] \in {"finished", "return", thread[t]}
         /\ t > chain /\ thread[t] # "loop" => thread'[t] = thread[t]
    BY DEF stopIOOperations, InLoop
<1>6. Found(Attempts, ops', queue') =>
         \A t \in Chains : thread'[t] \notin {"react", "rearm"}
    BY <1>4, <1>5 DEF FirstNow
<1>7. \A t \in Chains : t > chain => thread'[t] \in {"none", "undefined"}
    BY <1>5 DEF FirstNow
<1>8. chain = 0 => ops' = {} /\ queue' = <<>>
    BY <1>2, <1>4 DEF FirstNow
<1>9. machine' \notin {"Negotiating", "Connected"}
    OBVIOUS
<1> QED  BY <1>4, <1>6, <1>7, <1>8, <1>9, Zenon DEF FirstNow

LEMMA ConnectRequestFirst ==
    ASSUME chain' <= 1, chain <= 1, Control, Balanced, FirstNow, ConnectRequest
    PROVE  FirstNow'
<1>1. CASE machine = "Waiting"
  <2> DEFINE op == Op("resolve", chain + 1, 0)
  <2>1. /\ caller = "connect" /\ caller' = "join" /\ chain' = chain + 1
        /\ ops' = ops \union {op} /\ UNCHANGED <<queue, machine, thread, event>>
      BY <1>1 DEF ConnectRequest, threadVars
  <2>2. chain = 0 /\ \A t \in Chains : t > chain
    <3>1. chain \in Nat
        BY Constants DEF Control
    <3>2. chain = 0
        BY <2>1, <3>1
    <3> QED  BY <3>2 DEF Chains
  <2>3. /\ ops' = {op} /\ queue' = <<>> /\ Len(queue') = 0
        /\ \A t \in Chains : thread'[t] \in {"none", "undefined"}
      BY <2>1, <2>2, EmptySeq DEF FirstNow
  <2>4. op.kind \in Attempts
      BY DEF Op, Attempts
  <2> HIDE DEF op
  <2>5. Found(Attempts, ops', queue') /\ Alone(ops', queue')
      BY <2>3, <2>4 DEF Found, Alone
  <2>6. chain' # 0
      BY <2>1, <2>2
  <2> QED  BY <1>1, <2>1, <2>3, <2>5, <2>6 DEF FirstNow
<1>2. CASE machine # "Waiting"
    BY <1>2, QuietFirst DEF ConnectRequest, threadVars
<1> QED  BY <1>1, <1>2

LEMMA StartThreadFirst ==
    ASSUME chain <= 1, Control, Balanced, FirstNow, StartThread
    PROVE  FirstNow'
<1>1. /\ caller = "spawn" /\ caller' = "idle" /\ machine' = "Negotiating"
      /\ thread' = [thread EXCEPT ![chain] = "start"]
      /\ UNCHANGED <<chain, event, ops, queue>>
    BY DEF StartThread, ioVars
<1>2. chain > 0 /\ Found(Attempts, ops, queue) /\ Alone(ops, queue)
      /\ \A t \in Chains : thread[t] \in {"none", "undefined"}
    BY <1>1 DEF Control, CallsInOrder, FirstNow
<1>3. \A t \in Chains : thread'[t] \notin {"react", "rearm"}
    BY <1>1, <1>2 DEF Control
<1>4. Unaborted(queue)
  <2> SUFFICES ASSUME NEW i \in 1..Len(queue)
               PROVE  queue[i].op.kind \notin Reads
      BY DEF Unaborted
  <2>1. ops = {} /\ Len(queue) <= 1
    <3>1. queue # <<>>
        BY EmptySeq
    <3> QED  BY <1>2, <3>1 DEF Alone
  <2>2. PICK j \in 1..Len(queue) : queue[j].op.kind \in Attempts
      BY <1>2, <2>1 DEF Found
  <2>3. Len(queue) \in Nat
      BY BooksTypes, LenProperties
  <2>4. i = j
      BY <2>1, <2>3
  <2> QED  BY <2>2, <2>4 DEF Attempts, Reads
<1>5. chain # 0
    BY <1>2
<1> QED  BY <1>1, <1>2, <1>3, <1>4, <1>5 DEF FirstNow

LEMMA UndefinedFirst ==
    ASSUME FirstNow, BecomesUndefined
    PROVE  FirstNow'
<1>1. /\ machine' = "Undefined" /\ caller' = "undefined" /\ ops' = {}
      /\ UNCHANGED <<chain, queue>>
      /\ \A t \in Chains : thread'[t] = "undefined"
    BY DEF BecomesUndefined
<1>2. Alone({}, queue)
    BY DEF FirstNow, Alone, Found
<1> QED  BY <1>1, <1>2 DEF FirstNow

\* The network only turns operations into handlers.
LEMMA NetworkFirst ==
    ASSUME chain <= 1, Control, Balanced, FirstNow, Network
    PROVE  FirstNow'
<1>1. UNCHANGED <<machine, chain, caller, thread, event>>
    BY DEF Network, ResolveCompletes, ConnectCompletes, TransferCompletes,
       threadVars
<1>2. \E op \in ops : \E d \in Completion :
         /\ d.op.kind = op.kind /\ d.result # "aborted"
         /\ ops' = ops \ {op} /\ queue' = Append(queue, d)
  <2>1. ASSUME NEW op \in ops, NEW r \in {"ok", "error"},
               ops' = ops \ {op}, queue' = Append(queue, Done(op, r))
        PROVE  \E d \in Completion :
                 /\ d.op.kind = op.kind /\ d.result # "aborted"
                 /\ ops' = ops \ {op} /\ queue' = Append(queue, d)
    <3>1. /\ Done(op, r) \in Completion /\ Done(op, r).op = op
          /\ Done(op, r).result = r
        BY BooksTypes, DoneIsCompletion DEF Results
    <3> QED  BY <2>1, <3>1
  <2>2. CASE ResolveCompletes
    <3>1. PICK op \in ops, n \in 0..MaxRecords :
             /\ op.kind = "resolve"
             /\ ops' = ops \ {op}
             /\ queue' = Append(queue,
                    IF n = 0 THEN Done(op, "error")
                             ELSE Done([op EXCEPT !.arg = n], "ok"))
        BY <2>2 DEF ResolveCompletes
    <3> DEFINE op2 == [op EXCEPT !.arg = n]
    <3>2. op2 \in Operation /\ op2.kind = op.kind
        BY <3>1, BooksTypes DEF Operation
    <3> HIDE DEF op2
    <3>3. /\ Done(op2, "ok") \in Completion /\ Done(op2, "ok").op = op2
          /\ Done(op2, "ok").result = "ok"
        BY <3>2, DoneIsCompletion DEF Results
    <3>4. CASE n = 0
        BY <2>1, <3>1, <3>4
    <3>5. CASE n # 0
        BY <3>1, <3>2, <3>3, <3>5 DEF op2
    <3> QED  BY <3>4, <3>5
  <2>3. CASE ConnectCompletes
    <3>1. PICK op \in ops, r \in {"ok", "error"} :
             ops' = ops \ {op} /\ queue' = Append(queue, Done(op, r))
        BY <2>3 DEF ConnectCompletes
    <3> QED  BY <2>1, <3>1
  <2>4. CASE TransferCompletes
    <3>1. PICK op \in ops, r \in {"ok", "error"} :
             ops' = ops \ {op} /\ queue' = Append(queue, Done(op, r))
        BY <2>4 DEF TransferCompletes
    <3> QED  BY <2>1, <3>1
  <2> QED  BY <2>2, <2>3, <2>4 DEF Network
<1>3. Alone(ops, queue) /\ queue \in Seq(Completion)
    BY BooksTypes DEF FirstNow
<1>4. /\ Alone(ops', queue')
      /\ \A kinds : Found(kinds, ops, queue) <=> Found(kinds, ops', queue')
      /\ Unaborted(queue) => Unaborted(queue')
  <2>1. PICK op \in ops, d \in Completion :
           /\ d.op.kind = op.kind /\ d.result # "aborted"
           /\ ops' = ops \ {op} /\ queue' = Append(queue, d)
      BY <1>2
  <2>2. /\ Alone(ops \ {op}, Append(queue, d))
        /\ \A kinds : Found(kinds, ops, queue)
                         <=> Found(kinds, ops \ {op}, Append(queue, d))
        /\ Unaborted(queue) => Unaborted(Append(queue, d))
      BY <1>3, <2>1, DoneStaysAlone
  <2> QED  BY <2>1, <2>2, Zenon
<1>5. chain # 0
    BY <1>2 DEF FirstNow
<1> QED  BY <1>1, <1>4, <1>5, Zenon DEF FirstNow, Answers

-----------------------------------------------------------------------------
(* Handlers on the first connection *)

\* What is left when thread t has taken the first handler.
LEMMA TakenFirst ==
    ASSUME chain <= 1, Control, Balanced, FirstNow, NEW t \in Chains, NEW k,
           Takes(t, k)
    PROVE  /\ queue # <<>> /\ Tail(queue) \in Seq(Completion)
           /\ Head(queue).op.kind = k
           /\ thread[t] = "loop" /\ OnlyThread(t)
           /\ UNCHANGED <<machine, chain, caller>>
           /\ ~Found(Attempts, ops, Tail(queue))
           /\ k \in Attempts => /\ ops = {} /\ Tail(queue) = <<>>
                               /\ machine # "Connected"
           /\ machine \in {"Negotiating", "Connected"} =>
                Unaborted(queue) /\ Unaborted(Tail(queue))
           /\ machine = "Connected" => Found(Reads, ops, queue)
           /\ machine = "Connected" /\ k \notin Reads =>
                Found(Reads, ops, Tail(queue))
<1>1. /\ thread[t] = "loop" /\ queue # <<>> /\ Head(queue).op.kind = k
      /\ UNCHANGED <<machine, chain, caller>>
    BY DEF Takes
<1>2. queue \in Seq(Completion) /\ Alone(ops, queue)
    BY BooksTypes DEF FirstNow
<1>3. OnlyThread(t)
    BY <1>1, OneThread
<1>4. \A u \in Chains : ~Answers(u)
    BY <1>1, <1>3 DEF OnlyThread, Answers
<1>5. Tail(queue) \in Seq(Completion) /\ 1 \in 1..Len(queue)
      /\ Head(queue) = queue[1]
    BY <1>1, <1>2, TailOfQueue
<1>6. /\ ~Found(Attempts, ops, Tail(queue))
      /\ k \in Attempts => ops = {} /\ Tail(queue) = <<>>
    BY <1>1, <1>2, NoAttemptBehind
<1>7. k \in Attempts => machine # "Connected"
    BY <1>1, <1>5 DEF FirstNow, Found
<1>8. machine \in {"Negotiating", "Connected"} =>
         Unaborted(queue) /\ Unaborted(Tail(queue))
    BY <1>1, <1>2, UnabortedTail DEF FirstNow
<1>9. machine = "Connected" => Found(Reads, ops, queue)
    BY <1>4 DEF FirstNow
<1>10. machine = "Connected" /\ k \notin Reads => Found(Reads, ops, Tail(queue))
    BY <1>1, <1>2, <1>9, ReadsBehind
<1> QED  BY <1>1, <1>3, <1>4, <1>5, <1>6, <1>7, <1>8, <1>9, <1>10

LEMMA HandlerMoves ==
    ASSUME Control, NEW t \in Chains, OnlyThread(t),
           \/ ResolveHandler(t) \/ ConnectHandler(t) \/ HeaderHandler(t)
           \/ BodyHandler(t) \/ WriteHandler(t)
    PROVE  OnlyThread(t)'
<1>1. UNCHANGED <<chain, caller>>
    BY DEF ResolveHandler, ConnectHandler, HeaderHandler, BodyHandler,
       WriteHandler, Takes
<1>2. \E s : thread' = [thread EXCEPT ![t] = s]
    BY DEF ResolveHandler, ConnectHandler, HeaderHandler, BodyHandler,
       WriteHandler, NoMore, Raise
<1> QED  BY <1>1, <1>2, ThreadMoves DEF OnlyThread

\* What has to be shown of a handler's step.
LEMMA HandlerFirst ==
    ASSUME NEW t \in Chains, OnlyThread(t)', UNCHANGED machine,
           Alone(ops', queue'),
           Found(Attempts, ops', queue') =>
               machine # "Connected" /\ thread'[t] = "return",
           machine \in {"Negotiating", "Connected"} => Unaborted(queue'),
           thread'[t] = "react" /\ event'[t].kind = "connected" =>
               Found(Reads, ops', queue'),
           machine = "Connected" => Found(Reads, ops', queue') \/ Answers(t)'
    PROVE  FirstNow'
BY FirstThread

\* The thread after it went on to an event, or not.
LEMMA AfterHandler ==
    ASSUME Control, NEW t \in Chains
    PROVE  /\ NoMore(t) => thread'[t] = "return" /\ event' = event
           /\ \A e, c : Raise(t, e, c) =>
                /\ thread'[t] = "react" /\ event'[t].kind = e
                /\ e \in {"message", "empty", "disconnected"} => Answers(t)'
BY DEF Control, NoMore, Raise, Answers

\* The attempt alone, and nothing else.
LEMMA OneAttempt ==
    ASSUME NEW O, NEW Q, NEW op \in Operation, op.kind \in Attempts,
           \/ O = {op} /\ Q = <<>>
           \/ O = {} /\ Q = Append(<<>>, Done(op, "error"))
    PROVE  Alone(O, Q) /\ Unaborted(Q)
<1>1. CASE O = {op} /\ Q = <<>>
  <2>1. Len(Q) = 0
      BY <1>1, EmptySeq
  <2> QED  BY <1>1, <2>1 DEF Alone, Unaborted
<1>2. CASE O = {} /\ Q = Append(<<>>, Done(op, "error"))
  <2>1. Done(op, "error") \in Completion /\ Done(op, "error").result = "error"
      BY DoneIsCompletion DEF Results
  <2>2. Len(Q) = 1 /\ Q[1] = Done(op, "error")
    <3>1. <<>> \in Seq(Completion) /\ Len(<<>>) = 0
        BY EmptySeq
    <3> QED  BY <1>2, <2>1, <3>1, AppendToQueue
  <2>3. \A i \in 1..Len(Q) : i = 1
      BY <2>2
  <2> QED  BY <1>2, <2>1, <2>2, <2>3 DEF Alone, Unaborted
<1> QED  BY <1>1, <1>2

LEMMA ResolveHandlerFirst ==
    ASSUME chain <= 1, Control, Balanced, FirstNow, NEW t \in Chains,
           ResolveHandler(t)
    PROVE  FirstNow'
<1> DEFINE h == Head(queue)
<1>1. Takes(t, "resolve")
    BY DEF ResolveHandler
<1>2. /\ h.op \in Operation /\ h.op.kind = "resolve" /\ h.op.chain \in Chains
      /\ HasRecords(h)
    BY <1>1, TakenHandler
<1>3. /\ OnlyThread(t)'
      /\ UNCHANGED machine /\ ops = {} /\ Tail(queue) = <<>>
      /\ machine # "Connected" /\ ~Found(Attempts, ops, Tail(queue))
    BY <1>1, TakenFirst, HandlerMoves DEF Attempts
<1>4. CASE h.result = "ok"
  <2> DEFINE op == Op("connect", h.op.chain, h.op.arg)
  <2>1. op \in Operation /\ op.kind \in Attempts
    <3>1. h.op.arg \in 0..MaxRecords /\ h.op.arg > 0
        BY <1>2, <1>4, OperationFields DEF HasRecords
    <3>2. h.op.arg \in 1..MaxRecords
        BY <3>1, Constants
    <3> QED  BY <1>2, <3>2, OpIsOperation DEF Op, Attempts
  <2>2. StartConnect(Tail(queue), h.op.chain, h.op.arg) /\ NoMore(t)
      BY <1>4 DEF ResolveHandler
  <2>3. \/ ops' = {op} /\ queue' = <<>>
        \/ ops' = {} /\ queue' = Append(<<>>, Done(op, "error"))
    <3>1. \/ ops' = ops \union {op} /\ queue' = Tail(queue)
          \/ ops' = ops /\ queue' = Append(Tail(queue), Done(op, "error"))
        BY <2>2 DEF StartConnect
    <3> QED  BY <1>3, <3>1
  <2> HIDE DEF op
  <2>4. Alone(ops', queue') /\ Unaborted(queue')
      BY <2>1, <2>3, OneAttempt
  <2>5. thread'[t] = "return"
      BY <2>2, AfterHandler
  <2> QED  BY <1>3, <2>4, <2>5, HandlerFirst
<1>5. CASE h.result # "ok"
  <2>1. /\ ops' = ops /\ queue' = Tail(queue)
        /\ Raise(t, "connect_failed", h.op.chain)
      BY <1>5 DEF ResolveHandler
  <2>2. thread'[t] = "react" /\ event'[t].kind = "connect_failed"
      BY <2>1, AfterHandler
  <2>3. ~Found(Attempts, ops', queue')
      BY <1>3, <2>1
  <2>4. Alone(ops', queue') /\ Unaborted(queue')
    <3>1. Len(queue') = 0
        BY <1>3, <2>1, EmptySeq
    <3> QED  BY <2>3, <3>1 DEF Alone, Unaborted
  <2> QED  BY <1>3, <2>2, <2>3, <2>4, HandlerFirst
<1> QED  BY <1>4, <1>5

LEMMA ConnectHandlerFirst ==
    ASSUME chain <= 1, Control, Balanced, FirstNow, NEW t \in Chains,
           ConnectHandler(t)
    PROVE  FirstNow'
<1> DEFINE h == Head(queue)
           c == h.op.chain
<1>1. Takes(t, "connect")
    BY DEF ConnectHandler
<1>2. /\ h.op \in Operation /\ h.op.kind = "connect" /\ c \in Chains
      /\ h.op.arg \in 1..MaxRecords
    BY <1>1, TakenHandler, OperationFields
<1>3. /\ OnlyThread(t)'
      /\ UNCHANGED machine /\ ops = {} /\ Tail(queue) = <<>>
      /\ machine # "Connected" /\ ~Found(Attempts, ops, Tail(queue))
      /\ Tail(queue) \in Seq(Completion) /\ Unaborted(Tail(queue))
  <2>1. /\ OnlyThread(t)'
        /\ UNCHANGED machine /\ ops = {} /\ Tail(queue) = <<>>
        /\ machine # "Connected" /\ ~Found(Attempts, ops, Tail(queue))
        /\ Tail(queue) \in Seq(Completion)
      BY <1>1, TakenFirst, HandlerMoves DEF Attempts
  <2>2. Len(Tail(queue)) = 0
      BY <2>1, EmptySeq
  <2>3. 1..0 = {}
      OBVIOUS
  <2>4. Unaborted(Tail(queue))
      BY <2>2, <2>3, Zenon DEF Unaborted
  <2> QED  BY <2>1, <2>4
<1>4. CASE /\ StartTransfer(Tail(queue), Op("header", c, 0))
           /\ Raise(t, "connected", c)
  <2> DEFINE op == Op("header", c, 0)
  <2>1. op \in Operation /\ op.kind \in Reads /\ op.kind \notin Attempts
      BY <1>2, OpIsOperation DEF Op, Reads, Attempts
  <2>2. \/ ops' = ops \union {op} /\ queue' = Tail(queue)
        \/ ops' = ops /\ queue' = Append(Tail(queue), Done(op, "error"))
      BY <1>4 DEF StartTransfer
  <2> HIDE DEF op
  <2>3. /\ ~Found(Attempts, ops', queue') /\ Found(Reads, ops', queue')
        /\ Unaborted(queue')
      BY <1>3, <2>1, <2>2, TransferIsNoAttempt, ZenonT(40)
  <2>4. Alone(ops', queue')
      BY <2>3 DEF Alone
  <2> QED  BY <1>3, <2>3, <2>4, HandlerFirst
<1>5. CASE /\ MoreRecords(h.op)
           /\ ReopenConnect(Tail(queue), c, h.op.arg - 1)
           /\ NoMore(t)
  <2> DEFINE op == Op("connect", c, h.op.arg - 1)
  <2>1. op \in Operation /\ op.kind \in Attempts
    <3>1. h.op.arg - 1 \in 1..MaxRecords
        BY <1>2, <1>5, Constants DEF MoreRecords
    <3> QED  BY <1>2, <3>1, OpIsOperation DEF Op, Attempts
  <2>2. ops' = {op} /\ queue' = <<>>
    <3>1. Abort(Tail(queue)) /\ ops' = (ops \ OnSocket(ops)) \union {op}
        BY <1>5 DEF ReopenConnect
    <3>2. PICK order \in CompletionOrders(OnSocket(ops)) :
             queue' = Tail(queue)
                          \o [i \in DOMAIN order |-> Done(order[i], "aborted")]
        BY <3>1 DEF Abort
    <3>3. ops = {} /\ IsFiniteSet(ops) /\ ops \subseteq Operation
          /\ Alone(ops, Tail(queue))
        BY <1>3, BooksTypes DEF Alone
    <3>4. queue' = Tail(queue)
        BY <1>3, <3>2, <3>3, AbortedStaysAlone
    <3>5. ops' = {op}
        BY <3>1, <3>3
    <3> QED  BY <1>3, <3>4, <3>5
  <2> HIDE DEF op
  <2>3. Alone(ops', queue') /\ Unaborted(queue')
      BY <2>1, <2>2, OneAttempt
  <2>4. thread'[t] = "return"
      BY <1>5, AfterHandler
  <2> QED  BY <1>3, <2>3, <2>4, HandlerFirst
<1>6. CASE /\ queue' = Tail(queue) /\ ops' = ops
           /\ NoMore(t) \/ Raise(t, "connect_failed", c)
  <2>1. thread'[t] = "react" => event'[t].kind # "connected"
      BY <1>6, AfterHandler
  <2>2. ~Found(Attempts, ops', queue') /\ Unaborted(queue')
      BY <1>3, <1>6
  <2>3. Alone(ops', queue')
      BY <2>2 DEF Alone
  <2> QED  BY <1>3, <2>1, <2>2, <2>3, HandlerFirst
<1> QED  BY <1>4, <1>5, <1>6 DEF ConnectHandler

\* Reads and writes: the thread goes on reading, or the event it raises ends
\* the connection or renews the read.
LEMMA TransferHandlerFirst ==
    ASSUME chain <= 1, Control, Balanced, FirstNow, NEW t \in Chains,
           HeaderHandler(t) \/ BodyHandler(t) \/ WriteHandler(t)
    PROVE  FirstNow'
<1> DEFINE h == Head(queue)
           c == h.op.chain
<1>1. PICK k \in {"header", "body", "write"} :
         /\ Takes(t, k)
         /\ k = "header" => HeaderHandler(t)
         /\ k = "body" => BodyHandler(t)
         /\ k = "write" => WriteHandler(t)
    BY DEF HeaderHandler, BodyHandler, WriteHandler
<1>2. /\ OnlyThread(t)'
      /\ UNCHANGED machine /\ ~Found(Attempts, ops, Tail(queue))
      /\ Tail(queue) \in Seq(Completion)
      /\ machine \in {"Negotiating", "Connected"} =>
           Unaborted(queue) /\ Unaborted(Tail(queue))
      /\ machine = "Connected" /\ k = "write" => Found(Reads, ops, Tail(queue))
    BY <1>1, TakenFirst, HandlerMoves DEF Reads
<1>3. ASSUME NEW n \in {0, 1}, NoMore(t),
             \/ StartTransfer(Tail(queue), Op("body", c, n))
             \/ /\ queue' = Append(Tail(queue), Done(Op("body", c, n), "ok"))
                /\ UNCHANGED ops
      PROVE  FirstNow'
  <2> DEFINE op == Op("body", c, n)
  <2>1. op \in Operation /\ op.kind \in Reads /\ op.kind \notin Attempts
    <3>1. c \in Chains
        BY <1>1, TakenHandler
    <3> QED  BY <3>1, OpIsOperation DEF Op, Reads, Attempts
  <2>2. \/ ops' = ops \union {op} /\ queue' = Tail(queue)
        \/ ops' = ops /\ queue' = Append(Tail(queue), Done(op, "error"))
        \/ ops' = ops /\ queue' = Append(Tail(queue), Done(op, "ok"))
      BY <1>3 DEF StartTransfer
  <2> HIDE DEF op
  <2>3. /\ ~Found(Attempts, ops', queue') /\ Found(Reads, ops', queue')
        /\ Unaborted(Tail(queue)) => Unaborted(queue')
      BY <1>2, <2>1, <2>2, TransferIsNoAttempt
  <2>4. Alone(ops', queue')
      BY <2>3 DEF Alone
  <2> QED  BY <1>2, <2>3, <2>4, HandlerFirst
<1>4. ASSUME /\ queue' = Tail(queue) /\ ops' = ops
             /\ thread'[t] = "react" => event'[t].kind # "connected"
             /\ machine = "Connected" =>
                  Answers(t)' \/ Found(Reads, ops, Tail(queue))
      PROVE  FirstNow'
  <2>1. ~Found(Attempts, ops', queue')
      BY <1>2, <1>4
  <2>2. Alone(ops', queue')
      BY <2>1 DEF Alone
  <2> QED  BY <1>2, <1>4, <2>1, <2>2, HandlerFirst
<1>5. CASE /\ queue' = Tail(queue) /\ ops' = ops
           /\ \E e \in {"message", "empty", "disconnected"} : Raise(t, e, c)
  <2>1. PICK e \in {"message", "empty", "disconnected"} : Raise(t, e, c)
      BY <1>5
  <2>2. event'[t].kind # "connected" /\ Answers(t)'
      BY <2>1, AfterHandler
  <2> QED  BY <1>4, <1>5, <2>2
<1>6. CASE k = "header" /\ h.result = "aborted" /\ NoMore(t)
           /\ queue' = Tail(queue) /\ ops' = ops
  <2>1. machine # "Connected"
    <3>1. /\ h = queue[1] /\ 1 \in 1..Len(queue) /\ h.op.kind = "header"
        BY <1>1, <1>6, BooksTypes, TailOfQueue DEF Takes
    <3> QED  BY <1>2, <1>6, <3>1 DEF Unaborted, Reads
  <2>2. thread'[t] = "return"
      BY <1>6, AfterHandler
  <2> QED  BY <1>4, <1>6, <2>1, <2>2
<1>7. CASE k = "write" /\ NoMore(t) /\ queue' = Tail(queue) /\ ops' = ops
  <2>1. thread'[t] = "return"
      BY <1>7, AfterHandler
  <2> QED  BY <1>2, <1>4, <1>7, <2>1
<1>8. CASE k = "header"
    BY <1>1, <1>3, <1>5, <1>6, <1>8 DEF HeaderHandler
<1>9. CASE k = "body"
    BY <1>1, <1>5, <1>9 DEF BodyHandler
<1>10. CASE k = "write"
    BY <1>1, <1>5, <1>7, <1>10 DEF WriteHandler
<1> QED  BY <1>8, <1>9, <1>10

\* The machine processes the event of a handler.
LEMMA ReactFirst ==
    ASSUME chain <= 1, Control, Balanced, FirstNow, NEW t \in Chains,
           React(t)
    PROVE  FirstNow'
<1> DEFINE now == [thread EXCEPT ![t] =
                     IF event[t].kind \in {"message", "empty"} THEN "rearm"
                                                              ELSE "return"]
<1>1. /\ thread[t] = "react" /\ caller = "idle" /\ caller' = "idle"
      /\ machine' = Reaction(event[t].kind)
      /\ UNCHANGED <<chain, event>>
    BY DEF React
<1>2. OnlyThread(t) /\ chain # 0
    BY <1>1, OneThread DEF OnlyThread
<1>3. ~Found(Attempts, ops, queue)
    BY <1>1 DEF FirstNow
<1>4. CASE machine' = "Waiting" /\ machine # "Waiting"
  <2>1. event[t].kind \notin {"message", "empty"}
      BY <1>1, <1>4 DEF Reaction
  <2>2. /\ stopIOOperations(now) /\ DOMAIN thread = Chains
        /\ \A u \in Chains : \/ now[u] = thread[u]
                             \/ now[u] = "return" /\ ~(u > chain)
    <3>1. t = 1 /\ chain = 1
        BY <1>2 DEF OnlyThread
    <3>2. ~(t > chain)
        BY <3>1
    <3>3. stopIOOperations(now)
        BY <1>4 DEF React
    <3>4. DOMAIN thread = Chains
        BY DEF Control
    <3>5. \A u \in Chains : u # t => now[u] = thread[u]
        BY <3>4
    <3>6. now[t] = "return"
        BY <2>1, <3>4
    <3> HIDE DEF now
    <3>7. ASSUME NEW u \in Chains
          PROVE  \/ now[u] = thread[u]
                 \/ now[u] = "return" /\ ~(u > chain)
      <4>1. CASE u = t
          BY <3>2, <3>6, <4>1
      <4>2. CASE u # t
          BY <3>5, <4>2
      <4> QED  BY <4>1, <4>2
    <3> QED  BY <3>3, <3>4, <3>7
  <2> HIDE DEF now
  <2> QED  BY <1>1, <1>2, <1>4, <2>2, StopFirst
<1>5. CASE ~(machine' = "Waiting" /\ machine # "Waiting")
  <2>1. thread' = now /\ UNCHANGED <<ops, queue>>
      BY <1>5 DEF React, ioVars
  <2>2. thread'[t] = IF event[t].kind \in {"message", "empty"} THEN "rearm"
                                                             ELSE "return"
      BY <2>1 DEF Control
  <2>3. machine' = "Negotiating" => machine = "Negotiating"
      BY <1>1 DEF Reaction
  <2>4. machine' = "Connected" =>
           \/ machine = "Negotiating" /\ event[t].kind = "connected"
           \/ machine = "Connected" /\ event[t].kind # "disconnected"
      BY <1>1 DEF Reaction
  <2>5. machine' \in {"Negotiating", "Connected"} => Unaborted(queue)
      BY <2>3, <2>4 DEF FirstNow
  <2>6. machine' = "Connected" => Found(Reads, ops, queue) \/ Answers(t)'
    <3>1. CASE machine = "Negotiating" /\ event[t].kind = "connected"
        BY <1>1, <3>1 DEF FirstNow
    <3>2. CASE machine = "Connected" /\ event[t].kind \in {"message", "empty"}
        BY <2>2, <3>2 DEF Answers
    <3>3. CASE /\ machine = "Connected"
               /\ event[t].kind \notin {"message", "empty", "disconnected"}
      <4>1. \A u \in Chains : ~Answers(u)
          BY <1>1, <1>2, <3>3 DEF OnlyThread, Answers
      <4> QED  BY <3>3, <4>1 DEF FirstNow
    <3> QED  BY <2>4, <3>1, <3>2, <3>3
  <2>7. /\ ~Found(Attempts, ops', queue') /\ Alone(ops', queue')
        /\ machine' \in {"Negotiating", "Connected"} => Unaborted(queue')
        /\ machine' = "Connected" => Found(Reads, ops', queue') \/ Answers(t)'
      BY <1>3, <2>1, <2>5, <2>6 DEF Alone
  <2>8. OnlyThread(t)' /\ thread'[t] # "react"
    <3>1. \E s : thread' = [thread EXCEPT ![t] = s]
        BY <2>1
    <3>2. UNCHANGED chain /\ caller' \notin {"join", "spawn"}
        BY <1>1
    <3> QED  BY <1>2, <2>2, <3>1, <3>2, ThreadMoves
  <2> HIDE DEF now
  <2> QED  BY <2>7, <2>8, FirstThread
<1> QED  BY <1>4, <1>5

\* The thread receives the next header.
LEMMA RearmFirst ==
    ASSUME chain <= 1, Control, Balanced, FirstNow, NEW t \in Chains,
           Rearm(t)
    PROVE  FirstNow'
<1> DEFINE op == Op("header", event[t].chain, 0)
<1>1. /\ thread[t] = "rearm" /\ UNCHANGED <<machine, chain, caller>>
      /\ thread' = [thread EXCEPT ![t] = "return"]
    BY DEF Rearm
<1>2. /\ ~Found(Attempts, ops, queue)
      /\ machine \in {"Negotiating", "Connected"} => Unaborted(queue)
    BY <1>1 DEF FirstNow
<1>3. OnlyThread(t)' /\ thread'[t] = "return"
    BY <1>1, OneThread, ThreadMoves DEF OnlyThread, Control
<1>4. op \in Operation /\ op.kind \in Reads /\ op.kind \notin Attempts
  <2>1. event[t].chain \in Chains
      BY <1>1, Constants DEF Control, Chains
  <2> QED  BY <2>1, OpIsOperation DEF Op, Reads, Attempts
<1>5. \/ ops' = ops \union {op} /\ queue' = queue
      \/ ops' = ops /\ queue' = Append(queue, Done(op, "error"))
    BY DEF Rearm, StartTransfer
<1> HIDE DEF op
<1>6. /\ ~Found(Attempts, ops', queue') /\ Found(Reads, ops', queue')
      /\ Unaborted(queue) => Unaborted(queue')
    BY <1>2, <1>4, <1>5, BooksTypes, TransferIsNoAttempt
<1>7. Alone(ops', queue')
    BY <1>6 DEF Alone
<1> QED  BY <1>1, <1>2, <1>3, <1>6, <1>7, HandlerFirst

\* The calls that close the connection.
LEMMA CloseFirst ==
    ASSUME chain <= 1, Control, Balanced, FirstNow,
           StartThreadFails \/ DisconnectRequest \/ StopMachine
    PROVE  FirstNow'
<1>1. DOMAIN thread = Chains
    BY DEF Control
<1>2. CASE DisconnectRequest /\ machine = "Waiting"
    BY <1>2, QuietFirst DEF DisconnectRequest, ioVars
<1>3. CASE ~(DisconnectRequest /\ machine = "Waiting")
  <2>1. stopIOOperations(thread) /\ UNCHANGED chain
      BY <1>3 DEF StartThreadFails, DisconnectRequest, StopMachine
  <2>2. caller' \notin {"join", "spawn"}
      BY DEF StartThreadFails, DisconnectRequest, StopMachine
  <2>3. machine' \in {"Waiting", "Terminated"}
      BY <1>3 DEF StartThreadFails, DisconnectRequest, StopMachine, Control,
         CallsInOrder, Destruction
  <2> QED  BY <1>1, <2>1, <2>2, <2>3, StopFirst
<1> QED  BY <1>2, <1>3

LEMMA SendMsgFirst ==
    ASSUME chain <= 1, Control, Balanced, FirstNow, SendMsg
    PROVE  FirstNow'
<1>1. /\ caller = "send" /\ caller' = "idle"
      /\ UNCHANGED <<machine, chain, thread, event>>
    BY DEF SendMsg, threadVars
<1>2. CASE machine # "Connected"
    BY <1>1, <1>2, QuietFirst DEF SendMsg
<1>3. CASE machine = "Connected"
  <2> DEFINE op == Op("write", chain, last_msg_id)
  <2>1. op \in Operation /\ op.kind \notin Attempts
    <3>1. chain \in Chains /\ last_msg_id \in Messages
        BY <1>1, <1>3, Constants DEF Control, CallsInOrder, Chains, Messages
    <3> QED  BY <3>1, OpIsOperation DEF Op, Attempts
  <2>2. \/ ops' = ops \union {op} /\ queue' = queue
        \/ ops' = ops /\ queue' = Append(queue, Done(op, "error"))
      BY <1>3 DEF SendMsg, StartTransfer
  <2> HIDE DEF op
  <2>3. ~Found(Attempts, ops, queue) /\ Unaborted(queue)
      BY <1>3 DEF FirstNow
  <2>4. /\ ~Found(Attempts, ops', queue')
        /\ Found(Reads, ops, queue) => Found(Reads, ops', queue')
        /\ Unaborted(queue')
      BY <2>1, <2>2, <2>3, BooksTypes, TransferIsNoAttempt
  <2>5. Alone(ops', queue')
      BY <2>4 DEF Alone
  <2>6. chain # 0
      BY <1>3 DEF Control, CallsInOrder
  <2>7. \A t \in Chains : Answers(t)' <=> Answers(t)
      BY <1>1 DEF Answers
  <2>8. Found(Reads, ops', queue') \/ \E t \in Chains : Answers(t)'
      BY <1>3, <2>4, <2>7 DEF FirstNow
  <2> QED  BY <1>1, <1>3, <2>4, <2>5, <2>6, <2>8, Zenon DEF FirstNow
<1> QED  BY <1>2, <1>3

LEMMA IoThreadFirst ==
    ASSUME chain <= 1, Control, Balanced, FirstNow, NEW t \in Chains,
           IoThread(t)
    PROVE  FirstNow'
<1>1. CASE ResolveHandler(t)
    BY <1>1, ResolveHandlerFirst
<1>2. CASE ConnectHandler(t)
    BY <1>2, ConnectHandlerFirst
<1>3. CASE HeaderHandler(t) \/ BodyHandler(t) \/ WriteHandler(t)
    BY <1>3, TransferHandlerFirst
<1>4. CASE React(t)
    BY <1>4, ReactFirst
<1>5. CASE EmptyMessage(t) \/ Race(t) \/ ReportsTooLate(t)
  <2>1. BecomesUndefined
      BY <1>5 DEF EmptyMessage, Race, ReportsTooLate
  <2> QED  BY <2>1, UndefinedFirst
<1>6. CASE Rearm(t)
    BY <1>6, RearmFirst
<1>7. CASE RunStarts(t) \/ RunReturns(t) \/ HandlerReturns(t)
    BY <1>7, ThreadFirst
<1> QED  BY <1>1, <1>2, <1>3, <1>4, <1>5, <1>6, <1>7 DEF IoThread

\* Attempts are only counted up.
LEMMA RequestsCount ==
    ASSUME Control, [Next]_vars, chain' <= 1
    PROVE  chain <= 1
<1>1. chain' = chain \/ chain' = chain + 1
    BY DEF Next, User, ConnectToUnparsable, UserCalls, ConnectRequest,
       CatchThread, StartThread, StartThreadFails, SendMsg, DisconnectRequest,
       DestroyNode, Destructors, Terminate, StopMachine, CatchLastThread,
       CountHandlers, AwaitHandlers, WakesSpuriously, Leave, BecomesUndefined,
       Network, ResolveCompletes, ConnectCompletes, TransferCompletes, Over,
       IoThread, RunStarts, RunReturns, ResolveHandler, ConnectHandler,
       HeaderHandler, BodyHandler, WriteHandler, Takes, React, EmptyMessage,
       Race, ReportsTooLate, Rearm, HandlerReturns, vars
<1>2. chain \in Nat
    BY Constants DEF Control
<1> QED  BY <1>1, <1>2

LEMMA NextFirst ==
    ASSUME chain' <= 1, chain <= 1, Control, Balanced, FirstNow, [Next]_vars
    PROVE  FirstNow'
<1>1. CASE User
  <2>1. CASE ConnectToUnparsable \/ UserCalls \/ CatchThread
      BY <2>1, QuietFirst DEF ConnectToUnparsable, UserCalls, CatchThread,
         threadVars, ioVars
  <2>2. CASE ConnectRequest
      BY <2>2, ConnectRequestFirst
  <2>3. CASE StartThread
      BY <2>3, StartThreadFirst
  <2>4. CASE StartThreadFails \/ DisconnectRequest
      BY <2>4, CloseFirst
  <2>5. CASE SendMsg
      BY <2>5, SendMsgFirst
  <2> QED  BY <1>1, <2>1, <2>2, <2>3, <2>4, <2>5 DEF User
<1>2. CASE DestroyNode
    BY <1>2, QuietFirst DEF DestroyNode, threadVars, ioVars
<1>3. CASE Destructors
  <2>1. CASE StopMachine
      BY <2>1, CloseFirst
  <2>2. CASE Leave
    <3>1. CASE BecomesUndefined
        BY <3>1, UndefinedFirst
    <3>2. CASE ~BecomesUndefined
        BY <2>2, <3>2, QuietFirst DEF Leave, threadVars, ioVars
    <3> QED  BY <3>1, <3>2
  <2>3. CASE \/ Terminate \/ CatchLastThread \/ CountHandlers
             \/ AwaitHandlers \/ WakesSpuriously
      BY <2>3, QuietFirst DEF Terminate, CatchLastThread, CountHandlers,
         AwaitHandlers, WakesSpuriously, threadVars, ioVars
  <2> QED  BY <1>3, <2>1, <2>2, <2>3 DEF Destructors
<1>4. CASE Network
    BY <1>4, NetworkFirst
<1>5. CASE \E t \in Chains : IoThread(t)
    BY <1>5, IoThreadFirst
<1>6. CASE UNCHANGED vars
    BY <1>6, QuietFirst DEF vars, threadVars, ioVars
<1> QED  BY <1>1, <1>2, <1>3, <1>4, <1>5, <1>6 DEF Next, Over

LEMMA InitFirst == Init => FirstNow
<1> SUFFICES ASSUME Init PROVE FirstNow
    OBVIOUS
<1>1. /\ ops = {} /\ queue = <<>> /\ machine = "Waiting" /\ caller = "idle"
      /\ \A t \in Chains : thread[t] = "none"
    BY DEF Init
<1>2. Len(queue) = 0 /\ 1..0 = {}
    BY <1>1, EmptySeq
<1>3. ~Found(Attempts, ops, queue)
    BY <1>1, <1>2, Zenon DEF Found
<1> QED  BY <1>1, <1>3 DEF FirstNow, Alone

(* On the first connection the attempt is alone, and each receive is       *)
(* started by the handler of the one before it, until the connection ends. *)
THEOREM FirstConnection == Spec => []FirstConnectionInv
<1>1. FirstConnectionInv <=> (chain <= 1 => FirstNow)
    BY FirstIsNow DEF FirstConnectionInv
<1>2. Init => FirstConnectionInv
    BY <1>1, InitFirst
<1>3. ClientInv /\ FirstConnectionInv /\ [Next]_vars => FirstConnectionInv'
  <2> SUFFICES ASSUME ClientInv, FirstConnectionInv, [Next]_vars, chain' <= 1
               PROVE  FirstNow'
    <3>1. (FirstConnectionInv <=> (chain <= 1 => FirstNow))'
        BY <1>1, PTL
    <3> QED  BY <3>1
  <2>1. Control /\ Balanced
      BY InvIsBalance
  <2>2. chain <= 1
      BY <2>1, RequestsCount
  <2> QED  BY <1>1, <2>1, <2>2, NextFirst
<1> QED  BY <1>2, <1>3, InvAlways, PTL DEF Spec

(* The client reads from its first connection for as long as it is         *)
(* connected: the end of the connection will be noticed.                   *)
THEOREM ConnectionIsRead == Spec => [](chain <= 1 => ConnectedListens)
<1>1. FirstConnectionInv => (chain <= 1 => ConnectedListens)
    BY DEF FirstConnectionInv, ReadsContinue, ConnectedListens
<1> QED  BY <1>1, FirstConnection, PTL
=============================================================================
