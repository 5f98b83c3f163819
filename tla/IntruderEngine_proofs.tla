------------------------ MODULE IntruderEngine_proofs ------------------------
(***************************************************************************)
(* Proofs about IntruderEngine and PayloadDraft, for every configuration,  *)
(* any number of workers and a cancellation at any moment.  First, that    *)
(* whatever the producer enumerates is handed over once; this needs        *)
(* nothing of PayloadJobs.  Then what Count announces, by induction over   *)
(* the payload sets.  Last, what forEachJob enumerates, by the order of    *)
(* the turns of its loops, and so what a run tries.                        *)
(***************************************************************************)
EXTENDS IntruderEngine, PayloadDraft, Induction, FunctionTheorems

\* The parts of TypeOK the proofs use, without the bounds on the numbers, which
\* rest on what the enumeration computes.
Shape ==
  /\ \E S : emitted \in Seq(S)
  /\ worker \in [Workers -> {"absent", "idle", "sending", "answered", "exited"}]
  /\ job \in [Workers -> Nat]
  /\ collected \in Seq(Nat)

\* A worker has a job exactly while it sends and until it is answered, no two have
\* the same, and none has one that was collected.
Hands ==
  /\ \A w \in Workers : job[w] \in 0..Len(emitted)
  /\ \A w \in Workers : job[w] # 0 <=> worker[w] \in {"sending", "answered"}
  /\ \A v, w \in Workers : job[v] = job[w] /\ job[v] # 0 => v = w
  /\ \A w \in Workers : \A k \in 1..Len(collected) : collected[k] # job[w]

\* What was collected had been sent, and only once.
Collections ==
  /\ \A k \in 1..Len(collected) : collected[k] \in 1..Len(emitted)
  /\ \A k, l \in 1..Len(collected) : collected[k] = collected[l] => k = l

\* No job is lost between the channels.
Accounted ==
  \A i \in 1..Len(emitted) :
    (\E w \in Workers : job[w] = i) \/ (\E k \in 1..Len(collected) : collected[k] = i)

IInv == Shape /\ Hands /\ Collections /\ Accounted

LEMMA IInvInit == Init => IInv
<1> SUFFICES ASSUME Init PROVE IInv
  OBVIOUS
<1>1. emitted = <<>> /\ collected = <<>> /\ job = [w \in Workers |-> 0]
  BY DEF Init
<1>2. \A w \in Workers : worker[w] \in {"idle", "absent"}
  BY DEF Init
<1>3. worker \in [Workers -> {"absent", "idle", "sending", "answered", "exited"}]
  BY DEF Init
<1>4. emitted \in Seq({}) /\ Len(emitted) = 0 /\ collected \in Seq(Nat) /\ Len(collected) = 0
  BY <1>1
<1>5. Shape
  BY <1>1, <1>3, <1>4 DEF Shape
<1>6. Hands
  BY <1>1, <1>2, <1>4 DEF Hands
<1>7. Collections /\ Accounted
  BY <1>4 DEF Collections, Accounted
<1> QED
  BY <1>5, <1>6, <1>7 DEF IInv

\* A value appended to a sequence is its last, whatever it is.
LEMMA AppendAny ==
  ASSUME NEW s, NEW e, \E S : s \in Seq(S)
  PROVE  (\E S : Append(s, e) \in Seq(S)) /\ Len(s) \in Nat /\ Len(Append(s, e)) = Len(s) + 1
<1>1. PICK S : s \in Seq(S)
  OBVIOUS
<1>2. s \in Seq(S \cup {e})
  BY <1>1
<1>3. Append(s, e) \in Seq(S \cup {e}) /\ Len(Append(s, e)) = Len(s) + 1 /\ Len(s) \in Nat
  BY <1>2
<1> QED
  BY <1>3

\* The producer's next job gets a number no other job has.
LEMMA FeedKeeps == ASSUME IInv, NEW w \in Workers, Feed(w) PROVE IInv'
<1> DEFINE n == Len(emitted)
<1>1. PICK c \in cursor : emitted' = Append(emitted, Vector(cfg, c))
  BY DEF Feed
<1>2. (\E S : emitted' \in Seq(S)) /\ n \in Nat /\ Len(emitted') = n + 1
  BY <1>1, AppendAny DEF IInv, Shape
<1>3. /\ worker[w] = "idle"
      /\ worker' = [worker EXCEPT ![w] = "sending"]
      /\ job' = [job EXCEPT ![w] = n + 1]
      /\ collected' = collected
  BY <1>2 DEF Feed
<1>4. job[w] = 0
  BY <1>3 DEF IInv, Hands
<1> HIDE DEF n
<1>5. Shape'
  BY <1>2, <1>3 DEF IInv, Shape
<1>6. Len(collected) \in Nat
  BY DEF IInv, Shape
<1>7. \A v \in Workers : job[v] \in 0..n
  BY DEF IInv, Hands, n
<1>8. \A k \in 1..Len(collected) : collected[k] \in 1..n
  BY DEF IInv, Collections, n
<1>9. Hands'
  <2>1. \A v \in Workers : job'[v] = IF v = w THEN n + 1 ELSE job[v]
    BY <1>3 DEF IInv, Shape
  <2>2. \A v \in Workers : worker'[v] = IF v = w THEN "sending" ELSE worker[v]
    BY <1>3 DEF IInv, Shape
  <2>3. (\A v \in Workers : job[v] \in 0..Len(emitted))'
    BY <1>2, <1>7, <2>1
  <2>4. (\A v \in Workers : job[v] # 0 <=> worker[v] \in {"sending", "answered"})'
    BY <1>2, <2>1, <2>2 DEF IInv, Hands
  <2>5. (\A u, v \in Workers : job[u] = job[v] /\ job[u] # 0 => u = v)'
    BY <1>2, <1>7, <2>1 DEF IInv, Hands
  <2>6. (\A v \in Workers : \A k \in 1..Len(collected) : collected[k] # job[v])'
    BY <1>2, <1>3, <1>8, <2>1 DEF IInv, Hands
  <2> QED
    BY <2>3, <2>4, <2>5, <2>6 DEF Hands
<1>10. Collections'
  BY <1>2, <1>3, <1>8 DEF IInv, Collections
<1>11. Accounted'
  <2> SUFFICES ASSUME NEW i \in 1..(n + 1)
               PROVE  \/ \E v \in Workers : job'[v] = i
                      \/ \E k \in 1..Len(collected) : collected[k] = i
    BY <1>2, <1>3 DEF Accounted
  <2>1. CASE i = n + 1
    BY <1>3, <2>1 DEF IInv, Shape
  <2>2. CASE i \in 1..n
    <3>1. (\E v \in Workers : job[v] = i) \/ (\E k \in 1..Len(collected) : collected[k] = i)
      BY <2>2 DEF IInv, Accounted, n
    <3>2. ASSUME NEW v \in Workers, job[v] = i PROVE job'[v] = i
      BY <1>2, <1>3, <1>4, <2>2, <3>2 DEF IInv, Shape
    <3> QED
      BY <3>1, <3>2
  <2> QED
    BY <1>2, <2>1, <2>2
<1> QED
  BY <1>5, <1>9, <1>10, <1>11 DEF IInv

\* A result passes from the worker that has it to the caller.
LEMMA CollectKeeps == ASSUME IInv, NEW w \in Workers, Collect(w) PROVE IInv'
<1> DEFINE m == Len(collected)
           x == job[w]
<1>1. /\ worker[w] = "answered"
      /\ worker' = [worker EXCEPT ![w] = "idle"]
      /\ job' = [job EXCEPT ![w] = 0]
      /\ collected' = Append(collected, x)
      /\ emitted' = emitted
  BY DEF Collect
<1>2. x \in Nat /\ x # 0 /\ x \in 1..Len(emitted) /\ Len(emitted) \in Nat
  <2>1. Len(emitted) \in Nat
    BY DEF IInv, Shape
  <2> QED
    BY <1>1, <2>1 DEF IInv, Shape, Hands
<1>3. collected \in Seq(Nat) /\ m \in Nat
  BY DEF IInv, Shape
<1>4. /\ collected' \in Seq(Nat)
      /\ Len(collected') = m + 1
      /\ \A k \in 1..m : collected'[k] = collected[k]
      /\ collected'[m + 1] = x
  BY <1>1, <1>2, <1>3
<1>5. \A k \in 1..m : collected[k] # x
  BY DEF IInv, Hands
<1> HIDE DEF m, x
<1>6. Shape'
  BY <1>1, <1>4 DEF IInv, Shape
<1>7. \A v \in Workers : job'[v] = IF v = w THEN 0 ELSE job[v]
  BY <1>1 DEF IInv, Shape
<1>8. Hands'
  <2>1. \A v \in Workers : worker'[v] = IF v = w THEN "idle" ELSE worker[v]
    BY <1>1 DEF IInv, Shape
  <2>2. (\A v \in Workers : job[v] \in 0..Len(emitted))'
    BY <1>1, <1>2, <1>7 DEF IInv, Hands
  <2>3. (\A v \in Workers : job[v] # 0 <=> worker[v] \in {"sending", "answered"})'
    BY <1>7, <2>1 DEF IInv, Hands
  <2>4. (\A u, v \in Workers : job[u] = job[v] /\ job[u] # 0 => u = v)'
    BY <1>7 DEF IInv, Hands
  <2>5. (\A v \in Workers : \A k \in 1..Len(collected) : collected[k] # job[v])'
    <3> SUFFICES ASSUME NEW v \in Workers, NEW k \in 1..(m + 1)
                 PROVE  collected'[k] # job'[v]
      BY <1>4
    <3>1. CASE k = m + 1
      BY <1>2, <1>4, <1>7, <3>1 DEF IInv, Hands, x
    <3>2. CASE k \in 1..m
      <4>1. collected'[k] = collected[k] /\ collected[k] # job[v]
        BY <1>4, <3>2 DEF IInv, Hands, m
      <4>2. collected[k] # 0
        BY <1>2, <3>2 DEF IInv, Collections, m
      <4> QED
        BY <1>7, <4>1, <4>2
    <3> QED
      BY <1>3, <3>1, <3>2
  <2> QED
    BY <2>2, <2>3, <2>4, <2>5 DEF Hands
<1>9. Collections'
  <2>1. \A k \in 1..(m + 1) : k \in 1..m \/ k = m + 1
    BY <1>3
  <2>2. (\A k \in 1..Len(collected) : collected[k] \in 1..Len(emitted))'
    BY <1>1, <1>2, <1>4, <2>1 DEF IInv, Collections, m
  <2>3. (\A k, l \in 1..Len(collected) : collected[k] = collected[l] => k = l)'
    BY <1>4, <1>5, <2>1 DEF IInv, Collections, m
  <2> QED
    BY <2>2, <2>3 DEF Collections
<1>10. Accounted'
  <2> SUFFICES ASSUME NEW i \in 1..Len(emitted)
               PROVE  \/ \E v \in Workers : job'[v] = i
                      \/ \E k \in 1..(m + 1) : collected'[k] = i
    BY <1>1, <1>4 DEF Accounted
  <2>1. CASE i = x
    BY <1>3, <1>4, <2>1
  <2>2. ASSUME NEW v \in Workers, job[v] = i, i # x PROVE job'[v] = i
    BY <1>7, <2>2 DEF x
  <2>3. ASSUME NEW k \in 1..m, collected[k] = i PROVE k \in 1..(m + 1) /\ collected'[k] = i
    BY <1>3, <1>4, <2>3
  <2> QED
    BY <2>1, <2>2, <2>3 DEF IInv, Accounted, m
<1> QED
  BY <1>6, <1>8, <1>9, <1>10 DEF IInv

\* No other step touches a job's index or the results.
LEMMA OthersKeep ==
  ASSUME IInv, UNCHANGED <<emitted, job, collected>>,
         worker' \in [Workers -> {"absent", "idle", "sending", "answered", "exited"}],
         \A w \in Workers : worker'[w] \in {"sending", "answered"}
                              <=> worker[w] \in {"sending", "answered"}
  PROVE  IInv'
BY DEF IInv, Shape, Hands, Collections, Accounted

LEMMA IInvStep == IInv /\ [Next]_vars => IInv'
<1> SUFFICES ASSUME IInv, [Next]_vars PROVE IInv'
  OBVIOUS
<1> USE DEF IInv, Shape
<1>1. ASSUME NEW w \in Workers, Feed(w) PROVE IInv'
  BY <1>1, FeedKeeps
<1>2. ASSUME NEW w \in Workers, Collect(w) PROVE IInv'
  BY <1>2, CollectKeeps
<1>3. ASSUME NEW w \in Workers, Answer(w) PROVE IInv'
  BY <1>3, OthersKeep DEF Answer
<1>4. ASSUME NEW w \in Workers, WorkerExits(w) PROVE IInv'
  BY <1>4, OthersKeep DEF WorkerExits
<1>5. CASE Cancel \/ ProducerStops \/ ProducerEnds \/ Return
  <2>1. UNCHANGED <<emitted, job, collected, worker>>
    BY <1>5 DEF Cancel, ProducerStops, ProducerEnds, Return
  <2> QED
    BY <2>1, OthersKeep
<1>6. CASE UNCHANGED vars
  BY <1>6, OthersKeep DEF vars
<1> QED
  BY <1>1, <1>2, <1>3, <1>4, <1>5, <1>6 DEF Next, WorkerStep

LEMMA Invariant == Spec => []IInv
BY IInvInit, IInvStep, PTL DEF Spec

\* The two sets counted by EveryJobIsAccounted have one member between them.
LEMMA InOnePlace == ASSUME IInv PROVE EveryJobIsAccounted
<1> SUFFICES ASSUME NEW i \in 1..Len(emitted)
             PROVE  Cardinality({w \in Workers : job[w] = i})
                      + Cardinality({k \in 1..Len(collected) : collected[k] = i}) = 1
  BY DEF EveryJobIsAccounted
<1> DEFINE W == {w \in Workers : job[w] = i}
           K == {k \in 1..Len(collected) : collected[k] = i}
<1>0. Len(emitted) \in Nat /\ i # 0
  BY DEF IInv, Shape
<1>1. CASE \E w \in Workers : job[w] = i
  <2>1. PICK w \in Workers : job[w] = i
    BY <1>1
  <2>2. W = {w}
    BY <1>0, <2>1 DEF IInv, Hands
  <2>3. K = {}
    BY <2>1 DEF IInv, Hands
  <2>4. Cardinality(W) = 1 /\ Cardinality(K) = 0
    BY <2>2, <2>3, FS_EmptySet, FS_Singleton
  <2> QED
    BY <2>4
<1>2. CASE ~\E w \in Workers : job[w] = i
  <2>1. W = {}
    BY <1>2
  <2>2. PICK k \in 1..Len(collected) : collected[k] = i
    BY <1>2 DEF IInv, Accounted
  <2>3. K = {k}
    BY <2>2 DEF IInv, Collections
  <2>4. Cardinality(W) = 0 /\ Cardinality(K) = 1
    BY <2>1, <2>3, FS_EmptySet, FS_Singleton
  <2> QED
    BY <2>4
<1> QED
  BY <1>1, <1>2

\* Every job that left the producer is with exactly one worker or was collected
\* exactly once (the loops of the workers and of the caller in Engine.Run).
THEOREM JobsAreAccounted == Spec => []EveryJobIsAccounted
BY Invariant, InOnePlace, PTL

-----------------------------------------------------------------------------

\* After Run has returned no worker moves again.
Over == returned => \A w \in Workers : worker[w] \in {"absent", "exited"}

LEMMA OverStep == IInv /\ Over /\ [Next]_vars => Over'
<1> SUFFICES ASSUME IInv, Over, [Next]_vars PROVE Over'
  OBVIOUS
<1> USE DEF IInv, Shape, Over
<1>1. ASSUME NEW w \in Workers, WorkerStep(w) PROVE Over'
  <2>1. worker[w] \notin {"absent", "exited"} /\ returned' = returned
    BY <1>1 DEF WorkerStep, Feed, Answer, Collect, WorkerExits
  <2> QED
    BY <2>1
<1>2. CASE Cancel \/ ProducerStops \/ ProducerEnds
  BY <1>2 DEF Cancel, ProducerStops, ProducerEnds
<1>3. CASE Return
  BY <1>3 DEF Return
<1>4. CASE UNCHANGED vars
  BY <1>4 DEF vars
<1> QED
  BY <1>1, <1>2, <1>3, <1>4 DEF Next

\* Once no worker has a job, the results are the jobs sent, in another order.
LEMMA AllCollected ==
  ASSUME IInv, \A w \in Workers : worker[w] \in {"absent", "exited"}
  PROVE  Len(collected) = Len(emitted)
<1> DEFINE m == Len(collected)
           n == Len(emitted)
           f == [k \in 1..m |-> collected[k]]
<1>1. m \in Nat /\ n \in Nat
  BY DEF IInv, Shape
<1>2. \A k \in 1..m : collected[k] \in 1..n
  BY DEF IInv, Collections
<1>3. \A k, l \in 1..m : collected[k] = collected[l] => k = l
  BY DEF IInv, Collections
<1>4. \A i \in 1..n : \E k \in 1..m : collected[k] = i
  <2>1. \A w \in Workers : job[w] = 0
    BY DEF IInv, Hands
  <2> QED
    BY <1>1, <2>1 DEF IInv, Accounted
<1> HIDE DEF m, n
<1>5. f \in Bijection(1..m, 1..n)
  <2>1. f \in [1..m -> 1..n]
    BY <1>2
  <2>2. \A a, b \in 1..m : f[a] = f[b] => a = b
    BY <1>3
  <2>3. \A t \in 1..n : \E k \in 1..m : f[k] = t
    BY <1>4
  <2> HIDE DEF f
  <2> QED
    BY <2>1, <2>2, <2>3, Fun_IsBij
<1>6. ExistsBijection(1..m, 1..n)
  BY <1>5, Fun_ExistsBij
<1>7. ExistsBijection(1..n, 1..n)
  BY Fun_ExistsBijReflexive
<1>8. m = n
  BY <1>1, <1>6, <1>7, Fun_NatBijSame
<1> QED
  BY <1>8 DEF m, n

\* When Run returns, however it was cancelled, its workers are gone and it has
\* passed on the result of every request they sent.
THEOREM ReturnsClean == Spec => []ReturnIsClean
<1>1. Init => Over
  BY DEF Init, Over
<1>2. IInv /\ Over => ReturnIsClean
  BY AllCollected DEF Over, ReturnIsClean
<1> QED
  BY Invariant, OverStep, <1>1, <1>2, PTL DEF Spec
-----------------------------------------------------------------------------
(* What the nested loops of forEachJob run through.                        *)

\* The values of the first m loop counters, each within its bound.
BoxTo(b, m) == {c \in [1..m -> Nat] : \A i \in 1..m : c[i] \in 1..b[i]}
Box(b) == BoxTo(b, Len(b))

LEMMA IsSeq == ASSUME NEW n \in Nat, NEW c \in [1..n -> Nat] PROVE c \in Seq(Nat) /\ Len(c) = n
  OBVIOUS

LEMMA BoxOfNone == \A b : IsFiniteSet(BoxTo(b, 0)) /\ Cardinality(BoxTo(b, 0)) = 1
<1> SUFFICES ASSUME NEW b PROVE IsFiniteSet(BoxTo(b, 0)) /\ Cardinality(BoxTo(b, 0)) = 1
  OBVIOUS
<1> DEFINE e == [i \in 1..0 |-> 0]
<1>1. BoxTo(b, 0) = {e}
  <2>1. e \in [1..0 -> Nat] /\ \A i \in 1..0 : FALSE
    OBVIOUS
  <2>2. \A c \in [1..0 -> Nat] : c = e
    OBVIOUS
  <2> HIDE DEF e
  <2> QED
    BY <2>1, <2>2 DEF BoxTo
<1> HIDE DEF e
<1> QED
  BY <1>1, FS_Singleton

\* One more loop around them.
LEMMA BoxOfOneMore ==
  ASSUME NEW b \in Seq(Nat), NEW m \in Nat, m + 1 <= Len(b), IsFiniteSet(BoxTo(b, m))
  PROVE  /\ IsFiniteSet(BoxTo(b, m + 1))
         /\ Cardinality(BoxTo(b, m + 1)) = Cardinality(BoxTo(b, m)) * b[m + 1]
<1> DEFINE A == BoxTo(b, m)
           k == b[m + 1]
           S == A \X (1..k)
           Put(x, v) == [i \in 1..(m + 1) |-> IF i = m + 1 THEN v ELSE x[i]]
           f == [q \in S |-> Put(q[1], q[2])]
<1>1. k \in Nat
  OBVIOUS
<1> HIDE DEF k
<1>2. IsFiniteSet(1..k) /\ Cardinality(1..k) = k
  BY <1>1, UpTo
<1>3. IsFiniteSet(S) /\ Cardinality(S) = Cardinality(A) * k
  BY <1>2, FS_Product
<1>4. ASSUME NEW x \in A, NEW v \in 1..k
      PROVE  Put(x, v) \in BoxTo(b, m + 1)
  <2>1. x \in [1..m -> Nat] /\ \A i \in 1..m : x[i] \in 1..b[i]
    BY <1>4 DEF BoxTo
  <2>2. v \in Nat /\ v \in 1..b[m + 1]
    BY <1>1, <1>4 DEF k
  <2>3. \A i \in 1..(m + 1) : i = m + 1 \/ i \in 1..m
    OBVIOUS
  <2>4. Put(x, v) \in [1..(m + 1) -> Nat]
    BY <2>1, <2>2, <2>3
  <2>5. \A i \in 1..(m + 1) : Put(x, v)[i] \in 1..b[i]
    BY <2>1, <2>2, <2>3
  <2> QED
    BY <2>4, <2>5 DEF BoxTo
<1>5. ASSUME NEW x \in A, NEW y \in A, NEW v, NEW u, Put(x, v) = Put(y, u)
      PROVE  x = y /\ v = u
  <2>1. \A i \in 1..(m + 1) : Put(x, v)[i] = Put(y, u)[i]
    BY <1>5
  <2>2. v = u
    BY <2>1
  <2>3. \A i \in 1..m : x[i] = y[i]
    BY <2>1
  <2>4. x \in [1..m -> Nat] /\ y \in [1..m -> Nat]
    BY DEF BoxTo
  <2> HIDE DEF A
  <2>5. x = y
    BY <2>3, <2>4
  <2> QED
    BY <2>2, <2>5
<1>6. ASSUME NEW z \in BoxTo(b, m + 1)
      PROVE  \E x \in A : \E v \in 1..k : z = Put(x, v)
  <2> DEFINE x == [i \in 1..m |-> z[i]]
  <2>1. z \in [1..(m + 1) -> Nat] /\ \A i \in 1..(m + 1) : z[i] \in 1..b[i]
    BY <1>6 DEF BoxTo
  <2>2. x \in A /\ z[m + 1] \in 1..k
    BY <2>1 DEF BoxTo, k
  <2>3. z = Put(x, z[m + 1])
    BY <2>1
  <2> QED
    BY <2>2, <2>3
<1> HIDE DEF Put, A
<1>7. \A q \in S : q = <<q[1], q[2]>> /\ q[1] \in A /\ q[2] \in 1..k
  OBVIOUS
<1>8. f \in [S -> BoxTo(b, m + 1)]
  BY <1>4, <1>7
<1>9. \A q, r \in S : f[q] = f[r] => q = r
  <2> SUFFICES ASSUME NEW q \in S, NEW r \in S, f[q] = f[r] PROVE q = r
    OBVIOUS
  <2>1. Put(q[1], q[2]) = Put(r[1], r[2])
    OBVIOUS
  <2> QED
    BY <1>5, <1>7, <2>1
<1>10. \A z \in BoxTo(b, m + 1) : \E q \in S : f[q] = z
  <2> SUFFICES ASSUME NEW z \in BoxTo(b, m + 1) PROVE \E q \in S : f[q] = z
    OBVIOUS
  <2>1. PICK x \in A, v \in 1..k : z = Put(x, v)
    BY <1>6
  <2>2. <<x, v>> \in S /\ f[<<x, v>>] = z
    BY <2>1
  <2> QED
    BY <2>2
<1> HIDE DEF f, S
<1>11. IsFiniteSet(BoxTo(b, m + 1)) /\ Cardinality(BoxTo(b, m + 1)) = Cardinality(S)
  BY <1>3, <1>8, <1>9, <1>10, SameSize
<1> QED
  BY <1>3, <1>11 DEF A, k

LEMMA BoxesAreFinite ==
  ASSUME NEW b \in Seq(Nat)
  PROVE  \A m \in 0..Len(b) : IsFiniteSet(BoxTo(b, m)) /\ Cardinality(BoxTo(b, m)) \in Nat
<1> DEFINE T == {m \in Nat : m <= Len(b) => IsFiniteSet(BoxTo(b, m))}
<1>1. 0 \in T
  BY BoxOfNone
<1>2. ASSUME NEW m \in Nat, m \in T PROVE m + 1 \in T
  BY <1>2, BoxOfOneMore
<1>3. \A m \in Nat : m \in T
  <2> HIDE DEF T
  <2> QED
    BY <1>1, <1>2, Induct
<1> QED
  BY <1>3, FS_CardinalityType

\* The product of Count, one turn of its loop at a time.

\* One turn of the loop of product.
ProductStep(conf, g, i) ==
  IF i = 0 THEN 1
  ELSE LET t == g[i - 1]
           n == conf.sets[i]
       IN IF t = 0 \/ t > MaxJobs THEN t
          ELSE IF n = 0 THEN 0
          ELSE IF t > MaxJobs \div n THEN MaxJobs + 1
          ELSE t * n

LEMMA SlotsFit ==
  ASSUME NEW conf, IsConfig(conf)
  PROVE  /\ Positions(conf) \in Nat /\ Slots(conf) \in Nat
         /\ Slots(conf) <= Len(conf.sets) /\ Slots(conf) <= Positions(conf)
         /\ \A i \in 1..Slots(conf) : conf.sets[i] \in Nat
  BY DEF IsConfig, Positions, Slots

LEMMA ProductExists ==
  ASSUME NEW conf, NEW N \in Nat
  PROVE  \E g : g = [i \in 0..N |-> ProductStep(conf, g, i)]
<1> DEFINE Solved(m) == \E g : /\ g = [i \in 0..N |-> g[i]]
                               /\ \A i \in 0..N : i <= m => g[i] = ProductStep(conf, g, i)
           T == {m \in Nat : Solved(m)}
<1>1. 0 \in T
  <2> DEFINE g == [i \in 0..N |-> 1]
  <2>1. g = [i \in 0..N |-> g[i]] /\ \A i \in 0..N : i <= 0 => g[i] = ProductStep(conf, g, i)
    BY DEF ProductStep
  <2> QED
    BY <2>1
<1>2. ASSUME NEW m \in Nat, m \in T PROVE m + 1 \in T
  <2>1. PICK g : /\ g = [i \in 0..N |-> g[i]]
                 /\ \A i \in 0..N : i <= m => g[i] = ProductStep(conf, g, i)
    BY <1>2
  <2> DEFINE h == [i \in 0..N |-> IF i <= m THEN g[i] ELSE ProductStep(conf, g, i)]
  <2>2. ASSUME NEW i \in 0..N, i <= m + 1 PROVE h[i] = ProductStep(conf, h, i)
    <3>1. h[i] = ProductStep(conf, g, i)
      BY <2>1
    <3>2. CASE i = 0
      BY <3>1, <3>2 DEF ProductStep
    <3>3. CASE i # 0
      <4>1. h[i - 1] = g[i - 1]
        BY <2>2, <3>3
      <4> HIDE DEF h
      <4> QED
        BY <3>1, <3>3, <4>1 DEF ProductStep
    <3> QED
      BY <3>2, <3>3
  <2>3. h = [i \in 0..N |-> h[i]]
    OBVIOUS
  <2> HIDE DEF h
  <2>4. Solved(m + 1)
    BY <2>2, <2>3
  <2> HIDE DEF Solved
  <2> QED
    BY <2>4
<1> HIDE DEF T
<1>3. N \in T
  BY <1>1, <1>2, Induct
<1>4. PICK g : /\ g = [i \in 0..N |-> g[i]]
               /\ \A i \in 0..N : i <= N => g[i] = ProductStep(conf, g, i)
  BY <1>3 DEF T
<1>5. g = [i \in 0..N |-> ProductStep(conf, g, i)]
  BY <1>4
<1> QED
  BY <1>5

LEMMA DivIsFloor ==
  ASSUME NEW M \in Nat, NEW n \in Nat, n # 0, NEW t \in Nat
  PROVE  t > M \div n <=> t * n > M
OBVIOUS

\* The product of the bounds, as far as it is computed.
LEMMA ProductIsRight ==
  ASSUME NEW conf, IsConfig(conf), Slots(conf) # 0, NEW b \in Seq(Nat),
         Len(b) = Slots(conf), \A i \in 1..Len(b) : b[i] = conf.sets[i]
  PROVE  /\ product(conf) \in Nat
         /\ product(conf) <= MaxJobs => product(conf) = Cardinality(Box(b))
         /\ product(conf) > MaxJobs /\ (\A i \in 1..Slots(conf) : conf.sets[i] > 0)
              => Cardinality(Box(b)) > MaxJobs
<1> DEFINE N == Slots(conf)
           g == CHOOSE h : h = [i \in 0..N |-> ProductStep(conf, h, i)]
           Size(m) == Cardinality(BoxTo(b, m))
           Right(m) == /\ g[m] \in Nat
                       /\ g[m] <= MaxJobs => g[m] = Size(m)
                       /\ g[m] > MaxJobs /\ (\A i \in 1..N : b[i] > 0) => Size(m) > MaxJobs
           T == {m \in Nat : m <= N => Right(m)}
<1>1. N \in Nat /\ MaxJobs \in Nat /\ MaxJobs # 0
  BY SlotsFit, JobsAssumption
<1>2. g = [i \in 0..N |-> ProductStep(conf, g, i)]
  BY <1>1, ProductExists
<1>3. product(conf) = g[N]
  BY DEF product, ProductStep
<1> HIDE DEF g, N
<1>4. \A m \in 0..N : Size(m) \in Nat /\ IsFiniteSet(BoxTo(b, m))
  BY BoxesAreFinite DEF N
<1>5. ASSUME NEW m \in Nat, m + 1 <= N PROVE Size(m + 1) = Size(m) * b[m + 1]
  <2>1. IsFiniteSet(BoxTo(b, m)) /\ m + 1 <= Len(b)
    BY <1>1, <1>4, <1>5 DEF N
  <2> QED
    BY <2>1, BoxOfOneMore
<1>6. 0 \in T
  <2>1. g[0] = 1 /\ Size(0) = 1
    BY <1>1, <1>2, BoxOfNone DEF ProductStep
  <2> HIDE DEF Size
  <2> QED
    BY <1>1, <2>1
<1>7. ASSUME NEW m \in Nat, m \in T PROVE m + 1 \in T
  <2> SUFFICES ASSUME m + 1 <= N PROVE Right(m + 1)
    OBVIOUS
  <2> HIDE DEF Size
  <2> DEFINE t == g[m]
             n == b[m + 1]
             s == Size(m)
             full == \A i \in 1..N : b[i] > 0
  <2>1. t \in Nat /\ (t <= MaxJobs => t = s) /\ (t > MaxJobs /\ full => s > MaxJobs)
    BY <1>1, <1>7
  <2>2. n \in Nat /\ n = conf.sets[m + 1]
    BY <1>1 DEF N
  <2>3. g[m + 1] = IF t = 0 \/ t > MaxJobs THEN t
                   ELSE IF n = 0 THEN 0
                   ELSE IF t > MaxJobs \div n THEN MaxJobs + 1
                   ELSE t * n
    <3>1. m + 1 \in 0..N /\ m + 1 # 0 /\ m + 1 - 1 = m
      BY <1>1
    <3>2. g[m + 1] = ProductStep(conf, g, m + 1)
      BY <1>2, <3>1
    <3> HIDE DEF n
    <3> QED
      BY <2>2, <3>1, <3>2 DEF ProductStep
  <2>4. Size(m + 1) = s * n /\ s \in Nat
    BY <1>1, <1>4, <1>5
  <2>5. full => n > 0
    BY <1>1
  <2> DEFINE u == g[m + 1]
  <2>6. u \in Nat /\ (u <= MaxJobs => u = s * n) /\ (u > MaxJobs /\ full => s * n > MaxJobs)
    <3> HIDE DEF t, n, s, full, u
    <3>1. CASE t = 0
      <4>1. u = 0 /\ s * n = 0
        BY <1>1, <2>1, <2>2, <2>3, <2>4, <3>1 DEF u
      <4> QED
        BY <1>1, <4>1
    <3>2. CASE t > MaxJobs
      <4>1. u = t
        BY <2>3, <3>2 DEF u
      <4>2. s > MaxJobs /\ n > 0 => s * n > MaxJobs
        <5> SUFFICES ASSUME s > MaxJobs, n > 0 PROVE s * n > MaxJobs
          OBVIOUS
        <5> DEFINE v == s * (n - 1)
        <5>0. n - 1 \in Nat /\ n \in Int /\ s \in Int
          BY <2>2, <2>4
        <5>1. v \in Nat /\ s * n = v + s
          <6>1. v \in Nat
            BY <2>4, <5>0
          <6>2. s * n = v + s
            BY <5>0
          <6> QED
            BY <6>1, <6>2
        <5> HIDE DEF v
        <5> QED
          BY <1>1, <2>4, <5>1
      <4> QED
        BY <1>1, <2>1, <2>5, <3>2, <4>1, <4>2
    <3>3. CASE t # 0 /\ t <= MaxJobs
      <4>1. CASE n = 0
        <5>1. u = 0 /\ s * n = 0
          BY <1>1, <2>1, <2>2, <2>3, <2>4, <3>3, <4>1 DEF u
        <5> QED
          BY <1>1, <5>1
      <4>2. CASE n # 0
        <5>1. t > MaxJobs \div n <=> t * n > MaxJobs
          BY <1>1, <2>1, <2>2, <4>2, DivIsFloor
        <5>2. u = IF t * n > MaxJobs THEN MaxJobs + 1 ELSE t * n
          BY <2>1, <1>1, <2>3, <3>3, <4>2, <5>1 DEF u
        <5>3. t * n \in Nat /\ t = s
          BY <2>1, <2>2, <3>3
        <5> QED
          BY <1>1, <5>2, <5>3
      <4> QED
        BY <4>1, <4>2
    <3> QED
      BY <1>1, <2>1, <3>1, <3>2, <3>3
  <2> QED
    BY <2>4, <2>6
<1>8. N \in T
  <2> HIDE DEF T
  <2> QED
    BY <1>1, <1>6, <1>7, Induct
<1> QED
  BY <1>1, <1>3, <1>8 DEF Box, N

LEMMA BoxOfOne ==
  ASSUME NEW b \in Seq(Nat), 1 <= Len(b)
  PROVE  IsFiniteSet(BoxTo(b, 1)) /\ Cardinality(BoxTo(b, 1)) = b[1]
<1>1. IsFiniteSet(BoxTo(b, 0)) /\ Cardinality(BoxTo(b, 0)) = 1
  BY BoxOfNone
<1>2. IsFiniteSet(BoxTo(b, 0 + 1)) /\ Cardinality(BoxTo(b, 0 + 1)) = Cardinality(BoxTo(b, 0)) * b[0 + 1]
  <2>1. 0 + 1 <= Len(b)
    OBVIOUS
  <2> QED
    BY <1>1, <2>1, BoxOfOneMore
<1>3. 0 + 1 = 1 /\ b[1] \in Nat
  OBVIOUS
<1> QED
  BY <1>1, <1>2, <1>3

LEMMA BoxOfTwo ==
  ASSUME NEW b \in Seq(Nat), 2 <= Len(b)
  PROVE  IsFiniteSet(BoxTo(b, 2)) /\ Cardinality(BoxTo(b, 2)) = b[1] * b[2]
<1>0. 1 <= Len(b) /\ 1 + 1 <= Len(b) /\ 1 + 1 = 2
  OBVIOUS
<1>1. IsFiniteSet(BoxTo(b, 1)) /\ Cardinality(BoxTo(b, 1)) = b[1]
  BY <1>0, BoxOfOne
<1>2. IsFiniteSet(BoxTo(b, 1 + 1)) /\ Cardinality(BoxTo(b, 1 + 1)) = Cardinality(BoxTo(b, 1)) * b[1 + 1]
  BY <1>0, <1>1, BoxOfOneMore
<1> QED
  BY <1>0, <1>1, <1>2

\* lockstepLen is the length of one of the sets in use, and of no longer one.
LEMMA LockstepIsLeast ==
  ASSUME NEW conf, IsConfig(conf), Slots(conf) # 0
  PROVE  /\ lockstepLen(conf) \in Nat
         /\ \E i \in 1..Slots(conf) : lockstepLen(conf) = conf.sets[i]
         /\ \A i \in 1..Slots(conf) : lockstepLen(conf) <= conf.sets[i]
<1> DEFINE D == {conf.sets[i] : i \in 1..Slots(conf)}
<1>1. D \in SUBSET Nat
  BY SlotsFit
<1>2. D # {}
  <2>1. 1 \in 1..Slots(conf)
    BY SlotsFit
  <2> QED
    BY <2>1
<1>3. \E n \in D : \A k \in D : n <= k
  <2> HIDE DEF D
  <2> QED
    BY <1>1, <1>2, LeastOf
<1>4. \E n \in D : \A i \in 1..Slots(conf) : n <= conf.sets[i]
  BY <1>3
<1>5. lockstepLen(conf) = CHOOSE n \in D : \A i \in 1..Slots(conf) : n <= conf.sets[i]
  BY DEF lockstepLen
<1>6. lockstepLen(conf) \in D /\ \A i \in 1..Slots(conf) : lockstepLen(conf) <= conf.sets[i]
  <2> HIDE DEF D
  <2> QED
    BY <1>4, <1>5
<1> QED
  BY <1>1, <1>6

\* What the checks of Validate before Count establish.
Plausible(conf) ==
  /\ IsConfig(conf) /\ conf.type \in AttackType
  /\ Positions(conf) # 0 /\ conf.sets # <<>>

LEMMA PlausibleSlots ==
  ASSUME NEW conf, Plausible(conf)
  PROVE  /\ Positions(conf) \in Nat /\ Slots(conf) \in Nat /\ Slots(conf) # 0
         /\ Slots(conf) <= Len(conf.sets) /\ Slots(conf) <= Positions(conf)
         /\ \A i \in 1..Slots(conf) : conf.sets[i] \in Nat
<1>1. Len(conf.sets) \in Nat /\ Len(conf.sets) # 0
  BY DEF Plausible, IsConfig
<1> QED
  BY <1>1, SlotsFit DEF Plausible, Slots

\* Count announces as many requests as the loops of forEachJob have turns, as
\* far as that is no more than MaxJobs.
LEMMA CountsTurns ==
  ASSUME NEW conf, Plausible(conf)
  PROVE  /\ Bounds(conf) \in Seq(Nat) /\ Count(conf) \in Nat
         /\ IsFiniteSet(Box(Bounds(conf)))
         /\ Count(conf) <= MaxJobs => Count(conf) = Cardinality(Box(Bounds(conf)))
         /\ Count(conf) > MaxJobs /\ (\A i \in 1..Slots(conf) : conf.sets[i] > 0)
              => Cardinality(Box(Bounds(conf))) > MaxJobs
<1> DEFINE b == Bounds(conf)
           C == Count(conf)
           S == Slots(conf)
           P == Positions(conf)
<1>0. MaxJobs \in Nat
  BY JobsAssumption
<1>1. P \in Nat /\ S \in Nat /\ S # 0 /\ 1 \in 1..S /\ \A i \in 1..S : conf.sets[i] \in Nat
  BY PlausibleSlots
<1>2. P # 0 /\ conf.sets # <<>>
  BY DEF Plausible
<1>3. CASE conf.type = "sniper"
  <2>1. b = <<P, conf.sets[1]>> /\ C = P * conf.sets[1]
    BY <1>2, <1>3 DEF Bounds, Count
  <2> HIDE DEF b, C, P
  <2>2. b \in Seq(Nat) /\ Len(b) = 2 /\ b[1] = P /\ b[2] = conf.sets[1]
    BY <1>1, <2>1
  <2>3. IsFiniteSet(Box(b)) /\ Cardinality(Box(b)) = C
    <3>1. IsFiniteSet(BoxTo(b, 2)) /\ Cardinality(BoxTo(b, 2)) = b[1] * b[2]
      <4>1. 2 <= Len(b) /\ b \in Seq(Nat)
        BY <2>2
      <4> QED
        BY <4>1, BoxOfTwo
    <3> QED
      BY <2>1, <2>2, <3>1 DEF Box
  <2>4. C \in Nat
    BY <1>1, <2>1
  <2> QED
    BY <2>2, <2>3, <2>4 DEF b, C
<1>4. CASE conf.type = "battering_ram"
  <2>1. b = <<conf.sets[1]>> /\ C = conf.sets[1]
    BY <1>2, <1>4 DEF Bounds, Count
  <2> HIDE DEF b, C
  <2>2. b \in Seq(Nat) /\ Len(b) = 1 /\ b[1] = C /\ C \in Nat
    BY <1>1, <2>1
  <2>3. IsFiniteSet(Box(b)) /\ Cardinality(Box(b)) = C
    BY <2>2, BoxOfOne DEF Box
  <2> QED
    BY <2>2, <2>3 DEF b, C
<1>5. CASE conf.type = "pitchfork"
  <2>1. b = <<lockstepLen(conf)>> /\ C = lockstepLen(conf)
    BY <1>2, <1>5 DEF Bounds, Count
  <2>2. C \in Nat
    BY <1>1, <2>1, LockstepIsLeast DEF Plausible
  <2> HIDE DEF b, C
  <2>3. b \in Seq(Nat) /\ Len(b) = 1 /\ b[1] = C
    BY <2>1, <2>2
  <2>4. IsFiniteSet(Box(b)) /\ Cardinality(Box(b)) = C
    BY <2>3, BoxOfOne DEF Box
  <2> QED
    BY <2>2, <2>3, <2>4 DEF b, C
<1>6. CASE conf.type = "cluster_bomb"
  <2>1. b = [i \in 1..S |-> conf.sets[i]] /\ C = product(conf)
    BY <1>2, <1>6 DEF Bounds, Count
  <2> HIDE DEF b, C
  <2>2. b \in Seq(Nat) /\ Len(b) = S /\ \A i \in 1..Len(b) : b[i] = conf.sets[i]
    BY <1>1, <2>1
  <2>3. IsFiniteSet(Box(b))
    BY <2>2, BoxesAreFinite DEF Box
  <2>4. /\ C \in Nat
        /\ C <= MaxJobs => C = Cardinality(Box(b))
        /\ C > MaxJobs /\ (\A i \in 1..Slots(conf) : conf.sets[i] > 0)
             => Cardinality(Box(b)) > MaxJobs
    <3>1. IsConfig(conf) /\ Slots(conf) # 0 /\ Len(b) = Slots(conf)
      BY <1>1, <2>2 DEF Plausible
    <3> QED
      BY <2>1, <2>2, <3>1, ProductIsRight
  <2> QED
    BY <2>2, <2>3, <2>4 DEF b, C
<1> QED
  BY <1>3, <1>4, <1>5, <1>6 DEF Plausible, AttackType

\* The turns of the loops give every vector the attack type stands for, and no
\* two the same.
LEMMA VectorsTried ==
  ASSUME NEW conf, Plausible(conf)
  PROVE  /\ Tried(conf) = {Vector(conf, x) : x \in Box(Bounds(conf))}
         /\ \A x, y \in Box(Bounds(conf)) : Vector(conf, x) = Vector(conf, y) => x = y
<1> DEFINE b == Bounds(conf)
           S == Slots(conf)
           P == Positions(conf)
           V(x) == Vector(conf, x)
<1>1. /\ P \in Nat /\ P # 0 /\ S \in Nat /\ S # 0 /\ 1 \in 1..S /\ 1 \in 1..P /\ S <= P
      /\ \A i \in 1..S : conf.sets[i] \in Nat
  BY PlausibleSlots DEF Plausible
<1>3. CASE conf.type = "sniper"
  <2> DEFINE n == conf.sets[1]
             W(i, k) == [Base(conf) EXCEPT ![i] = <<1, k>>]
  <2>1. b = <<P, n>>
    BY <1>3 DEF Bounds
  <2> HIDE DEF b, n
  <2>2. n \in Nat
    BY <1>1 DEF n
  <2>3. b[1] = P /\ b[2] = n /\ Len(b) = 2 /\ 1..2 = {1, 2}
    BY <2>1
  <2>4. Box(b) = {x \in [1..2 -> Nat] : x[1] \in 1..P /\ x[2] \in 1..n}
    BY <2>3 DEF Box, BoxTo
  <2>5. \A x : V(x) = W(x[1], x[2])
    BY <1>3 DEF Vector
  <2>6. \A i \in 1..P, k \in 1..n :
          \E x \in Box(b) : x[1] = i /\ x[2] = k
    <3> SUFFICES ASSUME NEW i \in 1..P, NEW k \in 1..n
                 PROVE  \E x \in Box(b) : x[1] = i /\ x[2] = k
      OBVIOUS
    <3> DEFINE x == [j \in 1..2 |-> IF j = 1 THEN i ELSE k]
    <3>1. x \in [1..2 -> Nat] /\ x[1] = i /\ x[2] = k
      BY <1>1, <2>2
    <3> HIDE DEF x
    <3> QED
      BY <2>4, <3>1
  <2>7. \A z : z \in Tried(conf) <=> \E i \in 1..P : \E k \in 1..n : z = W(i, k)
    <3> DEFINE Y(i, x) == [Base(conf) EXCEPT ![i] = x]
    <3>1. Tried(conf) = {Y(i, x) : i \in 1..P, x \in PayloadsOf(conf, 1)}
      BY <1>3 DEF Tried
    <3>2. PayloadsOf(conf, 1) = {<<1, k>> : k \in 1..n}
      BY DEF PayloadsOf, n
    <3>3. \A i, k : W(i, k) = Y(i, <<1, k>>)
      OBVIOUS
    <3> HIDE DEF P, W, Y
    <3>4. \A z : z \in Tried(conf)
                  <=> \E i \in 1..P : \E x \in PayloadsOf(conf, 1) : z = Y(i, x)
      BY <3>1
    <3>5. \A x : x \in PayloadsOf(conf, 1) <=> \E k \in 1..n : x = <<1, k>>
      BY <3>2
    <3> SUFFICES ASSUME NEW z
                 PROVE  z \in Tried(conf) <=> \E i \in 1..P : \E k \in 1..n : z = W(i, k)
      OBVIOUS
    <3>6. ASSUME z \in Tried(conf) PROVE \E i \in 1..P : \E k \in 1..n : z = W(i, k)
      <4>1. PICK i \in 1..P, x \in PayloadsOf(conf, 1) : z = Y(i, x)
        BY <3>4, <3>6
      <4>2. PICK k \in 1..n : x = <<1, k>>
        BY <3>5
      <4>3. z = W(i, k)
        BY <3>3, <4>1, <4>2
      <4> QED
        BY <4>3
    <3>7. ASSUME NEW i \in 1..P, NEW k \in 1..n, z = W(i, k) PROVE z \in Tried(conf)
      <4>1. <<1, k>> \in PayloadsOf(conf, 1)
        BY <3>5
      <4>2. z = Y(i, <<1, k>>)
        BY <3>3, <3>7
      <4> QED
        BY <3>4, <4>1, <4>2
    <3> QED
      BY <3>6, <3>7
  <2> HIDE DEF P, V, W
  <2>8. Tried(conf) = {V(x) : x \in Box(b)}
    BY <2>4, <2>5, <2>6, <2>7
  <2>9. ASSUME NEW x \in Box(b), NEW y \in Box(b), V(x) = V(y) PROVE x = y
    <3>1. x \in [1..2 -> Nat] /\ y \in [1..2 -> Nat] /\ x[1] \in 1..P /\ y[1] \in 1..P
      BY <2>4
    <3>2. W(x[1], x[2])[x[1]] = <<1, x[2]>>
      BY <3>1 DEF W, Base, P
    <3>3. W(y[1], y[2])[x[1]] = IF x[1] = y[1] THEN <<1, y[2]>> ELSE <<0, x[1]>>
      BY <3>1 DEF W, Base, P
    <3>4. <<1, x[2]>> = IF x[1] = y[1] THEN <<1, y[2]>> ELSE <<0, x[1]>>
      BY <2>5, <2>9, <3>2, <3>3
    <3>5. x[1] = y[1] /\ x[2] = y[2]
      BY <3>4
    <3> QED
      BY <2>3, <3>1, <3>5
  <2> QED
    BY <2>8, <2>9 DEF b, V
<1>4. CASE conf.type = "battering_ram"
  <2> DEFINE n == conf.sets[1]
             W(k) == [i \in 1..P |-> <<1, k>>]
  <2>1. b = <<n>>
    BY <1>4 DEF Bounds
  <2> HIDE DEF b, n
  <2>2. n \in Nat
    BY <1>1 DEF n
  <2>3. b[1] = n /\ Len(b) = 1 /\ 1..1 = {1}
    BY <2>1
  <2>4. Box(b) = {x \in [1..1 -> Nat] : x[1] \in 1..n}
    BY <2>3 DEF Box, BoxTo
  <2>5. \A x : V(x) = W(x[1])
    BY <1>4 DEF Vector
  <2>6. ASSUME NEW k \in 1..n PROVE \E x \in Box(b) : x[1] = k
    <3> DEFINE x == [j \in 1..1 |-> k]
    <3>1. x \in [1..1 -> Nat] /\ x[1] = k
      BY <2>2
    <3> HIDE DEF x
    <3> QED
      BY <2>4, <3>1
  <2>7. Tried(conf) = {W(k) : k \in 1..n}
    <3>1. Tried(conf) = {[i \in 1..P |-> x] : x \in PayloadsOf(conf, 1)}
      BY <1>4 DEF Tried
    <3>2. PayloadsOf(conf, 1) = {<<1, k>> : k \in 1..n}
      BY DEF PayloadsOf, n
    <3>3. \A k : W(k) = [i \in 1..P |-> <<1, k>>]
      OBVIOUS
    <3> HIDE DEF W
    <3>4. \A z : z \in Tried(conf) <=> \E k \in 1..n : z = W(k)
      BY <3>1, <3>2, <3>3, Zenon
    <3> QED
      BY <3>4
  <2>8. ASSUME NEW j, NEW k, W(j) = W(k) PROVE j = k
    <3>1. W(j)[1] = W(k)[1] /\ W(j)[1] = <<1, j>> /\ W(k)[1] = <<1, k>>
      BY <1>1, <2>8
    <3> QED
      BY <3>1
  <2> HIDE DEF P, V, W
  <2>9. Tried(conf) = {V(x) : x \in Box(b)}
    BY <2>4, <2>5, <2>6, <2>7
  <2>10. ASSUME NEW x \in Box(b), NEW y \in Box(b), V(x) = V(y) PROVE x = y
    <3>1. x \in [1..1 -> Nat] /\ y \in [1..1 -> Nat]
      BY <2>4
    <3>2. x[1] = y[1]
      BY <2>5, <2>8, <2>10
    <3> QED
      BY <2>3, <3>1, <3>2
  <2> QED
    BY <2>9, <2>10 DEF b, V
<1>5. CASE conf.type = "pitchfork"
  <2> DEFINE n == lockstepLen(conf)
             W(k) == [i \in 1..P |-> IF i <= S THEN <<i, k>> ELSE <<0, i>>]
  <2>1. b = <<n>>
    BY <1>5 DEF Bounds
  <2>2. n \in Nat /\ (\E i \in 1..S : n = conf.sets[i]) /\ \A i \in 1..S : n <= conf.sets[i]
    BY <1>1, LockstepIsLeast DEF Plausible
  <2> HIDE DEF b, n
  <2>3. b[1] = n /\ Len(b) = 1 /\ 1..1 = {1}
    BY <2>1
  <2>4. Box(b) = {x \in [1..1 -> Nat] : x[1] \in 1..n}
    BY <2>3 DEF Box, BoxTo
  <2>5. \A x : V(x) = W(x[1])
    BY <1>5 DEF Vector
  <2>6. ASSUME NEW k \in 1..n PROVE \E x \in Box(b) : x[1] = k
    <3> DEFINE x == [j \in 1..1 |-> k]
    <3>1. x \in [1..1 -> Nat] /\ x[1] = k
      BY <2>2
    <3> HIDE DEF x
    <3> QED
      BY <2>4, <3>1
  <2>7. Tried(conf) = {W(k) : k \in 1..n}
    <3> DEFINE K == {j \in 1..conf.sets[1] : \A s \in 1..S : j <= conf.sets[s]}
               Side(k) == [i \in 1..S |-> <<i, k>>]
               X(k) == [i \in 1..P |-> IF i \in 1..S THEN Side(k)[i] ELSE <<0, i>>]
    <3>1. Tried(conf) = {X(k) : k \in K}
      BY <1>5 DEF Tried
    <3>2. K = 1..n
      BY <1>1, <2>2
    <3>3. \A k : X(k) = W(k)
      BY <1>1
    <3> HIDE DEF K, X, W
    <3> QED
      BY <3>1, <3>2, <3>3
  <2> HIDE DEF P, S
  <2>8. ASSUME NEW j, NEW k, W(j) = W(k) PROVE j = k
    <3>0. 1 \in 1..P /\ 1 <= S
      BY <1>1
    <3>1. W(j)[1] = W(k)[1]
      BY <2>8
    <3>2. W(j)[1] = <<1, j>> /\ W(k)[1] = <<1, k>>
      BY <3>0
    <3> QED
      BY <3>1, <3>2
  <2> HIDE DEF V, W
  <2>9. Tried(conf) = {V(x) : x \in Box(b)}
    BY <2>4, <2>5, <2>6, <2>7
  <2>10. ASSUME NEW x \in Box(b), NEW y \in Box(b), V(x) = V(y) PROVE x = y
    <3>1. x \in [1..1 -> Nat] /\ y \in [1..1 -> Nat]
      BY <2>4
    <3>2. x[1] = y[1]
      BY <2>5, <2>8, <2>10
    <3> QED
      BY <2>3, <3>1, <3>2
  <2> QED
    BY <2>9, <2>10 DEF b, V
<1>6. CASE conf.type = "cluster_bomb"
  <2> DEFINE W(x) == [i \in 1..P |-> IF i <= S THEN <<i, x[i]>> ELSE <<0, i>>]
             U == UNION {PayloadsOf(conf, s) : s \in 1..S}
             F == {g \in [1..S -> U] : \A s \in 1..S : g[s] \in PayloadsOf(conf, s)}
             X(f) == [i \in 1..P |-> IF i \in 1..S THEN f[i] ELSE <<0, i>>]
  <2>1. b = [i \in 1..S |-> conf.sets[i]]
    BY <1>6 DEF Bounds
  <2> HIDE DEF b
  <2>2. Len(b) = S /\ \A i \in 1..S : b[i] = conf.sets[i]
    BY <1>1, <2>1
  <2>3. Box(b) = {x \in [1..S -> Nat] : \A i \in 1..S : x[i] \in 1..conf.sets[i]}
    BY <2>2 DEF Box, BoxTo
  <2>4. \A x : V(x) = W(x)
    BY <1>6 DEF Vector
  <2>5. Tried(conf) = {X(f) : f \in F}
    BY <1>6 DEF Tried
  <2>6. ASSUME NEW x \in Box(b) PROVE \E f \in F : X(f) = W(x)
    <3> DEFINE f == [i \in 1..S |-> <<i, x[i]>>]
    <3>1. \A s \in 1..S : f[s] \in PayloadsOf(conf, s)
      BY <2>3 DEF PayloadsOf
    <3>2. f \in F
      BY <3>1
    <3>3. X(f) = W(x)
      BY <1>1
    <3> QED
      BY <3>2, <3>3
  <2>7. ASSUME NEW f \in F PROVE \E x \in Box(b) : X(f) = W(x)
    <3> DEFINE x == [i \in 1..S |-> f[i][2]]
    <3>1. \A s \in 1..S : \E k \in 1..conf.sets[s] : f[s] = <<s, k>>
      BY DEF PayloadsOf
    <3>2. \A s \in 1..S : f[s] = <<s, x[s]>> /\ x[s] \in 1..conf.sets[s]
      BY <3>1
    <3>3. x \in Box(b)
      <4>1. x \in [1..S -> Nat]
        BY <1>1, <3>1
      <4> HIDE DEF x
      <4> QED
        BY <2>3, <3>2, <4>1
    <3>4. X(f) = W(x)
      <4> HIDE DEF x, F
      <4> QED
        BY <1>1, <3>2
    <3> QED
      BY <3>3, <3>4
  <2> HIDE DEF P, S
  <2>8. ASSUME NEW x \in Box(b), NEW y \in Box(b), W(x) = W(y) PROVE x = y
    <3>1. x \in [1..S -> Nat] /\ y \in [1..S -> Nat]
      BY <2>3
    <3>2. ASSUME NEW i \in 1..S PROVE x[i] = y[i]
      <4>0. i \in 1..P /\ i <= S
        BY <1>1
      <4>1. W(x)[i] = W(y)[i]
        BY <2>8
      <4>2. W(x)[i] = <<i, x[i]>> /\ W(y)[i] = <<i, y[i]>>
        BY <4>0
      <4> QED
        BY <4>1, <4>2
    <3>3. x = [i \in 1..S |-> x[i]] /\ y = [i \in 1..S |-> y[i]]
      BY <3>1
    <3>4. [i \in 1..S |-> x[i]] = [i \in 1..S |-> y[i]]
      BY <3>2
    <3> QED
      BY <3>3, <3>4
  <2> HIDE DEF V, W, X, F
  <2>9. Tried(conf) = {V(x) : x \in Box(b)}
    BY <2>4, <2>5, <2>6, <2>7
  <2>10. ASSUME NEW x \in Box(b), NEW y \in Box(b), V(x) = V(y) PROVE x = y
    BY <2>4, <2>8, <2>10
  <2> QED
    BY <2>9, <2>10 DEF b, V
<1> QED
  BY <1>3, <1>4, <1>5, <1>6 DEF Plausible, AttackType

\* So as many requests are tried as the loops have turns.
LEMMA TriedAreTurns ==
  ASSUME NEW conf, Plausible(conf)
  PROVE  Cardinality(Tried(conf)) = Cardinality(Box(Bounds(conf)))
<1> DEFINE B == Box(Bounds(conf))
           f == [x \in B |-> Vector(conf, x)]
<1>1. IsFiniteSet(B)
  BY CountsTurns
<1>2. Tried(conf) = {Vector(conf, x) : x \in B}
  BY VectorsTried
<1>3. \A x, y \in B : Vector(conf, x) = Vector(conf, y) => x = y
  BY VectorsTried
<1> HIDE DEF B
<1>4. f \in [B -> Tried(conf)] /\ \A z \in Tried(conf) : \E x \in B : f[x] = z
  BY <1>2
<1>5. \A x, y \in B : f[x] = f[y] => x = y
  BY <1>3
<1> HIDE DEF f
<1>6. Cardinality(Tried(conf)) = Cardinality(B)
  BY <1>1, <1>4, <1>5, SameSize
<1> QED
  BY <1>6 DEF B

\* Which of its checks Validate's answer comes from.
LEMMA WhatValidateFound ==
  ASSUME NEW conf, IsConfig(conf), Validate(conf) \in {"ok", "no requests", "too many"}
  PROVE  /\ Plausible(conf)
         /\ Validate(conf) = "ok" => Count(conf) # 0 /\ Count(conf) <= MaxJobs
         /\ Validate(conf) = "no requests" => Count(conf) = 0
         /\ Validate(conf) = "too many" => Count(conf) > MaxJobs
<1>1. Plausible(conf)
  BY DEF Validate, Plausible
<1>2. Count(conf) \in Nat
  BY <1>1, CountsTurns
<1> QED
  BY <1>1, <1>2, JobsAssumption DEF Validate

\* The answer is to the configuration that is in the row.
DraftInv ==
  /\ draft \in Drafts
  /\ answer \in {"", Validate(draft)}
  /\ answer = "ok" => announced = Count(draft)

LEMMA DraftInvariant == DraftSpec => []DraftInv
<1>1. DraftInit => DraftInv
  BY DEF DraftInit, DraftInv
<1>2. DraftInv /\ [DraftNext]_draftVars => DraftInv'
  <2> SUFFICES ASSUME DraftInv, [DraftNext]_draftVars PROVE DraftInv'
    OBVIOUS
  <2>1. CASE UpdateIntruderAttack
    BY <2>1 DEF UpdateIntruderAttack, DraftInv
  <2>2. CASE StartIntruderAttack
    BY <2>2 DEF StartIntruderAttack, DraftInv
  <2>3. CASE UNCHANGED draftVars
    BY <2>3 DEF draftVars, DraftInv
  <2> QED
    BY <2>1, <2>2, <2>3 DEF DraftNext
<1> QED
  BY <1>1, <1>2, PTL DEF DraftSpec

\* For every configuration: what Validate and Count answer to a start is what the
\* attack type stands for, for all four loops of forEachJob and however many sets
\* of whatever length there are.
THEOREM StartsAreRight == DraftSpec => []CountsAreRight
<1>1. DraftInv => CountsAreRight
  <2> SUFFICES ASSUME DraftInv PROVE CountsAreRight
    OBVIOUS
  <2> DEFINE B == Box(Bounds(draft))
  <2>0. IsConfig(draft) /\ MaxJobs \in Nat
    BY DraftAssumption, JobsAssumption DEF DraftInv
  <2>1. ASSUME answer \in {"ok", "no requests", "too many"}
        PROVE  /\ Plausible(draft) /\ Count(draft) \in Nat
               /\ answer = "ok" => Count(draft) # 0 /\ Count(draft) <= MaxJobs
               /\ answer = "no requests" => Count(draft) = 0
               /\ answer = "too many" => Count(draft) > MaxJobs
               /\ Cardinality(Tried(draft)) = Cardinality(B)
               /\ IsFiniteSet(B)
               /\ Count(draft) <= MaxJobs => Count(draft) = Cardinality(B)
               /\ Count(draft) > MaxJobs /\ (\A i \in 1..Slots(draft) : draft.sets[i] > 0)
                    => Cardinality(B) > MaxJobs
    <3>1. answer = Validate(draft)
      BY <2>1 DEF DraftInv
    <3>2. Plausible(draft)
      BY <2>0, <2>1, <3>1, WhatValidateFound
    <3> QED
      BY <2>0, <2>1, <3>1, <3>2, WhatValidateFound, CountsTurns, TriedAreTurns
  <2>2. AnnouncedIsTried
    BY <2>1 DEF AnnouncedIsTried, DraftInv
  <2>3. ASSUME answer = "no requests" PROVE Tried(draft) = {}
    <3> HIDE DEF B
    <3>1. Plausible(draft) /\ IsFiniteSet(B) /\ Cardinality(B) = 0
      <4>1. Plausible(draft) /\ IsFiniteSet(B) /\ Count(draft) = 0
        BY <2>1, <2>3
      <4>2. Count(draft) <= MaxJobs => Count(draft) = Cardinality(B)
        BY <2>1, <2>3
      <4> QED
        BY <2>0, <4>1, <4>2
    <3>2. B = {}
      BY <3>1, FS_EmptySet
    <3> QED
      BY <3>1, <3>2, VectorsTried DEF B
  <2>4. ASSUME answer = "too many", \A i \in 1..Slots(draft) : draft.sets[i] > 0
        PROVE  Cardinality(Tried(draft)) > MaxJobs
    BY <2>1, <2>4
  <2> QED
    BY <2>2, <2>3, <2>4 DEF CountsAreRight, RefusalsAreDue
<1> QED
  BY <1>1, DraftInvariant, PTL

-----------------------------------------------------------------------------
(* The order of the turns of the loops.                                    *)

\* y comes after x: the first counter on which they differ is higher.
Less(x, y, n) == \E p \in 1..n : x[p] < y[p] /\ \A i \in 1..(p - 1) : x[i] = y[i]

LEMMA NotBeforeItself == ASSUME NEW n \in Nat, NEW x \in [1..n -> Nat] PROVE ~Less(x, x, n)
  BY DEF Less

\* Two different turns have a first counter on which they differ.
LEMMA FirstDifference ==
  ASSUME NEW n \in Nat, NEW x \in [1..n -> Nat], NEW y \in [1..n -> Nat], x # y
  PROVE  \E p \in 1..n : x[p] # y[p] /\ \A i \in 1..(p - 1) : x[i] = y[i]
<1> DEFINE D == {i \in 1..n : x[i] # y[i]}
<1>1. D \in SUBSET Nat
  OBVIOUS
<1>2. D # {}
  <2>1. SUFFICES ASSUME D = {} PROVE FALSE
    OBVIOUS
  <2>2. \A i \in 1..n : x[i] = y[i]
    BY <2>1
  <2>3. x = [i \in 1..n |-> x[i]] /\ y = [i \in 1..n |-> y[i]]
    OBVIOUS
  <2>4. [i \in 1..n |-> x[i]] = [i \in 1..n |-> y[i]]
    BY <2>2
  <2> QED
    BY <2>3, <2>4
<1>3. \E p \in D : \A k \in D : p <= k
  <2> HIDE DEF D
  <2> QED
    BY <1>1, <1>2, LeastOf
<1>4. PICK p \in D : \A k \in D : p <= k
  BY <1>3
<1>5. ASSUME NEW i \in 1..(p - 1) PROVE x[i] = y[i]
  <2>1. i \in 1..n /\ ~(p <= i)
    BY <1>4
  <2> QED
    BY <1>4, <2>1
<1> QED
  BY <1>4, <1>5

\* The first turn: all counters at 1.
LEMMA FirstTurn ==
  ASSUME NEW b \in Seq(Nat), Box(b) # {}
  PROVE  LET f == [i \in 1..Len(b) |-> 1]
         IN f \in Box(b) /\ \A x \in Box(b) : ~Less(x, f, Len(b))
<1> DEFINE n == Len(b)
           f == [i \in 1..n |-> 1]
<1>1. \A i \in 1..n : 1 \in 1..b[i]
  <2>1. PICK x \in Box(b) : TRUE
    OBVIOUS
  <2>2. \A i \in 1..n : x[i] \in 1..b[i] /\ b[i] \in Nat
    BY <2>1 DEF Box, BoxTo
  <2> QED
    BY <2>2
<1>2. f \in Box(b)
  BY <1>1 DEF Box, BoxTo
<1>3. ASSUME NEW x \in Box(b) PROVE ~Less(x, f, n)
  <2>1. \A i \in 1..n : x[i] \in Nat /\ ~(x[i] < f[i])
    BY DEF Box, BoxTo
  <2> QED
    BY <2>1 DEF Less
<1> QED
  BY <1>2, <1>3

\* What NextCursor can move: the last counter below its bound.
Turning(b, c, p) == c[p] < b[p] /\ \A i \in (p + 1)..Len(c) : c[i] = b[i]

LEMMA OneTurning ==
  ASSUME NEW b \in Seq(Nat), NEW c \in Box(b), NEW p \in 1..Len(b), NEW q \in 1..Len(b),
         Turning(b, c, p), Turning(b, c, q)
  PROVE  p = q
<1>1. c \in [1..Len(b) -> Nat] /\ Len(c) = Len(b) /\ Len(b) \in Nat
  <2>1. c \in [1..Len(b) -> Nat] /\ Len(b) \in Nat
    BY DEF Box, BoxTo
  <2> QED
    BY <2>1, IsSeq
<1>2. \A i \in 1..Len(b) : c[i] \in Nat /\ b[i] \in Nat
  BY <1>1
<1>3. ~(p < q) /\ ~(q < p)
  BY <1>1, <1>2 DEF Turning
<1> QED
  BY <1>3

\* If there is none all counters are at their bounds, and this is the last turn.
LEMMA LastTurn ==
  ASSUME NEW b \in Seq(Nat), NEW c \in Box(b), \A p \in 1..Len(b) : ~Turning(b, c, p)
  PROVE  \A x \in Box(b) : x # c => Less(x, c, Len(b))
<1> DEFINE n == Len(b)
           D == {k \in 0..n : k < n /\ c[n - k] # b[n - k]}
<1>1. n \in Nat /\ c \in [1..n -> Nat] /\ \A i \in 1..n : c[i] \in 1..b[i] /\ b[i] \in Nat
  BY DEF Box, BoxTo
<1>2. Len(c) = n
  BY <1>1, IsSeq
<1> HIDE DEF n
<1>3. ASSUME NEW j \in 1..n, c[j] # b[j] PROVE FALSE
  <2>1. D \in SUBSET Nat
    OBVIOUS
  <2>2. n - j \in D
    BY <1>1, <1>3
  <2>3. \E m \in D : \A k \in D : m <= k
    <3> HIDE DEF D
    <3> QED
      BY <2>1, <2>2, LeastOf
  <2>4. PICK m \in D : \A k \in D : m <= k
    BY <2>3
  <2> DEFINE p == n - m
  <2>5. p \in 1..n /\ c[p] < b[p]
    BY <1>1, <2>4
  <2>6. ASSUME NEW i \in (p + 1)..n PROVE c[i] = b[i]
    <3>1. n - i \in 0..n /\ n - i < n /\ ~(m <= n - i) /\ n - (n - i) = i
      BY <1>1, <2>4
    <3>2. n - i \notin D
      BY <2>4, <3>1
    <3> QED
      BY <3>1, <3>2
  <2>7. Turning(b, c, p)
    BY <1>2, <2>5, <2>6 DEF Turning
  <2> QED
    BY <2>5, <2>7 DEF n
<1>4. ASSUME NEW x \in Box(b), x # c PROVE Less(x, c, n)
  <2>1. x \in [1..n -> Nat] /\ \A i \in 1..n : x[i] \in 1..b[i]
    BY DEF Box, BoxTo, n
  <2>2. PICK p \in 1..n : x[p] # c[p] /\ \A i \in 1..(p - 1) : x[i] = c[i]
    BY <1>1, <1>4, <2>1, FirstDifference
  <2>3. c[p] = b[p] /\ x[p] \in 1..b[p] /\ b[p] \in Nat
    BY <1>1, <1>3, <2>1
  <2>4. x[p] < c[p]
    BY <2>2, <2>3
  <2> QED
    BY <2>2, <2>4 DEF Less
<1> QED
  BY <1>4 DEF n

\* The next turn: what comes before it is what came before and this one.
LEMMA NextTurn ==
  ASSUME NEW b \in Seq(Nat), NEW c \in Box(b), NEW p \in 1..Len(b), Turning(b, c, p)
  PROVE  LET d == [i \in 1..Len(b) |-> IF i < p THEN c[i] ELSE IF i = p THEN c[i] + 1 ELSE 1]
         IN  /\ d \in Box(b)
             /\ \A x \in Box(b) : Less(x, d, Len(b)) <=> Less(x, c, Len(b)) \/ x = c
<1> DEFINE n == Len(b)
           d == [i \in 1..n |-> IF i < p THEN c[i] ELSE IF i = p THEN c[i] + 1 ELSE 1]
<1>1. /\ n \in Nat /\ p \in 1..n /\ c \in [1..n -> Nat]
      /\ \A i \in 1..n : c[i] \in 1..b[i] /\ b[i] \in Nat /\ c[i] \in Nat
  BY DEF Box, BoxTo
<1>2. c[p] < b[p] /\ \A i \in (p + 1)..n : c[i] = b[i]
  <2>1. Len(c) = n
    BY <1>1, IsSeq
  <2> QED
    BY <2>1 DEF Turning
<1> HIDE DEF n
<1>3. /\ \A i \in 1..n : i < p => d[i] = c[i]
      /\ d[p] = c[p] + 1
      /\ \A i \in 1..n : i > p => d[i] = 1
  BY <1>1
<1>4. d \in [1..n -> Nat] /\ \A i \in 1..n : d[i] \in 1..b[i]
  <2>1. d \in [1..n -> Nat]
    BY <1>1
  <2>2. ASSUME NEW i \in 1..n PROVE d[i] \in 1..b[i]
    <3> HIDE DEF d
    <3>1. i \in Nat /\ p \in Nat /\ c[i] \in Nat /\ b[i] \in Nat /\ c[i] \in 1..b[i]
      BY <1>1
    <3>2. CASE i < p
      BY <1>3, <3>1, <3>2
    <3>3. CASE i = p
      BY <1>2, <1>3, <3>1, <3>3
    <3>4. CASE i > p
      BY <1>3, <3>1, <3>4
    <3> QED
      BY <3>1, <3>2, <3>3, <3>4
  <2> QED
    BY <2>1, <2>2
<1> HIDE DEF d
<1>5. d \in Box(b)
  BY <1>4 DEF Box, BoxTo, n
<1>6. ASSUME NEW x \in Box(b) PROVE Less(x, d, n) <=> Less(x, c, n) \/ x = c
  <2>1. x \in [1..n -> Nat] /\ \A i \in 1..n : x[i] \in 1..b[i] /\ x[i] \in Nat
    BY DEF Box, BoxTo, n
  <2>2. ASSUME Less(x, d, n), x # c PROVE Less(x, c, n)
    <3>1. PICK r \in 1..n : x[r] < d[r] /\ \A i \in 1..(r - 1) : x[i] = d[i]
      BY <2>2 DEF Less
    <3>2. CASE r < p
      <4>1. x[r] < c[r]
        BY <1>3, <3>1, <3>2
      <4>2. ASSUME NEW i \in 1..(r - 1) PROVE x[i] = c[i]
        <5>1. i \in 1..n /\ i < p
          BY <1>1, <3>2
        <5> QED
          BY <1>3, <3>1, <5>1
      <4> QED
        BY <4>1, <4>2 DEF Less
    <3>3. CASE r = p
      <4>1. x[p] <= c[p] /\ \A i \in 1..(p - 1) : x[i] = c[i]
        <5>1. x[p] <= c[p]
          <6>1. x[p] < c[p] + 1 /\ x[p] \in Nat /\ c[p] \in Nat
            BY <1>1, <1>3, <2>1, <3>1, <3>3
          <6> QED
            BY <6>1
        <5>2. ASSUME NEW i \in 1..(p - 1) PROVE x[i] = c[i]
          <6>1. i \in 1..n /\ i < p
            BY <1>1
          <6> QED
            BY <1>3, <3>1, <3>3, <6>1
        <5> QED
          BY <5>1, <5>2
      <4>2. CASE x[p] < c[p]
        BY <1>1, <4>1, <4>2 DEF Less
      <4>3. CASE x[p] = c[p]
        <5>1. PICK q \in 1..n : x[q] # c[q] /\ \A i \in 1..(q - 1) : x[i] = c[i]
          <6>1. n \in Nat /\ x \in [1..n -> Nat] /\ c \in [1..n -> Nat] /\ x # c
            BY <1>1, <2>1, <2>2
          <6> QED
            BY <6>1, FirstDifference, ZenonT(30)
        <5>2. q \in (p + 1)..n
          BY <1>1, <4>1, <4>3, <5>1
        <5>3. c[q] = b[q] /\ x[q] \in 1..b[q] /\ b[q] \in Nat
          BY <1>1, <1>2, <2>1, <5>2
        <5>4. x[q] < c[q]
          BY <5>1, <5>3
        <5> QED
          BY <5>1, <5>4 DEF Less
      <4> QED
        BY <1>1, <2>1, <4>1, <4>2, <4>3
    <3>4. CASE r > p
      <4>1. d[r] = 1 /\ x[r] \in 1..b[r]
        BY <1>3, <2>1, <3>4
      <4>2. x[r] \in Nat /\ x[r] >= 1
        BY <1>1, <4>1
      <4> QED
        BY <3>1, <4>1, <4>2
    <3> QED
      BY <1>1, <3>2, <3>3, <3>4
  <2>3. ASSUME Less(x, c, n) PROVE Less(x, d, n)
    <3>1. PICK r \in 1..n : x[r] < c[r] /\ \A i \in 1..(r - 1) : x[i] = c[i]
      BY <2>3 DEF Less
    <3>2. CASE r < p
      <4>1. x[r] < d[r] /\ \A i \in 1..(r - 1) : x[i] = d[i]
        <5>1. d[r] = c[r]
          BY <1>3, <3>2
        <5>2. ASSUME NEW i \in 1..(r - 1) PROVE x[i] = d[i]
          <6>1. i \in 1..n /\ i < p
            BY <1>1, <3>2
          <6> QED
            BY <1>3, <3>1, <6>1
        <5> QED
          BY <3>1, <5>1, <5>2
      <4> QED
        BY <4>1 DEF Less
    <3>3. CASE ~(r < p)
      <4>1. x[p] <= c[p] /\ \A i \in 1..(p - 1) : x[i] = c[i]
        <5>1. r = p \/ p \in 1..(r - 1)
          BY <1>1, <3>3
        <5>2. x[p] <= c[p]
          BY <1>1, <2>1, <3>1, <5>1
        <5>3. \A i \in 1..(p - 1) : i \in 1..(r - 1)
          BY <1>1, <3>3
        <5> QED
          BY <3>1, <5>2, <5>3
      <4>2. x[p] < d[p] /\ \A i \in 1..(p - 1) : x[i] = d[i]
        <5>1. x[p] \in Nat /\ c[p] \in Nat /\ d[p] = c[p] + 1
          BY <1>1, <1>3, <2>1
        <5>2. ASSUME NEW i \in 1..(p - 1) PROVE x[i] = d[i]
          <6>1. i \in 1..n /\ i < p
            BY <1>1
          <6> QED
            BY <1>3, <4>1, <6>1
        <5> QED
          BY <4>1, <5>1, <5>2
      <4> QED
        BY <1>1, <4>2 DEF Less
    <3> QED
      BY <3>2, <3>3
  <2>4. ASSUME x = c PROVE Less(x, d, n)
    <3>1. x[p] < d[p] /\ \A i \in 1..(p - 1) : x[i] = d[i]
      BY <1>1, <1>3, <2>4
    <3> QED
      BY <1>1, <3>1 DEF Less
  <2> QED
    BY <2>2, <2>3, <2>4
<1> QED
  BY <1>5, <1>6 DEF n, d

\* So NextCursor takes the turns one after the other, and leaves none out.
LEMMA CursorAdvances ==
  ASSUME NEW b \in Seq(Nat), NEW c \in Box(b)
  PROVE  /\ NextCursor(b, c) = {} \/ \E d \in Box(b) : NextCursor(b, c) = {d}
         /\ \A x \in Box(b) :
              (\A d \in NextCursor(b, c) : Less(x, d, Len(b))) <=> Less(x, c, Len(b)) \/ x = c
<1> DEFINE n == Len(b)
           D(p) == [i \in 1..n |-> IF i < p THEN c[i] ELSE IF i = p THEN c[i] + 1 ELSE 1]
<1>1. n \in Nat /\ Len(c) = n
  <2>1. c \in [1..n -> Nat] /\ n \in Nat
    BY DEF Box, BoxTo
  <2> QED
    BY <2>1, IsSeq
<1>2. NextCursor(b, c) = {D(p) : p \in {q \in 1..n : Turning(b, c, q)}}
  BY <1>1 DEF NextCursor, Turning
<1>3. CASE \A p \in 1..n : ~Turning(b, c, p)
  <2>1. NextCursor(b, c) = {}
    BY <1>2, <1>3
  <2> QED
    BY <1>3, <2>1, LastTurn
<1>4. CASE \E p \in 1..n : Turning(b, c, p)
  <2>1. PICK p \in 1..n : Turning(b, c, p)
    BY <1>4
  <2>2. {q \in 1..n : Turning(b, c, q)} = {p}
    BY <2>1, OneTurning
  <2>3. NextCursor(b, c) = {D(p)}
    <3> HIDE DEF D
    <3> QED
      BY <1>2, <2>2
  <2>4. D(p) \in Box(b) /\ \A x \in Box(b) : Less(x, D(p), n) <=> Less(x, c, n) \/ x = c
    BY <2>1, NextTurn
  <2> HIDE DEF D
  <2> QED
    BY <2>3, <2>4
<1> QED
  BY <1>3, <1>4

-----------------------------------------------------------------------------
(* The producer.                                                           *)

\* cs gives the turn of the loops each job was made on: the turns before the one
\* the cursor is at, each once.
Chosen(cs) ==
  LET b == Bounds(cfg)
  IN  /\ cs \in [1..Len(emitted) -> Box(b)]
      /\ \A k \in 1..Len(emitted) : emitted[k] = Vector(cfg, cs[k])
      /\ \A k, l \in 1..Len(emitted) : cs[k] = cs[l] => k = l
      /\ \A x \in Box(b) :
           (\E k \in 1..Len(emitted) : cs[k] = x) <=> \A c \in cursor : Less(x, c, Len(b))

Started == cfg \in Configs /\ Validate(cfg) = "ok"

EnumInv ==
  /\ Started
  /\ cursor = {} \/ \E c \in Box(Bounds(cfg)) : cursor = {c}
  /\ \E cs : Chosen(cs)

\* What Validate established of the configuration that runs.
LEMMA StartedFacts ==
  ASSUME Started
  PROVE  /\ Plausible(cfg) /\ Bounds(cfg) \in Seq(Nat) /\ IsFiniteSet(Box(Bounds(cfg)))
         /\ MaxJobs \in Nat /\ Count(cfg) \in Nat /\ Count(cfg) # 0 /\ Count(cfg) <= MaxJobs
         /\ Count(cfg) = Cardinality(Box(Bounds(cfg)))
<1>1. IsConfig(cfg) /\ Validate(cfg) = "ok"
  BY EngineAssumption DEF Started
<1>2. Plausible(cfg) /\ Count(cfg) # 0 /\ Count(cfg) <= MaxJobs
  BY <1>1, WhatValidateFound
<1> QED
  BY <1>2, CountsTurns, JobsAssumption

LEMMA EnumInit == Init => EnumInv
<1> SUFFICES ASSUME Init PROVE EnumInv
  OBVIOUS
<1> DEFINE b == Bounds(cfg)
           B == Box(b)
           f == [i \in 1..Len(b) |-> 1]
           cs == [k \in 1..0 |-> f]
<1>1. Started /\ emitted = <<>> /\ cursor = FirstCursor(cfg)
  BY DEF Init, Started
<1>2. b \in Seq(Nat) /\ Count(cfg) # 0 /\ Count(cfg) = Cardinality(B)
  BY <1>1, StartedFacts
<1>3. B # {}
  <2> HIDE DEF B
  <2> QED
    BY <1>2, FS_EmptySet
<1>4. cursor = {f}
  BY <1>1, <1>2 DEF FirstCursor
<1>5. f \in B /\ \A x \in B : ~Less(x, f, Len(b))
  BY <1>2, <1>3, FirstTurn
<1> HIDE DEF B, b, f
<1>6. Chosen(cs)
  <2>1. Len(emitted) = 0 /\ 1..0 = {}
    BY <1>1
  <2>2. cs \in [1..Len(emitted) -> B]
    BY <2>1
  <2> HIDE DEF cs
  <2> QED
    BY <1>4, <1>5, <2>1, <2>2 DEF Chosen, B, b
<1>7. \E x : Chosen(x)
  BY <1>6
<1> QED
  BY <1>1, <1>4, <1>5, <1>7 DEF EnumInv, B, b

\* One more job: the turn the cursor was at.
LEMMA FeedEnumerates ==
  ASSUME EnumInv, IInv, NEW w \in Workers, Feed(w)
  PROVE  EnumInv'
<1> DEFINE b == Bounds(cfg)
           B == Box(b)
           n == Len(emitted)
<1>1. PICK c \in B : cursor = {c}
  BY DEF EnumInv, Feed
<1>2. /\ emitted' = Append(emitted, Vector(cfg, c))
      /\ cursor' = NextCursor(b, c)
      /\ cfg' = cfg
  BY <1>1 DEF Feed
<1>3. b \in Seq(Nat)
  BY StartedFacts DEF EnumInv
<1>4. /\ cursor' = {} \/ \E d \in B : cursor' = {d}
      /\ \A x \in B : (\A d \in cursor' : Less(x, d, Len(b))) <=> Less(x, c, Len(b)) \/ x = c
  BY <1>2, <1>3, CursorAdvances
<1>5. PICK cs : Chosen(cs)
  BY DEF EnumInv
<1>6. /\ n \in Nat /\ Len(emitted') = n + 1
      /\ \A k \in 1..n : emitted'[k] = emitted[k]
      /\ emitted'[n + 1] = Vector(cfg, c)
  <2>1. PICK S : emitted \in Seq(S)
    BY DEF IInv, Shape
  <2> DEFINE v == Vector(cfg, c)
             U == S \cup {v}
  <2>2. emitted \in Seq(U) /\ v \in U
    BY <2>1
  <2> HIDE DEF v, U
  <2>3. /\ n \in Nat /\ Len(Append(emitted, v)) = n + 1
        /\ \A k \in 1..n : Append(emitted, v)[k] = emitted[k]
        /\ Append(emitted, v)[n + 1] = v
    BY <2>2
  <2> QED
    BY <1>2, <2>3 DEF v
<1>7. /\ cs \in [1..n -> B]
      /\ \A k \in 1..n : emitted[k] = Vector(cfg, cs[k])
      /\ \A k, l \in 1..n : cs[k] = cs[l] => k = l
      /\ \A x \in B : (\E k \in 1..n : cs[k] = x) <=> Less(x, c, Len(b))
  BY <1>1, <1>5 DEF Chosen
<1>8. ~Less(c, c, Len(b))
  <2>1. Len(b) \in Nat /\ c \in [1..Len(b) -> Nat]
    BY <1>3 DEF Box, BoxTo
  <2> QED
    BY <2>1, NotBeforeItself
<1> HIDE DEF b, B, n
<1>9. PICK ds : /\ ds \in [1..(n + 1) -> B]
                /\ \A k \in 1..n : ds[k] = cs[k]
                /\ ds[n + 1] = c
  <2> DEFINE f == [k \in 1..(n + 1) |-> IF k = n + 1 THEN c ELSE cs[k]]
  <2>1. f \in [1..(n + 1) -> B] /\ (\A k \in 1..n : f[k] = cs[k]) /\ f[n + 1] = c
    BY <1>6, <1>7
  <2> HIDE DEF f
  <2> QED
    BY <2>1
<1>10. \A k \in 1..(n + 1) : k = n + 1 \/ k \in 1..n
  BY <1>6
<1>11. \A k \in 1..n : k \in 1..(n + 1)
  BY <1>6
<1>12. \A k \in 1..n : cs[k] # c
  BY <1>7, <1>8
<1>13. \A k \in 1..(n + 1) : emitted'[k] = Vector(cfg, ds[k])
  BY <1>6, <1>7, <1>9, <1>10
<1>14. \A k, l \in 1..(n + 1) : ds[k] = ds[l] => k = l
  BY <1>7, <1>9, <1>10, <1>12
<1>15. \A x \in B : (\E k \in 1..(n + 1) : ds[k] = x) <=> \A d \in cursor' : Less(x, d, Len(b))
  <2> SUFFICES ASSUME NEW x \in B
               PROVE  (\E k \in 1..(n + 1) : ds[k] = x) <=> Less(x, c, Len(b)) \/ x = c
    BY <1>4
  <2>1. (\E k \in 1..(n + 1) : ds[k] = x) <=> (\E k \in 1..n : cs[k] = x) \/ x = c
    <3>1. n + 1 \in 1..(n + 1)
      BY <1>6
    <3> QED
      BY <1>9, <1>10, <1>11, <3>1
  <2> QED
    BY <1>7, <2>1
<1>16. Chosen(ds)'
  <2>1. Bounds(cfg') = b /\ Box(b) = B
    BY <1>2 DEF b, B
  <2>2. ds \in [1..Len(emitted') -> Box(Bounds(cfg'))]
    BY <1>6, <1>9, <2>1
  <2>3. \A k \in 1..Len(emitted') : emitted'[k] = Vector(cfg', ds[k])
    BY <1>2, <1>6, <1>13
  <2>4. \A k, l \in 1..Len(emitted') : ds[k] = ds[l] => k = l
    BY <1>6, <1>14
  <2>5. \A x \in Box(Bounds(cfg')) :
          (\E k \in 1..Len(emitted') : ds[k] = x)
            <=> \A d \in cursor' : Less(x, d, Len(Bounds(cfg')))
    BY <1>6, <1>15, <2>1
  <2> QED
    BY <2>2, <2>3, <2>4, <2>5 DEF Chosen
<1> QED
  BY <1>2, <1>4, <1>16 DEF EnumInv, Started, b, B

LEMMA EnumStep == IInv /\ EnumInv /\ [Next]_vars => EnumInv'
<1> SUFFICES ASSUME IInv, EnumInv, [Next]_vars PROVE EnumInv'
  OBVIOUS
<1>1. ASSUME NEW w \in Workers, Feed(w) PROVE EnumInv'
  BY <1>1, FeedEnumerates
<1>2. ASSUME UNCHANGED <<cfg, cursor, emitted>> PROVE EnumInv'
  <2>1. PICK cs : Chosen(cs)
    BY DEF EnumInv
  <2>2. Chosen(cs)'
    BY <1>2, <2>1 DEF Chosen
  <2> QED
    BY <1>2, <2>2 DEF EnumInv, Started
<1>3. ASSUME NEW w \in Workers, Answer(w) \/ Collect(w) \/ WorkerExits(w) PROVE EnumInv'
  BY <1>2, <1>3 DEF Answer, Collect, WorkerExits
<1>4. CASE Cancel \/ ProducerStops \/ ProducerEnds \/ Return
  BY <1>2, <1>4 DEF Cancel, ProducerStops, ProducerEnds, Return
<1>5. CASE UNCHANGED vars
  BY <1>2, <1>5 DEF vars
<1> QED
  BY <1>1, <1>3, <1>4, <1>5 DEF Next, WorkerStep

LEMMA EnumInvariant == Spec => []EnumInv
BY Invariant, EnumInit, EnumStep, PTL DEF Spec

\* No more is sent than was announced, and all of it once the loops have ended.
LEMMA SentSoFar ==
  ASSUME IInv, EnumInv
  PROVE  /\ Len(emitted) \in Nat /\ Len(emitted) <= Count(cfg)
         /\ cursor = {} => /\ Len(emitted) = Count(cfg)
                           /\ {emitted[i] : i \in 1..Len(emitted)} = Tried(cfg)
<1> DEFINE B == Box(Bounds(cfg))
           n == Len(emitted)
<1>1. IsFiniteSet(B) /\ Count(cfg) = Cardinality(B) /\ Plausible(cfg)
  BY StartedFacts DEF EnumInv
<1>2. n \in Nat
  BY DEF IInv, Shape
<1>3. PICK cs : Chosen(cs)
  BY DEF EnumInv
<1>4. /\ cs \in [1..n -> B]
      /\ \A k \in 1..n : emitted[k] = Vector(cfg, cs[k])
      /\ \A k, l \in 1..n : cs[k] = cs[l] => k = l
      /\ cursor = {} => \A x \in B : \E k \in 1..n : cs[k] = x
  BY <1>3 DEF Chosen
<1> HIDE DEF B, n
<1>5. IsFiniteSet(1..n) /\ Cardinality(1..n) = n
  BY <1>2, UpTo
<1>6. n <= Cardinality(B)
  <2>1. cs \in Injection(1..n, B)
    BY <1>4 DEF Injection, IsInjective
  <2> QED
    BY <1>1, <1>5, <2>1, FS_Injection
<1>7. ASSUME cursor = {}
      PROVE  n = Cardinality(B) /\ {emitted[i] : i \in 1..n} = Tried(cfg)
  <2>1. Cardinality(B) = Cardinality(1..n)
    BY <1>4, <1>5, <1>7, SameSize
  <2>2. Tried(cfg) = {Vector(cfg, x) : x \in B}
    BY <1>1, VectorsTried DEF B
  <2>3. {emitted[i] : i \in 1..n} = {Vector(cfg, x) : x \in B}
    BY <1>4, <1>7
  <2> QED
    BY <1>5, <2>1, <2>2, <2>3
<1> QED
  BY <1>1, <1>2, <1>6, <1>7 DEF n

\* Whatever the attack type and the sets: an attack whose producer came to the
\* end of its loops has sent exactly the requests its type stands for, each once
\* and as many as Count announced (forEachJob and the producer in Engine.Run).
THEOREM EverythingTried == Spec => []EverythingIsTried
<1>1. IInv /\ EnumInv => EverythingIsTried
  BY SentSoFar DEF EverythingIsTried
<1> QED
  BY <1>1, Invariant, EnumInvariant, PTL

\* No loop has more turns than there are jobs.
LEMMA BoundsAreSmall ==
  ASSUME NEW b \in Seq(Nat), IsFiniteSet(Box(b)), Box(b) # {}, NEW i \in 1..Len(b)
  PROVE  b[i] <= Cardinality(Box(b))
<1> DEFINE n == Len(b)
           f == [j \in 1..n |-> 1]
           g == [v \in 1..b[i] |-> [j \in 1..n |-> IF j = i THEN v ELSE f[j]]]
<1>1. f \in Box(b)
  BY FirstTurn
<1>2. n \in Nat /\ i \in 1..n /\ b[i] \in Nat
  OBVIOUS
<1>3. f \in [1..n -> Nat] /\ \A j \in 1..n : f[j] \in 1..b[j]
  BY <1>1 DEF Box, BoxTo
<1> HIDE DEF n, f
<1>4. ASSUME NEW v \in 1..b[i]
      PROVE  [j \in 1..n |-> IF j = i THEN v ELSE f[j]] \in Box(b)
  <2> DEFINE h == [j \in 1..n |-> IF j = i THEN v ELSE f[j]]
  <2>1. h \in [1..n -> Nat]
    BY <1>2, <1>3
  <2>2. ASSUME NEW j \in 1..n PROVE h[j] \in 1..b[j]
    <3>1. CASE j = i
      BY <3>1
    <3>2. CASE j # i
      BY <1>3, <3>2
    <3> QED
      BY <3>1, <3>2
  <2> HIDE DEF h
  <2>3. h \in Box(b)
    BY <2>1, <2>2 DEF Box, BoxTo, n
  <2> QED
    BY <2>3 DEF h
<1>5. g \in [1..b[i] -> Box(b)]
  BY <1>4
<1>6. \A v \in 1..b[i] : g[v][i] = v
  BY <1>2
<1> HIDE DEF g
<1>7. g \in Injection(1..b[i], Box(b))
  <2>1. \A v, u \in 1..b[i] : g[v] = g[u] => v = u
    BY <1>6
  <2> QED
    BY <1>5, <2>1 DEF Injection, IsInjective
<1>8. Cardinality(1..b[i]) = b[i]
  BY <1>2, UpTo
<1>9. Cardinality(1..b[i]) <= Cardinality(Box(b))
  BY <1>7, FS_Injection
<1> QED
  BY <1>8, <1>9

\* A vector has a payload or the marked text in each position.
LEMMA VectorTyped ==
  ASSUME NEW conf, Plausible(conf), NEW x \in Box(Bounds(conf))
  PROVE  Vector(conf, x) \in [1..Positions(conf) -> Nat \X Nat]
<1> DEFINE P == Positions(conf)
           b == Bounds(conf)
<1>1. P \in Nat /\ Slots(conf) \in Nat /\ 1..P \subseteq Nat /\ Slots(conf) # 0
  BY PlausibleSlots
<1>2. b \in Seq(Nat) /\ x \in [1..Len(b) -> Nat]
  BY CountsTurns DEF Box, BoxTo
<1>3. CASE conf.type = "sniper"
  <2>1. b = <<P, conf.sets[1]>>
    BY <1>3 DEF Bounds
  <2>2. 2 \in 1..Len(b)
    BY <2>1
  <2>3. x[2] \in Nat
    BY <1>2, <2>2
  <2>4. Base(conf) \in [1..P -> Nat \X Nat]
    BY <1>1 DEF Base
  <2>5. Vector(conf, x) = [Base(conf) EXCEPT ![x[1]] = <<1, x[2]>>]
    BY <1>3 DEF Vector
  <2> DEFINE v == <<1, x[2]>>
  <2>6. v \in Nat \X Nat
    BY <2>3
  <2> HIDE DEF v
  <2>7. [Base(conf) EXCEPT ![x[1]] = v] \in [1..P -> Nat \X Nat]
    BY <2>4, <2>6
  <2> QED
    BY <2>5, <2>7 DEF v
<1>4. CASE conf.type = "battering_ram"
  <2>1. b = <<conf.sets[1]>>
    BY <1>4 DEF Bounds
  <2>2. 1 \in 1..Len(b)
    BY <2>1
  <2>3. x[1] \in Nat
    BY <1>2, <2>2
  <2>4. Vector(conf, x) = [i \in 1..P |-> <<1, x[1]>>]
    BY <1>4 DEF Vector
  <2> QED
    BY <2>3, <2>4
<1>5. CASE conf.type = "pitchfork"
  <2>1. b = <<lockstepLen(conf)>>
    BY <1>5 DEF Bounds
  <2>2. 1 \in 1..Len(b)
    BY <2>1
  <2>3. x[1] \in Nat
    BY <1>2, <2>2
  <2>4. Vector(conf, x) = [i \in 1..P |-> IF i <= Slots(conf) THEN <<i, x[1]>> ELSE <<0, i>>]
    BY <1>5 DEF Vector
  <2> QED
    BY <1>1, <2>3, <2>4
<1>6. CASE conf.type = "cluster_bomb"
  <2>1. b = [i \in 1..Slots(conf) |-> conf.sets[i]]
    BY <1>6 DEF Bounds
  <2>2. Len(b) = Slots(conf)
    BY <1>1, <1>2, <2>1
  <2>3. \A i \in 1..P : i <= Slots(conf) => x[i] \in Nat
    BY <1>1, <1>2, <2>2
  <2>4. Vector(conf, x) = [i \in 1..P |-> IF i <= Slots(conf) THEN <<i, x[i]>> ELSE <<0, i>>]
    BY <1>6 DEF Vector
  <2> QED
    BY <1>1, <2>3, <2>4
<1> QED
  BY <1>3, <1>4, <1>5, <1>6 DEF Plausible, AttackType

\* What the goroutines know of each other.
Hand ==
  /\ producer \in {"feeding", "closed"}
  /\ cancelled \in BOOLEAN /\ returned \in BOOLEAN
  /\ \A w \in Workers : worker[w] = "absent" <=> w > Concurrency
  /\ \A w \in Workers : worker[w] = "exited" => producer = "closed"
  /\ producer = "closed" => cancelled \/ cursor = {}

LEMMA ConcurrencyFits == ASSUME cfg \in Configs PROVE Concurrency \in 1..MaxConcurrency
BY EngineAssumption DEF Concurrency

LEMMA HandInvariant == Spec => []Hand
<1>1. Init => Hand
  <2> SUFFICES ASSUME Init PROVE Hand
    OBVIOUS
  <2>1. Concurrency \in Nat /\ \A w \in Workers : w \in Nat
    BY EngineAssumption, ConcurrencyFits DEF Init, Workers
  <2>2. \A w \in Workers : worker[w] = IF w <= Concurrency THEN "idle" ELSE "absent"
    BY DEF Init
  <2>3. \A w \in Workers : w <= Concurrency <=> ~(w > Concurrency)
    BY <2>1
  <2>4. \A w \in Workers : worker[w] # "exited" /\ (worker[w] = "absent" <=> w > Concurrency)
    BY <2>2, <2>3
  <2> QED
    BY <2>4 DEF Init, Hand
<1>2. IInv /\ Hand /\ [Next]_vars => Hand'
  <2> SUFFICES ASSUME IInv, Hand, [Next]_vars PROVE Hand'
    OBVIOUS
  <2> USE DEF Hand, IInv, Shape, Concurrency
  <2>1. ASSUME NEW w \in Workers, Feed(w) PROVE Hand'
    BY <2>1 DEF Feed
  <2>2. ASSUME NEW w \in Workers, Answer(w) PROVE Hand'
    BY <2>2 DEF Answer
  <2>3. ASSUME NEW w \in Workers, Collect(w) PROVE Hand'
    BY <2>3 DEF Collect
  <2>4. ASSUME NEW w \in Workers, WorkerExits(w) PROVE Hand'
    BY <2>4 DEF WorkerExits
  <2>5. CASE Cancel
    BY <2>5 DEF Cancel
  <2>6. CASE ProducerStops
    BY <2>6 DEF ProducerStops
  <2>7. CASE ProducerEnds
    BY <2>7 DEF ProducerEnds
  <2>8. CASE Return
    BY <2>8 DEF Return
  <2>9. CASE UNCHANGED vars
    BY <2>9 DEF vars
  <2> QED
    BY <2>1, <2>2, <2>3, <2>4, <2>5, <2>6, <2>7, <2>8, <2>9 DEF Next, WorkerStep
<1> QED
  BY <1>1, <1>2, Invariant, PTL DEF Spec

\* Every value has the type declared for it; the indices and the loop counters
\* stay within MaxJobs whatever is configured, which is what Validate is for.
THEOREM EngineTyped == Spec => []TypeOK
<1>1. IInv /\ EnumInv /\ Hand => TypeOK
  <2> SUFFICES ASSUME IInv, EnumInv, Hand PROVE TypeOK
    OBVIOUS
  <2> DEFINE b == Bounds(cfg)
             B == Box(b)
             n == Len(emitted)
             P == Positions(cfg)
  <2>1. /\ Plausible(cfg) /\ b \in Seq(Nat) /\ IsFiniteSet(B) /\ MaxJobs \in Nat
        /\ Count(cfg) \in Nat /\ Count(cfg) <= MaxJobs /\ Count(cfg) = Cardinality(B)
    BY StartedFacts DEF EnumInv
  <2>2. n \in Nat /\ n <= MaxJobs
    <3>1. n \in Nat /\ n <= Count(cfg)
      BY SentSoFar
    <3> QED
      BY <2>1, <3>1
  <2>3. cursor = {} \/ \E c \in cursor : cursor = {c} /\ c \in [1..Len(b) -> 1..MaxJobs]
    <3> SUFFICES ASSUME cursor # {}
                 PROVE  \E c \in cursor : cursor = {c} /\ c \in [1..Len(b) -> 1..MaxJobs]
      OBVIOUS
    <3>1. PICK c \in B : cursor = {c}
      BY DEF EnumInv
    <3>2. c \in [1..Len(b) -> Nat] /\ \A i \in 1..Len(b) : c[i] \in 1..b[i] /\ b[i] \in Nat
      BY <2>1 DEF Box, BoxTo
    <3>3. ASSUME NEW i \in 1..Len(b) PROVE c[i] \in 1..MaxJobs
      <4>1. b[i] <= Cardinality(B)
        BY <2>1, <3>1, BoundsAreSmall
      <4> HIDE DEF b, B
      <4> QED
        BY <2>1, <3>2, <4>1
    <3> HIDE DEF b, B
    <3> QED
      BY <3>1, <3>2, <3>3
  <2>4. emitted \in Seq(UNION {[1..m -> Nat \X Nat] : m \in {P}})
    <3> DEFINE U == UNION {[1..m -> Nat \X Nat] : m \in {P}}
    <3>1. PICK cs : Chosen(cs)
      BY DEF EnumInv
    <3>2. \A k \in 1..n : emitted[k] = Vector(cfg, cs[k]) /\ cs[k] \in B
      BY <3>1 DEF Chosen
    <3>3. \A k \in 1..n : emitted[k] \in U
      <4>1. \A k \in 1..n : emitted[k] \in [1..P -> Nat \X Nat]
        BY <2>1, <3>2, VectorTyped
      <4> QED
        BY <4>1
    <3>4. PICK S : emitted \in Seq(S)
      BY DEF IInv, Shape
    <3>5. emitted = [k \in 1..n |-> emitted[k]]
      BY <3>4
    <3> HIDE DEF U, n
    <3>6. emitted \in [1..n -> U]
      BY <3>3, <3>5
    <3> QED
      BY <2>2, <3>6 DEF U
  <2>5. job \in [Workers -> 0..MaxJobs]
    <3>1. \A w \in Workers : job[w] \in 0..n
      BY DEF IInv, Hands
    <3>2. job \in [Workers -> Nat]
      BY DEF IInv, Shape
    <3> HIDE DEF n
    <3> QED
      BY <2>1, <2>2, <3>1, <3>2
  <2>6. collected \in Seq(1..MaxJobs)
    <3>1. collected \in Seq(Nat) /\ \A k \in 1..Len(collected) : collected[k] \in 1..n
      BY DEF IInv, Shape, Collections
    <3> HIDE DEF n
    <3> DEFINE m == Len(collected)
    <3>2. m \in Nat /\ collected = [k \in 1..m |-> collected[k]]
      BY <3>1
    <3>3. \A k \in 1..m : collected[k] \in 1..MaxJobs
      BY <2>1, <2>2, <3>1
    <3> HIDE DEF m
    <3>4. collected \in [1..m -> 1..MaxJobs]
      BY <3>2, <3>3
    <3> QED
      BY <3>2, <3>4
  <2>7. cfg \in Configs /\ worker \in [Workers -> {"absent", "idle", "sending", "answered", "exited"}]
    BY DEF EnumInv, Started, IInv, Shape
  <2> QED
    BY <2>3, <2>4, <2>5, <2>6, <2>7 DEF TypeOK, Hand
<1> QED
  BY <1>1, Invariant, EnumInvariant, HandInvariant, PTL

-----------------------------------------------------------------------------
(* Run is the executing phase of IntruderRunner.                           *)

LEMMA ContractInit == Init => Contract!Init
<1> SUFFICES ASSUME Init PROVE Contract!Init
  OBVIOUS
<1>1. Count(cfg) \in Nat
  BY StartedFacts DEF Init, Started
<1>2. collected = <<>> /\ cancelled = FALSE /\ returned = FALSE
  BY DEF Init
<1>3. {collected[k] : k \in 1..Len(collected)} = {}
  BY <1>2
<1> QED
  BY <1>1, <1>2, <1>3 DEF Contract!Init

LEMMA ContractStep ==
  ASSUME IInv, EnumInv, Hand, [Next]_vars
  PROVE  [Contract!Next]_Contract!vars
<1> DEFINE sent == {collected[k] : k \in 1..Len(collected)}
           n == Len(emitted)
           C == Count(cfg)
<1>1. n \in Nat /\ C \in Nat /\ n <= C /\ (cursor = {} => n = C)
  BY StartedFacts, SentSoFar DEF EnumInv
<1>2. collected \in Seq(Nat) /\ \A k \in 1..Len(collected) : collected[k] \in 1..n
  BY DEF IInv, Shape, Collections
<1> HIDE DEF n
<1>3. ASSUME UNCHANGED <<cfg, collected, cancelled, returned>> PROVE UNCHANGED Contract!vars
  BY <1>3 DEF Contract!vars
<1>4. ASSUME NEW w \in Workers, Collect(w) PROVE Contract!Result
  <2> DEFINE x == job[w]
  <2>1. /\ worker[w] = "answered" /\ ~returned /\ collected' = Append(collected, x)
        /\ UNCHANGED <<cfg, cancelled, returned>>
    BY <1>4 DEF Collect
  <2>2. x \in 1..n /\ x \in Nat
    BY <1>1, <2>1 DEF IInv, Shape, Hands, n
  <2>3. x \in (1..C) \ sent
    <3>1. \A k \in 1..Len(collected) : collected[k] # x
      BY DEF IInv, Hands
    <3> HIDE DEF x
    <3> QED
      BY <1>1, <2>2, <3>1
  <2>4. sent' = sent \cup {x}
    <3> DEFINE m == Len(collected)
    <3>1. /\ m \in Nat /\ Len(collected') = m + 1 /\ collected'[m + 1] = x
          /\ \A k \in 1..m : collected'[k] = collected[k]
      BY <1>2, <2>1, <2>2
    <3> HIDE DEF m, x
    <3>2. sent' = {collected'[k] : k \in 1..(m + 1)} /\ sent = {collected[k] : k \in 1..m}
      BY <3>1 DEF m
    <3>3. \A k \in 1..(m + 1) : k = m + 1 \/ k \in 1..m
      BY <3>1
    <3>4. m + 1 \in 1..(m + 1) /\ \A k \in 1..m : k \in 1..(m + 1)
      BY <3>1
    <3> HIDE DEF sent
    <3> QED
      BY <3>1, <3>2, <3>3, <3>4
  <2> HIDE DEF sent, x
  <2>5. \E k \in (1..C) \ sent : sent' = sent \cup {k}
    BY <2>3, <2>4
  <2> QED
    BY <2>1, <2>5 DEF Contract!Result, sent
<1>5. CASE Cancel
  <2>1. Contract!Cancel
    BY <1>5 DEF Cancel, Contract!Cancel
  <2> QED
    BY <2>1 DEF Contract!Next
<1>6. CASE Return
  <2>1. (\A w \in Workers : worker[w] \in {"absent", "exited"}) /\ returned' = TRUE
        /\ UNCHANGED <<cfg, collected, cancelled>>
    BY <1>6 DEF Return
  <2>2. cancelled \/ cursor = {}
    <3>1. 1 \in Workers /\ ~(1 > Concurrency)
      BY EngineAssumption, ConcurrencyFits DEF Workers, EnumInv, Started
    <3>2. worker[1] = "exited"
      BY <2>1, <3>1 DEF Hand
    <3> QED
      BY <3>1, <3>2 DEF Hand
  <2>3. ASSUME cursor = {} PROVE sent = 1..C
    <3>1. \A w \in Workers : job[w] = 0
      BY <2>1 DEF IInv, Hands
    <3>2. \A i \in 1..n : \E k \in 1..Len(collected) : collected[k] = i
      BY <1>1, <3>1 DEF IInv, Accounted, n
    <3>3. sent = 1..n
      BY <1>2, <3>2
    <3> QED
      BY <1>1, <2>3, <3>3
  <2>4. Contract!Return
    <3>1. UNCHANGED <<Count(cfg), sent, cancelled>>
      BY <2>1
    <3> HIDE DEF C
    <3> QED
      BY <2>1, <2>2, <2>3, <3>1 DEF Contract!Return, C
  <2> QED
    BY <2>4 DEF Contract!Next
<1>7. ASSUME NEW w \in Workers, Feed(w) \/ Answer(w) \/ WorkerExits(w)
      PROVE  UNCHANGED Contract!vars
  BY <1>3, <1>7 DEF Feed, Answer, WorkerExits
<1>8. CASE ProducerStops \/ ProducerEnds
  BY <1>3, <1>8 DEF ProducerStops, ProducerEnds
<1>9. CASE UNCHANGED vars
  BY <1>3, <1>9 DEF vars
<1> QED
  BY <1>4, <1>5, <1>6, <1>7, <1>8, <1>9 DEF Next, WorkerStep, Contract!Next

\* Engine.Run does to its caller only what Runner relies on: results of requests
\* that were announced, none twice, nothing after it has returned, and a return
\* before the last result only when it was cancelled.
THEOREM EngineRefinesContract == Spec => Contract!Init /\ [][Contract!Next]_Contract!vars
BY Invariant, EnumInvariant, HandInvariant, ContractInit, ContractStep, PTL DEF Spec
=============================================================================
