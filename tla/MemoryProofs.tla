---------------------------- MODULE MemoryProofs ----------------------------
(***************************************************************************)
(* The events of n-dimensional copies and fills, for any operations: when  *)
(* an operation of the SYCL queue has ended, the event that it took for    *)
(* the queue's last one is that of the last native call.  An operation is  *)
(* ended by the nested loop over its repetitions, the event is taken where *)
(* every index is the last one: the proof shows that the two agree.        *)
(***************************************************************************)
EXTENDS Memory, VectorsProofs

\* A product that is not zero has no factor that is.
LEMMA Factors ==
    ASSUME NEW v \in Seq(Nat), Product(v) # 0, NEW k \in 1..Len(v)
    PROVE  v[k] # 0
<1>1. PICK n \in Nat : n = Len(v)
  OBVIOUS
<1>2. PICK g : ProductsOf(v, g, n) /\ Product(v) = g[n]
  BY <1>1, ProductDef
<1>3. g[0] = 1 /\ \A d \in 1..n : g[d] = g[d - 1] * v[d]
  BY <1>2, ProductsStep
<1>4. SUFFICES ASSUME v[k] = 0 PROVE g[n] = 0
  BY <1>2
<1> DEFINE S == {d \in 0..n : g[d] \in Nat /\ (k <= d => g[d] = 0)}
<1>5. ASSUME NEW d \in 1..n, d - 1 \in S PROVE d \in S
  <2>1. PICK a \in Nat, b \in Nat : a = g[d - 1] /\ b = v[d]
    BY <1>1, <1>5
  <2>2. g[d] = a * b
    BY <1>3, <2>1
  <2>3. a * b \in Nat /\ (a = 0 \/ b = 0 => a * b = 0)
    OBVIOUS
  <2>4. k <= d => a = 0 \/ b = 0
    BY <1>1, <1>4, <1>5, <2>1
  <2> QED
    BY <2>2, <2>3, <2>4
<1>6. 0 \in S /\ S \subseteq 0..n
  BY <1>1, <1>3
<1> HIDE DEF S
<1>7. n \in S
  BY <1>5, <1>6, Fewer
<1> QED
  BY <1>1, <1>7 DEF S

-----------------------------------------------------------------------------
(* The repetitions of an operation.                                        *)

\* An operation of the SYCL queue that is not over at once.
Runs(j) ==
    /\ j \in Jobs /\ j.op # "iterate" /\ j.api = "sycl"
    /\ Product(j.extents) # 0 \/ Len(j.extents) = 1

\* It is repeated at least once.
LEMMA Repetitions ==
    ASSUME NEW j, Runs(j)
    PROVE  \E n \in Nat \ {0} : Plan(j).reps \in [1..n -> Nat \ {0}]
<1>1. PICK e, m : e = j.extents /\ m = Len(e) /\ e \in Seq(Nat) /\ m \in Nat \ {0}
  BY MemoryAssumption DEF Runs
<1>8. m \in Nat /\ m # 0
  BY <1>1
<1>2. j.op \in {"memcpy", "memset"} /\ j.api = "sycl"
  BY MemoryAssumption DEF Runs
<1>3. PICK fused : Plan(j) = SyclCalls(j, fused)
  BY <1>2 DEF Plan, SyclMemcpy, SyclMemset
<1>4. ASSUME NEW n \in Nat \ {0}, NEW h, NEW d, Plan(j) = Once(n, h, d)
      PROVE  Plan(j).reps \in [1..n -> Nat \ {0}]
  BY <1>4 DEF Once, Fill
<1>5. CASE m = 1
  <2>1. Plan(j) = Once(1, 1, 1)
    BY <1>1, <1>3, <1>5 DEF SyclCalls
  <2> QED
    BY <1>4, <2>1
<1>6. CASE m = 2
  <2>1. Plan(j) = Once(2, Y(e), 1)
    BY <1>1, <1>3, <1>6 DEF SyclCalls
  <2> QED
    BY <1>4, <2>1
<1>7. CASE m > 2
  <2>1. Plan(j) = IF fused THEN Once(2, Product(Slower(e, 1)), 1) ELSE Repeated(j, 2, Y(e), 1)
    BY <1>1, <1>3, <1>7 DEF SyclCalls
  <2>2. CASE fused
    <3>1. Plan(j) = Once(2, Product(Slower(e, 1)), 1)
      BY <2>1, <2>2
    <3> QED
      BY <1>4, <3>1
  <2>3. CASE ~fused
    <3>1. Plan(j).reps = SubSeq(e, 1, m - 2)
      BY <1>1, <2>1, <2>3 DEF Repeated, Slower
    <3>2. PICK n \in Nat \ {0} : n = m - 2
      <4>1. m - 2 \in Nat \ {0}
        BY <1>7, <1>8
      <4> QED
        BY <4>1
    <3>3. \A d \in 1..m : e[d] \in Nat \ {0}
      <4>1. Product(e) # 0
        <5>1. Product(j.extents) # 0 \/ Len(j.extents) = 1
          BY DEF Runs
        <5>2. m # 1
          BY <1>7
        <5> QED
          BY <1>1, <5>1, <5>2
      <4>2. \A d \in 1..m : e[d] # 0
        BY <1>1, <4>1, Factors
      <4>3. \A d \in 1..m : e[d] \in Nat
        BY <1>1
      <4> QED
        BY <4>2, <4>3
    <3>4. SubSeq(e, 1, n) = [d \in 1..n |-> e[d]]
      <4>1. /\ SubSeq(e, 1, n) \in Seq(Nat) /\ Len(SubSeq(e, 1, n)) = n
            /\ \A d \in 1..n : SubSeq(e, 1, n)[d] = e[1 + d - 1]
        BY <1>1, <3>2, SubSeqProperties
      <4>2. \A d \in 1..n : 1 + d - 1 = d
        OBVIOUS
      <4> QED
        BY <4>1, <4>2
    <3>5. [d \in 1..n |-> e[d]] \in [1..n -> Nat \ {0}]
      BY <1>1, <3>2, <3>3
    <3> QED
      BY <3>1, <3>2, <3>4, <3>5
  <2> QED
    BY <2>2, <2>3
<1>9. m = 1 \/ m = 2 \/ m > 2
  BY <1>8
<1> QED
  BY <1>5, <1>6, <1>7, <1>9

\* i is the index of a repetition.
Within(reps, i) == \E n \in Nat \ {0} :
    /\ reps \in [1..n -> Nat \ {0}] /\ i \in [1..n -> Nat]
    /\ \A d \in 1..n : i[d] < reps[d]

\* The nested loop ends after the index that is the last one in every dimension, and goes on to
\* the index of a repetition before.
LEMMA AdvanceWithin ==
    ASSUME NEW reps, NEW i, Within(reps, i)
    PROVE  IF Advance(reps, i)[1] >= reps[1] THEN \A d \in Dims(i) : i[d] = reps[d] - 1
           ELSE Within(reps, Advance(reps, i))
<1>1. PICK n \in Nat \ {0} :
         /\ reps \in [1..n -> Nat \ {0}] /\ i \in [1..n -> Nat]
         /\ \A d \in 1..n : i[d] < reps[d]
  BY DEF Within
<1>2. Dims(i) = 1..n
  <2>1. n \in Nat
    OBVIOUS
  <2> QED
    BY <1>1, <2>1, Vector
<1> DEFINE S == {1} \cup {d \in Dims(i) : i[d] + 1 < reps[d]}
<1>3. PICK c : c = Max(S) /\ c \in S /\ \A d \in S : d <= c
  <2>1. S \in SUBSET (1..n) /\ S # {} /\ n \in Nat
    BY <1>2
  <2> HIDE DEF S
  <2> QED
    BY <2>1, Largest
<1>4. c \in 1..n /\ (c # 1 => i[c] + 1 < reps[c])
  BY <1>2, <1>3
<1>5. \A d \in 1..n : c < d => ~(i[d] + 1 < reps[d])
  BY <1>2, <1>3, <1>4
<1>6. PICK next : next = [d \in 1..n |-> IF d < c THEN i[d] ELSE IF d = c THEN i[d] + 1 ELSE 0]
  OBVIOUS
<1>7. Advance(reps, i) = next
  BY <1>2, <1>3, <1>6 DEF Advance
<1>8. next \in [1..n -> Nat]
  BY <1>1, <1>4, <1>6
<1>9. CASE next[1] >= reps[1]
  <2>1. c = 1
    <3>1. SUFFICES ASSUME 1 < c PROVE FALSE
      BY <1>4
    <3>2. next[1] = i[1]
      BY <1>1, <1>6, <3>1
    <3> QED
      BY <1>1, <1>9, <3>2
  <2>2. next[1] = i[1] + 1
    BY <1>1, <1>6, <2>1
  <2>3. i[1] = reps[1] - 1
    BY <1>1, <1>9, <2>2
  <2>4. ASSUME NEW d \in 1..n PROVE i[d] = reps[d] - 1
    <3>1. i[d] \in Nat /\ reps[d] \in Nat /\ i[d] < reps[d]
      BY <1>1
    <3>2. d = 1 \/ c < d
      BY <2>1
    <3>3. c < d => ~(i[d] + 1 < reps[d])
      BY <1>5
    <3> QED
      BY <2>3, <3>1, <3>2, <3>3
  <2> QED
    BY <1>2, <1>7, <1>9, <2>4
<1>10. CASE ~(next[1] >= reps[1])
  <2>1. ASSUME NEW d \in 1..n PROVE next[d] < reps[d]
    <3>1. next[d] = IF d < c THEN i[d] ELSE IF d = c THEN i[d] + 1 ELSE 0
      BY <1>6
    <3>2. i[d] \in Nat /\ reps[d] \in Nat \ {0} /\ i[d] < reps[d]
      BY <1>1
    <3>3. d = c => i[d] + 1 < reps[d]
      <4>1. CASE c = 1
        BY <1>1, <1>6, <1>10, <4>1, <3>1, <3>2
      <4>2. CASE c # 1
        BY <1>4, <4>2
      <4> QED
        BY <4>1, <4>2
    <3> QED
      BY <1>4, <3>1, <3>2, <3>3
  <2> QED
    BY <1>1, <1>7, <1>8, <1>10, <2>1 DEF Within
<1> QED
  BY <1>7, <1>9, <1>10

\* The loop begins with the index of a repetition.
LEMMA FirstRepetition ==
    ASSUME NEW j, Runs(j)
    PROVE  Within(Plan(j).reps, Fill(Len(Plan(j).reps), 0))
<1>1. PICK n, r : n \in Nat \ {0} /\ r = Plan(j).reps /\ r \in [1..n -> Nat \ {0}]
  BY Repetitions
<1>2. Len(r) = n
  <2>1. n \in Nat
    BY <1>1
  <2> QED
    BY <1>1, <2>1, Vector
<1>3. Fill(n, 0) \in [1..n -> Nat] /\ \A d \in 1..n : Fill(n, 0)[d] = 0
  BY DEF Fill
<1>4. \A d \in 1..n : Fill(n, 0)[d] < r[d]
  BY <1>1, <1>3
<1> QED
  BY <1>1, <1>2, <1>3, <1>4 DEF Within

-----------------------------------------------------------------------------
(* The theorem.                                                            *)

\* The operation is one of the SYCL queue.
Asynchronous == job.op # "iterate" /\ job.api = "sycl"

\* Before the operation there are no calls and no event; while it is repeated the index is that
\* of a repetition.
EventInv ==
    /\ job \in Jobs
    /\ pc \in {"begin", "loop", "done"}
    /\ pc = "begin" => calls = 0 /\ event = 0
    /\ pc = "loop" /\ Asynchronous => Within(Plan(job).reps, idx)
    /\ EventCoversAllCalls

\* A repetition keeps the invariant, if the call's event is taken in the last one.
LEMMA RepeatKeeps ==
    ASSUME EventInv, Repeat, Asynchronous => event' = IF LastRepetition THEN calls' ELSE event
    PROVE  EventInv'
<1>1. PICK reps, next : reps = Plan(job).reps /\ next = Advance(reps, idx)
  OBVIOUS
<1>2. /\ job' = job /\ job \in Jobs /\ idx' = next
      /\ pc = "loop" /\ pc' = IF next[1] >= reps[1] THEN "done" ELSE "loop"
  BY <1>1 DEF Repeat, EventInv
<1>3. CASE Asynchronous
  <2>1. Within(reps, idx)
    BY <1>1, <1>2, <1>3 DEF EventInv
  <2>2. IF next[1] >= reps[1] THEN \A d \in Dims(idx) : idx[d] = reps[d] - 1 ELSE Within(reps, next)
    BY <1>1, <2>1, AdvanceWithin
  <2>3. CASE next[1] >= reps[1]
    <3>1. LastRepetition
      BY <1>1, <2>2, <2>3 DEF LastRepetition
    <3>2. event' = calls'
      BY <1>3, <3>1
    <3> QED
      BY <1>2, <2>3, <3>2 DEF EventInv, EventCoversAllCalls
  <2>4. CASE ~(next[1] >= reps[1])
    <3>1. Plan(job)' = Plan(job)
      BY <1>2 DEF Plan
    <3> QED
      BY <1>1, <1>2, <2>2, <2>4, <3>1 DEF EventInv, EventCoversAllCalls, Finished
  <2> QED
    BY <2>3, <2>4
<1>4. CASE ~Asynchronous
  <2>1. ~Asynchronous'
    BY <1>2, <1>4 DEF Asynchronous
  <2> QED
    BY <1>2, <1>4, <2>1 DEF EventInv, EventCoversAllCalls, Asynchronous
<1> QED
  BY <1>3, <1>4

\* Every step keeps the invariant.
LEMMA EventStep == ASSUME EventInv, [Next]_vars PROVE EventInv'
<1>1. CASE Enqueue
  <2>1. /\ pc = "begin" /\ job.op \in {"memcpy", "memset"} /\ job' = job /\ job \in Jobs
        /\ calls' = calls /\ event' = event /\ calls = 0 /\ event = 0
    BY <1>1 DEF Enqueue, EventInv
  <2>2. CASE pc' = "done"
    BY <2>1, <2>2 DEF EventInv, EventCoversAllCalls
  <2>3. CASE pc' # "done"
    <3>1. /\ pc' = "loop" /\ idx' = Fill(Len(Plan(job).reps), 0)
          /\ ~(Product(job.extents) = 0 /\ ~(job.api = "sycl" /\ Len(job.extents) = 1))
      BY <1>1, <2>3 DEF Enqueue
    <3>2. Asynchronous => Runs(job)
      BY <2>1, <3>1 DEF Runs, Asynchronous
    <3>3. Asynchronous => Within(Plan(job).reps, idx')
      BY <3>1, <3>2, FirstRepetition
    <3>4. Plan(job)' = Plan(job) /\ Asynchronous' = Asynchronous
      BY <2>1 DEF Plan, Asynchronous
    <3> QED
      BY <2>1, <3>1, <3>3, <3>4 DEF EventInv, EventCoversAllCalls, Finished
  <2> QED
    BY <2>2, <2>3
<1>2. CASE HostMemcpyRow \/ HostMemsetRow \/ Memcopy3D \/ Memset3D
  <2>1. Repeat /\ ~Asynchronous
    BY <1>2 DEF HostMemcpyRow, HostMemsetRow, Memcopy3D, Memset3D, Native, Asynchronous
  <2> QED
    BY <2>1, RepeatKeeps
<1>3. CASE Memcopy2D \/ Memset2D
  <2>1. Repeat /\ event' = IF LastRepetition THEN calls' ELSE event
    BY <1>3 DEF Memcopy2D, Memset2D, Native
  <2> QED
    BY <2>1, RepeatKeeps
<1>4. CASE IterBegin \/ IterVisit \/ IterEnd
  <2>1. job' = job /\ job \in Jobs /\ job.op = "iterate"
    <3>1. IterBegin \/ IterVisit \/ IterEnd => job' = job /\ job.op = "iterate"
      BY DEF IterBegin, IterVisit, IterEnd
    <3> QED
      BY <1>4, <3>1 DEF EventInv
  <2>2. pc' \in {"loop", "done"}
    BY <1>4 DEF IterBegin, IterVisit, IterEnd
  <2> QED
    BY <2>1, <2>2 DEF EventInv, EventCoversAllCalls, Asynchronous
<1>5. CASE UNCHANGED vars
  <2>1. /\ job' = job /\ pc' = pc /\ idx' = idx /\ calls' = calls /\ event' = event
    BY <1>5 DEF vars
  <2>2. Plan(job)' = Plan(job)
    BY <2>1 DEF Plan
  <2> QED
    BY <2>1, <2>2 DEF EventInv, EventCoversAllCalls, Finished, Asynchronous
<1>6. CASE Finished /\ UNCHANGED vars
  BY <1>5, <1>6
<1> QED
  BY <1>1, <1>2, <1>3, <1>4, <1>5, <1>6 DEF Next

\* "the last call must create an event" (memcpy and memset of the SYCL queue): the event that an
\* operation leaves is that of its last native call, for any extents, pitches and way of fusing.
THEOREM LastEventCovers == Spec => []EventCoversAllCalls
<1>1. Init => EventInv
  BY DEF Init, EventInv, EventCoversAllCalls, Finished, Asynchronous
<1>2. EventInv /\ [Next]_vars => EventInv'
  BY EventStep
<1>3. EventInv => EventCoversAllCalls
  BY DEF EventInv
<1> QED
  BY <1>1, <1>2, <1>3, PTL DEF Spec
=============================================================================
