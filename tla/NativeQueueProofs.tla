-------------------------- MODULE NativeQueueProofs --------------------------
(***************************************************************************)
(* Proofs about NativeQueue, for any set of threads, queues, events and    *)
(* programs: operations are done in the order of the queue and of the      *)
(* events it waits for, across the native queue and the callback thread,   *)
(* and what a wait reports as finished is done.  Then reference counts:    *)
(* each is the number of those who hold a reference, so that no resource   *)
(* is destroyed that somebody still uses, and the memory of a kept buffer  *)
(* is freed after its use.                                                 *)
(***************************************************************************)
EXTENDS NativeQueue, SequenceTheorems, FiniteSetTheorems, TLAPS

-----------------------------------------------------------------------------
(* The inductive invariant: the native queue and the callback thread.      *)

OpKind == EnqueueKind \cup {"event", "waitFor", "alloc", "free"}

OpType == [kind : OpKind, q : Queue, target : Nat, after : SUBSET Nat]

CoreType ==
    /\ program \in Programs
    /\ op \in Seq(OpType)
    /\ stream \in [Queue -> Seq(Nat)] /\ tasks \in [Queue -> Seq(Nat)]
    /\ host \in [Queue -> {"idle", "submitted", "closing"}]
    /\ worker \in [Queue -> {"idle", "ran", "destroying"}]
    /\ current \in [Queue -> Nat]
    /\ finished \subseteq Op /\ executed \subseteq Op

\* What operation i comes after: operations of its queue, what an earlier waitFor
\* of its queue comes after, or what the event covers that it waits for itself.
AfterOf(i, j) ==
    /\ j \in Op /\ j < i
    /\ \/ op[j].q = op[i].q /\ (op[j].kind \in DeferredKind => op[i].kind \in HostKind)
       \/ \E w \in Op : w < i /\ op[w].kind = "waitFor" /\ op[w].q = op[i].q /\ j \in op[w].after
       \/ /\ op[i].kind = "waitFor" /\ op[i].target \in Op
          /\ op[op[i].target].kind = "event" /\ j \in op[op[i].target].after

AfterInv == \A i \in Op : \A j \in op[i].after : AfterOf(i, j)

\* The native queue holds its operations in order until they are complete.
StreamInv(q) ==
    /\ \A k \in 1..Len(stream[q]) : stream[q][k] \in Op \ finished /\ op[stream[q][k]].q = q
    /\ \A k, l \in 1..Len(stream[q]) : k < l => stream[q][k] < stream[q][l]
    /\ \A i \in Op : op[i].q = q =>
          \/ i \in finished /\ \A k \in 1..Len(stream[q]) : i < stream[q][k]
          \/ \E k \in 1..Len(stream[q]) : i = stream[q][k]

\* The host function at the head of the native queue has submitted its task.
InHost(q) == host[q] = "submitted" \/ (Cuda /\ host[q] = "closing")

HostInv(q) ==
    /\ InHost(q) => stream[q] # <<>> /\ op[HeadOf(q)].kind \in HostKind
    /\ Cuda /\ host[q] = "closing" /\ op[HeadOf(q)].kind \notin DeferredKind => HeadOf(q) \in executed

\* A host function whose task was submitted.
Handed(i) == i \in finished \/ (InHost(op[i].q) /\ i = HeadOf(op[i].q))

\* The tasks of the callback thread, 0 apart, are host functions in order.
TaskInv(q) ==
    /\ \A k \in 1..Len(tasks[q]) : tasks[q][k] # FreeClosure =>
          /\ tasks[q][k] \in Op /\ op[tasks[q][k]].q = q /\ op[tasks[q][k]].kind \in HostKind
          /\ Handed(tasks[q][k])
    /\ \A k, l \in 1..Len(tasks[q]) :
          k < l /\ tasks[q][k] # FreeClosure /\ tasks[q][l] # FreeClosure => tasks[q][k] < tasks[q][l]
    /\ \A i \in Op : op[i].q = q /\ op[i].kind \in HostKind /\ Handed(i) =>
          i \in executed \/ \E k \in 1..Len(tasks[q]) : i = tasks[q][k]

\* The task that the callback thread is at has been executed.
WorkerInv(q) ==
    /\ worker[q] = "ran" => tasks[q] # <<>> /\ current[q] = Head(tasks[q])
    /\ worker[q] # "idle" /\ current[q] # FreeClosure => current[q] \in executed

\* A deferred function is complete, for the native queue, when it is handed over;
\* anything else when it is done.
ExecInv ==
    /\ future \subseteq executed
    /\ \A i \in finished : op[i].kind \notin DeferredKind => i \in executed
    /\ OperationsInOrder

QueueInv(q) == StreamInv(q) /\ HostInv(q) /\ TaskInv(q) /\ WorkerInv(q)

CoreInv == CoreType /\ AfterInv /\ ExecInv /\ \A q \in Queue : QueueInv(q)

-----------------------------------------------------------------------------
(* The inductive invariant: the users, the events and the references.      *)

ThreadType == [at : {"free", "setEvent", "setLast", "sync", "await", "return"},
               call : Call \cup {"none"}, q : Queue \cup {None}, e : Event \cup {None},
               op : Nat, goal : SUBSET Nat, cover : SUBSET Nat]

UserType ==
    /\ event \in [Event -> [op : Nat, cover : SUBSET Nat]]
    /\ need \in [Queue -> SUBSET Nat]
    /\ thread \in [Thread -> ThreadType]
    /\ returned \subseteq Op

\* What a queue needs because of waitFor, a waitFor in it comes after.
NeedOf(q) ==
    \A j \in need[q] : \E w \in Op : op[w].kind = "waitFor" /\ op[w].q = q /\ j \in op[w].after

\* An event covers what the operation comes after that it was recorded with.
EventOf(e) ==
    \/ event[e].op = 0 /\ event[e].cover = {}
    \/ event[e].op \in Op /\ op[event[e].op].kind = "event" /\ event[e].cover = op[event[e].op].after

\* Once S is complete, what is in cover is done.
Covered(S, cover) ==
    \A j \in cover : \E g \in S \cap Op : op[g].kind \notin DeferredKind /\ (j = g \/ j \in op[g].after)

Waits == {"waitQueue", "waitEvent"}

\* What a call under way has submitted and what it will report as finished.
ThreadOf(t) ==
    /\ thread[t].at # "free" => thread[t].q \in Queue
    /\ thread[t].at = "free" => thread[t].op = 0 /\ thread[t].call = "none"
    /\ thread[t].op # 0 => /\ thread[t].op \in Op
                           /\ op[thread[t].op].kind = thread[t].call
                           /\ op[thread[t].op].q = thread[t].q
    /\ thread[t].at = "setEvent" => /\ thread[t].op # 0 /\ thread[t].call = "event"
                                    /\ thread[t].cover = op[thread[t].op].after
    /\ thread[t].at = "await" => thread[t].op \in finished \cup thread[t].goal \cup {0}
    /\ thread[t].at = "return" /\ Blocking(thread[t].q) => thread[t].op \in finished \cup {0}
    /\ thread[t].call \in Waits =>
          /\ thread[t].op = 0 /\ thread[t].at \in {"await", "return"}
          /\ Covered(finished \cup (IF thread[t].at = "await" THEN thread[t].goal ELSE {}),
                     thread[t].cover)

UserInv ==
    /\ UserType
    /\ promised \subseteq executed
    /\ \A q \in Queue : NeedOf(q)
    /\ \A e \in Event : EventOf(e)
    /\ \A t \in Thread : ThreadOf(t)

RefType == [what : {"buffer", "wait", "await", "deleter", "handle", "thread", "stream"},
            q : Queue, goal : SUBSET Nat]

\* nobody has a reference of a buffer that is not allocated
Refs == {x \in RefType : x.what = "buffer" => buffer.q # None}

BufferType == [q : Queue \cup {None}, refs : Int, user : BOOLEAN, waits : Queue \cup {None},
               cover : SUBSET Nat]

TodoInv ==
    /\ buffer \in BufferType
    /\ todo \in [Actor -> Seq(Refs)]
    /\ buffer.q = None => ~buffer.user /\ \A i \in Op : op[i].kind # "keepAlive"

IndInv == CoreInv /\ UserInv /\ TodoInv

-----------------------------------------------------------------------------
(* Sequences.                                                              *)

\* The elements of a sequence after Append.
LEMMA AppendElements ==
    ASSUME NEW S, NEW s \in Seq(S), NEW x \in S
    PROVE  /\ Append(s, x) \in Seq(S)
           /\ Len(s) \in Nat
           /\ Len(Append(s, x)) = Len(s) + 1
           /\ \A i \in 1..Len(s) : Append(s, x)[i] = s[i]
           /\ Append(s, x)[Len(s) + 1] = x
           /\ 1..Len(Append(s, x)) = 1..Len(s) \cup {Len(s) + 1}
  BY AppendProperties

\* The elements of a sequence after its front is dropped.
LEMMA TailElements ==
    ASSUME NEW S, NEW s \in Seq(S), s # <<>>
    PROVE  /\ Tail(s) \in Seq(S)
           /\ Len(s) \in Nat \ {0}
           /\ Len(Tail(s)) = Len(s) - 1
           /\ \A i \in 1..Len(Tail(s)) : Tail(s)[i] = s[i + 1] /\ i + 1 \in 1..Len(s)
           /\ \A i \in 1..Len(s) : i = 1 \/ (i - 1 \in 1..Len(Tail(s)) /\ s[i] = Tail(s)[i - 1])
           /\ Head(s) = s[1] /\ 1 \in 1..Len(s)
  OBVIOUS

-----------------------------------------------------------------------------
(* Steps of other queues and new operations.                               *)

\* a step adds operations and changes none
Extends == Op \subseteq Op' /\ \A i \in Op : op'[i] = op[i]

\* a step of another queue than q
SameQueue(q) ==
    /\ stream'[q] = stream[q] /\ host'[q] = host[q]
    /\ tasks'[q] = tasks[q] /\ worker'[q] = worker[q] /\ current'[q] = current[q]
    /\ \A i \in Op' : op'[i].q = q => i \in Op /\ (i \in finished' <=> i \in finished)

\* A queue that a step does not touch.
LEMMA OtherQueue ==
    ASSUME CoreType, NEW q \in Queue, QueueInv(q), Extends, SameQueue(q), program' = program,
           executed \subseteq executed'
    PROVE  QueueInv(q)'
<1> USE DEF Extends, SameQueue
<1>1. StreamInv(q)'
  BY DEF QueueInv, StreamInv
<1>2. InHost(q)' <=> InHost(q)
  BY DEF InHost, Cuda
<1>3. InHost(q) => 1 \in 1..Len(stream[q]) /\ HeadOf(q) = stream[q][1] /\ HeadOf(q) \in Op
  <2>1. stream[q] \in Seq(Nat)
    BY DEF CoreType
  <2> QED
    BY <2>1, TailElements DEF QueueInv, HostInv, StreamInv, HeadOf
<1>4. HostInv(q)'
  BY <1>2, <1>3 DEF QueueInv, HostInv, HeadOf, Cuda, InHost
<1>5. \A i \in Op : op[i].q = q => (Handed(i)' <=> Handed(i))
  BY <1>2, <1>3 DEF Handed, HeadOf
<1>6. TaskInv(q)' /\ WorkerInv(q)'
  BY <1>5 DEF QueueInv, TaskInv, WorkerInv
<1> QED
  BY <1>1, <1>4, <1>6 DEF QueueInv

NewOp == Len(op) + 1

\* The elements of the native queue that an operation is enqueued to.
Added(kind, q, target, after) ==
    /\ op' \in Seq(OpType)
    /\ Op' = Op \cup {NewOp} /\ NewOp \notin Op /\ \A i \in Op : i < NewOp
    /\ \A i \in Op : op'[i] = op[i]
    /\ op'[NewOp] = [kind |-> kind, q |-> q, target |-> target, after |-> after]
    /\ stream' \in [Queue -> Seq(Nat)]
    /\ \A p \in Queue \ {q} : stream'[p] = stream[p]
    /\ Len(stream[q]) \in Nat
    /\ 1..Len(stream'[q]) = 1..Len(stream[q]) \cup {Len(stream[q]) + 1}
    /\ \A k \in 1..Len(stream[q]) : stream'[q][k] = stream[q][k]
    /\ stream'[q][Len(stream[q]) + 1] = NewOp
    /\ stream'[q] # <<>>
    /\ stream[q] # <<>> => HeadOf(q)' = HeadOf(q)

\* Enqueue adds an operation to the end of a native queue.
LEMMA EnqueueEffect ==
    ASSUME CoreType, NEW kind \in OpKind, NEW q \in Queue, NEW target \in Nat, NEW after \in SUBSET Nat,
           Enqueue(kind, q, target, after)
    PROVE  Added(kind, q, target, after)
<1> DEFINE x == [kind |-> kind, q |-> q, target |-> target, after |-> after]
<1>1. op \in Seq(OpType) /\ x \in OpType /\ stream \in [Queue -> Seq(Nat)] /\ stream[q] \in Seq(Nat)
  BY DEF CoreType, OpType
<1>2. op' = Append(op, x) /\ stream' = [stream EXCEPT ![q] = Append(stream[q], NewOp)]
  BY DEF Enqueue, NewOp
<1> HIDE DEF x
<1>3. /\ op' \in Seq(OpType) /\ Len(op) \in Nat
      /\ \A i \in 1..Len(op) : op'[i] = op[i]
      /\ op'[NewOp] = x /\ 1..Len(op') = 1..Len(op) \cup {NewOp}
  BY <1>1, <1>2, AppendElements DEF NewOp
<1>4. Op' = Op \cup {NewOp} /\ NewOp \notin Op /\ NewOp \in Nat /\ \A i \in Op : i < NewOp /\ op'[i] = op[i]
  BY <1>3 DEF Op, NewOp
<1>5. stream'[q] = Append(stream[q], NewOp) /\ \A p \in Queue \ {q} : stream'[p] = stream[p]
  BY <1>1, <1>2
<1>6. /\ stream'[q] \in Seq(Nat) /\ Len(stream[q]) \in Nat
      /\ 1..Len(stream'[q]) = 1..Len(stream[q]) \cup {Len(stream[q]) + 1}
      /\ \A k \in 1..Len(stream[q]) : stream'[q][k] = stream[q][k]
      /\ stream'[q][Len(stream[q]) + 1] = NewOp
      /\ Len(stream'[q]) = Len(stream[q]) + 1
  BY <1>1, <1>4, <1>5, AppendElements
<1>7. stream' \in [Queue -> Seq(Nat)]
  BY <1>1, <1>2, <1>5, <1>6
<1>8. stream'[q] # <<>>
  BY <1>6
<1>9. stream[q] # <<>> => HeadOf(q)' = HeadOf(q)
  BY <1>1, <1>6, <1>8, TailElements DEF HeadOf
<1> QED
  BY <1>3, <1>4, <1>5, <1>6, <1>7, <1>8, <1>9 DEF Added, x

\* The first operation of a native queue.
LEMMA HeadFacts ==
    ASSUME CoreType, NEW q \in Queue, StreamInv(q), stream[q] # <<>>
    PROVE  /\ 1 \in 1..Len(stream[q]) /\ HeadOf(q) = stream[q][1]
           /\ HeadOf(q) \in Op \ finished /\ op[HeadOf(q)].q = q
           /\ \A i \in Op : op[i].q = q /\ i < HeadOf(q) => i \in finished
<1>1. 1 \in 1..Len(stream[q]) /\ HeadOf(q) = stream[q][1]
  <2>1. stream[q] \in Seq(Nat)
    BY DEF CoreType
  <2> QED
    BY <2>1, TailElements DEF HeadOf
<1>2. ASSUME NEW i \in Op, op[i].q = q, i < HeadOf(q) PROVE i \in finished
  <2>1. SUFFICES ASSUME NEW k \in 1..Len(stream[q]), i = stream[q][k] PROVE FALSE
    BY <1>2 DEF StreamInv
  <2>2. k = 1 \/ 1 < k
    OBVIOUS
  <2>3. stream[q][1] \in Nat /\ i \in Nat
    BY <1>1 DEF StreamInv, Op
  <2> QED
    BY <1>1, <1>2, <2>1, <2>2, <2>3 DEF StreamInv
<1> QED
  BY <1>1, <1>2 DEF StreamInv

\* The queue that an operation is enqueued to.
LEMMA AddedQueue ==
    ASSUME CoreType, NEW q \in Queue, QueueInv(q), NEW kind, NEW target, NEW after,
           Added(kind, q, target, after), UNCHANGED <<program, finished, host, executed>>
    PROVE  /\ StreamInv(q)' /\ HostInv(q)'
           /\ tasks' = tasks => TaskInv(q)'
<1>0. /\ finished \subseteq Op /\ Op' = Op \cup {NewOp} /\ NewOp \notin Op
      /\ \A i \in Op : i < NewOp /\ op'[i] = op[i]
      /\ op'[NewOp].q = q
      /\ stream[q] # <<>> => HeadOf(q)' = HeadOf(q)
  BY DEF CoreType, Added
<1>1. StreamInv(q)'
  <2>1. PICK n \in Nat : n = Len(stream[q])
    BY DEF Added
  <2>2. PICK dom : dom = 1..Len(stream'[q])
    OBVIOUS
  <2>3. /\ dom = 1..n \cup {n + 1}
        /\ \A k \in 1..n : stream'[q][k] = stream[q][k] /\ k < n + 1
        /\ stream'[q][n + 1] = NewOp
    BY <2>1, <2>2 DEF Added
  <2>4. /\ \A k \in 1..n : stream[q][k] \in Op \ finished /\ op[stream[q][k]].q = q
        /\ \A k, l \in 1..n : k < l => stream[q][k] < stream[q][l]
        /\ \A i \in Op : op[i].q = q =>
              \/ i \in finished /\ \A k \in 1..n : i < stream[q][k]
              \/ \E k \in 1..n : i = stream[q][k]
    BY <2>1 DEF QueueInv, StreamInv
  <2>5. \A k \in dom : stream'[q][k] \in Op' \ finished /\ op'[stream'[q][k]].q = q
    BY <1>0, <2>3, <2>4
  <2>6. ASSUME NEW k \in dom, NEW l \in dom, k < l PROVE stream'[q][k] < stream'[q][l]
    <3>1. k \in 1..n
      BY <2>3, <2>6
    <3> QED
      BY <1>0, <2>3, <2>4, <2>6, <3>1
  <2>7. ASSUME NEW i \in Op', op'[i].q = q
        PROVE  \/ i \in finished /\ \A k \in dom : i < stream'[q][k]
               \/ \E k \in dom : i = stream'[q][k]
    <3>1. CASE i = NewOp
      BY <2>3, <3>1
    <3>2. CASE i \in Op
      BY <1>0, <2>3, <2>4, <2>7, <3>2
    <3> QED
      BY <1>0, <3>1, <3>2
  <2> QED
    BY <2>2, <2>5, <2>6, <2>7 DEF StreamInv
<1>2. InHost(q)' <=> InHost(q)
  BY DEF InHost, Cuda
<1>3. InHost(q) => stream[q] # <<>> /\ HeadOf(q)' = HeadOf(q) /\ HeadOf(q) \in Op
  BY <1>0, HeadFacts DEF QueueInv, HostInv
<1>4. HostInv(q)'
  <2>1. stream'[q] # <<>>
    BY DEF Added
  <2>2. Cuda /\ host[q] = "closing" => InHost(q)
    BY DEF InHost
  <2>3. InHost(q) => op'[HeadOf(q)'] = op[HeadOf(q)]
    BY <1>0, <1>3
  <2> QED
    BY <1>2, <1>3, <2>1, <2>2, <2>3 DEF QueueInv, HostInv, Cuda
<1>5. PICK n : n = NewOp
  OBVIOUS
<1>6. /\ \A i \in Op : op[i].q = q => (Handed(i)' <=> Handed(i))
      /\ ~Handed(n)'
  BY <1>0, <1>2, <1>3, <1>5 DEF Handed
<1>7. ASSUME tasks' = tasks PROVE TaskInv(q)'
  BY <1>0, <1>5, <1>6, <1>7 DEF QueueInv, TaskInv
<1> QED
  BY <1>1, <1>4, <1>7

\* What a new operation comes after.
LEMMA AddedAfter ==
    ASSUME CoreType, AfterInv, NEW kind \in OpKind, NEW q \in Queue, NEW target \in Nat,
           NEW after \in SUBSET Nat, Added(kind, q, target, after),
           NEW n, n = NewOp, \A j \in after : AfterOf(n, j)'
    PROVE  AfterInv'
<1>0. /\ Op' = Op \cup {NewOp} /\ \A i \in Op : op'[i] = op[i]
      /\ op'[NewOp].after = after
  BY DEF Added
<1>1. ASSUME NEW i \in Op, NEW j \in op[i].after PROVE AfterOf(i, j)'
  <2>1. AfterOf(i, j) /\ j \in Op
    BY DEF AfterInv, AfterOf
  <2>2. CASE op[j].q = op[i].q /\ (op[j].kind \in DeferredKind => op[i].kind \in HostKind)
    BY <1>0, <2>1, <2>2 DEF AfterOf
  <2>3. CASE \E w \in Op : w < i /\ op[w].kind = "waitFor" /\ op[w].q = op[i].q /\ j \in op[w].after
    BY <1>0, <2>1, <2>3 DEF AfterOf
  <2>4. CASE /\ op[i].kind = "waitFor" /\ op[i].target \in Op
             /\ op[op[i].target].kind = "event" /\ j \in op[op[i].target].after
    BY <1>0, <2>1, <2>4 DEF AfterOf
  <2> QED
    BY <2>1, <2>2, <2>3, <2>4 DEF AfterOf
<1> QED
  BY <1>0, <1>1 DEF AfterInv

\* A new operation leaves what is done as it is.
LEMMA AddedExec ==
    ASSUME CoreType, ExecInv, NEW kind, NEW q, NEW target, NEW after, Added(kind, q, target, after),
           UNCHANGED <<finished, executed, future>>
    PROVE  ExecInv'
<1> USE DEF Added
<1>1. finished \subseteq Op /\ executed \subseteq Op
  BY DEF CoreType
<1> QED
  BY <1>1 DEF ExecInv, OperationsInOrder

\* A step that only enqueues an operation keeps the invariant.
LEMMA AddedCore ==
    ASSUME CoreInv, NEW kind \in OpKind, NEW q \in Queue, NEW target \in Nat, NEW after \in SUBSET Nat,
           Added(kind, q, target, after), UNCHANGED <<program, finished, host, executed, future, tasks>>,
           worker' \in [Queue -> {"idle", "ran", "destroying"}], current' \in [Queue -> Nat],
           \A p \in Queue \ {q} : worker'[p] = worker[p] /\ current'[p] = current[p],
           WorkerInv(q)',
           NEW n, n = NewOp, \A j \in after : AfterOf(n, j)'
    PROVE  CoreInv'
<1>1. CoreType'
  BY DEF CoreInv, CoreType, Added
<1>2. AfterInv' /\ ExecInv'
  BY AddedAfter, AddedExec DEF CoreInv
<1>3. QueueInv(q)'
  BY AddedQueue DEF CoreInv, QueueInv
<1>4. ASSUME NEW p \in Queue \ {q} PROVE QueueInv(p)'
  <2>1. Extends /\ SameQueue(p)
    BY DEF Added, Extends, SameQueue
  <2> QED
    BY <2>1, OtherQueue DEF CoreInv
<1> QED
  BY <1>1, <1>2, <1>3, <1>4 DEF CoreInv

-----------------------------------------------------------------------------
(* The native queue and the callback thread go on.                         *)

\* An operation that is at the front, of the native queue or among the host
\* functions, has all done that it comes after.
LEMMA InOrder ==
    ASSUME CoreInv, NEW i \in Op,
           \A j \in Op : j < i /\ op[j].q = op[i].q => j \in finished,
           op[i].kind = "waitFor" => op[i].target \in finished \cup {0},
           op[i].kind \in HostKind =>
              \A j \in Op : j < i /\ op[j].q = op[i].q /\ op[j].kind \in HostKind => j \in executed
    PROVE  op[i].after \subseteq executed
<1> SUFFICES ASSUME NEW j \in op[i].after PROVE j \in executed
  OBVIOUS
<1>0. /\ AfterOf(i, j) /\ j \in Op /\ j < i
      /\ \A k \in finished : k \in Op /\ (op[k].kind \notin DeferredKind => k \in executed)
      /\ \A k \in executed : op[k].after \subseteq executed
  BY DEF CoreInv, CoreType, AfterInv, AfterOf, ExecInv, OperationsInOrder
<1>1. CASE op[j].q = op[i].q /\ (op[j].kind \in DeferredKind => op[i].kind \in HostKind)
  BY <1>0, <1>1 DEF DeferredKind, HostKind
<1>2. CASE \E w \in Op : w < i /\ op[w].kind = "waitFor" /\ op[w].q = op[i].q /\ j \in op[w].after
  BY <1>0, <1>2 DEF DeferredKind
<1>3. CASE /\ op[i].kind = "waitFor" /\ op[i].target \in Op
           /\ op[op[i].target].kind = "event" /\ j \in op[op[i].target].after
  <2>1. op[i].target # 0
    BY <1>3 DEF Op
  <2> QED
    BY <1>0, <1>3, <2>1 DEF DeferredKind
<1> QED
  BY <1>0, <1>1, <1>2, <1>3 DEF AfterOf

\* The first operation of a native queue is complete.
LEMMA CompletedStream ==
    ASSUME CoreInv, NEW q \in Queue, stream[q] # <<>>, Completed(q), op' = op
    PROVE  /\ StreamInv(q)' /\ stream' \in [Queue -> Seq(Nat)]
           /\ finished' = finished \cup {HeadOf(q)}
           /\ HeadOf(q) \in Op /\ op[HeadOf(q)].q = q
           /\ \A p \in Queue \ {q} : stream'[p] = stream[p]
<1> DEFINE h == HeadOf(q)
<1>0. CoreType /\ StreamInv(q) /\ stream \in [Queue -> Seq(Nat)] /\ stream[q] \in Seq(Nat)
  BY DEF CoreInv, QueueInv, CoreType
<1>1. 1 \in 1..Len(stream[q]) /\ h = stream[q][1] /\ h \in Op \ finished /\ op[h].q = q
  BY <1>0, HeadFacts
<1>2. /\ stream' = [stream EXCEPT ![q] = Tail(stream[q])] /\ finished' = finished \cup {h}
      /\ Op' = Op /\ stream'[q] = Tail(stream[q])
  BY <1>0 DEF Completed, Op
<1>3. /\ Tail(stream[q]) \in Seq(Nat) /\ Len(stream[q]) \in Nat
      /\ \A i \in 1..Len(Tail(stream[q])) :
            Tail(stream[q])[i] = stream[q][i + 1] /\ i + 1 \in 1..Len(stream[q])
      /\ \A i \in 1..Len(stream[q]) :
            i = 1 \/ (i - 1 \in 1..Len(Tail(stream[q])) /\ stream[q][i] = Tail(stream[q])[i - 1])
  BY <1>0, TailElements
<1> HIDE DEF h
<1>4. StreamInv(q)'
  <2>1. PICK s, s2, dom, dom2 : s = stream[q] /\ s2 = stream'[q] /\ dom = 1..Len(s) /\ dom2 = 1..Len(s2)
    OBVIOUS
  <2>2. /\ dom \subseteq Nat /\ dom2 \subseteq Nat
        /\ \A k \in dom2 : s2[k] = s[k + 1] /\ k + 1 \in dom /\ 1 < k + 1
        /\ \A k \in dom : k = 1 \/ (k - 1 \in dom2 /\ s[k] = s2[k - 1])
        /\ 1 \in dom /\ h = s[1]
    BY <1>1, <1>2, <1>3, <2>1
  <2>3. /\ \A k \in dom : s[k] \in Op \ finished /\ op[s[k]].q = q
        /\ \A k, l \in dom : k < l => s[k] < s[l]
        /\ \A i \in Op : op[i].q = q =>
              \/ i \in finished /\ \A k \in dom : i < s[k]
              \/ \E k \in dom : i = s[k]
    BY <1>0, <2>1 DEF StreamInv
  <2>4. \A k \in dom2 : h < s2[k]
    BY <2>2, <2>3
  <2>5. \A k \in dom2 : s2[k] \in Op \ finished' /\ op[s2[k]].q = q
    <3>1. \A i \in Op : i \in Nat
      BY DEF Op
    <3> QED
      BY <1>1, <1>2, <2>2, <2>3, <2>4, <3>1
  <2>6. \A k, l \in dom2 : k < l => s2[k] < s2[l]
    BY <2>2, <2>3
  <2>7. ASSUME NEW i \in Op, op[i].q = q
        PROVE  \/ i \in finished' /\ \A k \in dom2 : i < s2[k]
               \/ \E k \in dom2 : i = s2[k]
    <3>1. CASE i \in finished /\ \A k \in dom : i < s[k]
      BY <1>2, <2>2, <3>1
    <3>2. CASE \E k \in dom : i = s[k]
      BY <1>2, <2>2, <2>4, <3>2
    <3> QED
      BY <2>3, <2>7, <3>1, <3>2
  <2> QED
    BY <1>2, <2>1, <2>5, <2>6, <2>7 DEF StreamInv
<1> QED
  BY <1>0, <1>1, <1>2, <1>3, <1>4 DEF h

\* The host functions handed over and the tasks stay the same.
LEMMA TaskSame ==
    ASSUME NEW q \in Queue, TaskInv(q), op' = op, tasks'[q] = tasks[q], executed \subseteq executed',
           \A i \in Op : op[i].q = q /\ op[i].kind \in HostKind => (Handed(i)' <=> Handed(i))
    PROVE  TaskInv(q)'
<1>1. Op' = Op
  BY DEF Op
<1> QED
  BY <1>1 DEF TaskInv

\* A step of queue q that adds no operation; it completes the first one or none.
LEMMA QueueStep ==
    ASSUME CoreInv, NEW q \in Queue, UNCHANGED <<program, op>>, CoreType',
           \A p \in Queue \ {q} : /\ stream'[p] = stream[p] /\ host'[p] = host[p] /\ tasks'[p] = tasks[p]
                                  /\ worker'[p] = worker[p] /\ current'[p] = current[p],
           finished \subseteq finished',
           \A i \in finished' \ finished : op[i].q = q /\ (op[i].kind \notin DeferredKind => i \in executed'),
           executed \subseteq executed', future' \subseteq executed',
           \A i \in executed' \ executed : op[i].after \subseteq executed,
           QueueInv(q)'
    PROVE  CoreInv'
<1>1. Op' = Op
  BY DEF Op
<1>2. AfterInv'
  BY <1>1 DEF CoreInv, AfterInv, AfterOf
<1>3. ExecInv'
  BY <1>1 DEF CoreInv, ExecInv, OperationsInOrder
<1>4. ASSUME NEW p \in Queue \ {q} PROVE QueueInv(p)'
  <2>1. Extends /\ SameQueue(p)
    BY <1>1, <1>4 DEF Extends, SameQueue
  <2> QED
    BY <2>1, OtherQueue DEF CoreInv
<1> QED
  BY <1>2, <1>3, <1>4 DEF CoreInv

\* Kernels, copies, markers and waits in the native queue.
LEMMA NativeStepCore ==
    ASSUME CoreInv, NEW q \in Queue, NativeStep(q) PROVE CoreInv'
<1> DEFINE h == HeadOf(q)
<1>1. /\ stream[q] # <<>> /\ op[h].kind \notin HostKind /\ op[h].target \in finished \cup {0}
      /\ Completed(q) /\ executed' = executed \cup {h}
      /\ UNCHANGED <<program, op, host, tasks, worker, current, future>>
  BY DEF NativeStep
<1>2. /\ StreamInv(q)' /\ stream' \in [Queue -> Seq(Nat)] /\ finished' = finished \cup {h}
      /\ h \in Op /\ op[h].q = q /\ Op' = Op
      /\ \A p \in Queue \ {q} : stream'[p] = stream[p]
  BY <1>1, CompletedStream DEF Op
<1>3. CoreType /\ QueueInv(q) /\ ExecInv
  BY DEF CoreInv
<1>4. op[h].after \subseteq executed
  <2>1. \A j \in Op : j < h /\ op[j].q = op[h].q => j \in finished
    BY <1>1, <1>2, <1>3, HeadFacts DEF QueueInv
  <2> QED
    BY <1>1, <1>2, <2>1, InOrder
<1>5. CoreType'
  BY <1>1, <1>2, <1>3 DEF CoreType
<1>6. ~InHost(q) /\ ~InHost(q)'
  BY <1>1, <1>3 DEF QueueInv, HostInv, InHost, Cuda
<1>7. HostInv(q)'
  BY <1>6 DEF HostInv, InHost
<1> HIDE DEF h
<1>8. TaskInv(q)'
  <2>1. ASSUME NEW i \in Op, op[i].q = q /\ op[i].kind \in HostKind PROVE Handed(i)' <=> Handed(i)
    BY <1>1, <1>2, <1>6, <2>1 DEF Handed
  <2> QED
    BY <1>1, <1>3, <2>1, TaskSame DEF QueueInv
<1>9. WorkerInv(q)'
  BY <1>1, <1>3 DEF QueueInv, WorkerInv
<1> QED
  BY <1>1, <1>2, <1>3, <1>4, <1>5, <1>7, <1>8, <1>9, QueueStep DEF QueueInv, ExecInv

\* What a task at the end of q's tasks changes.
Appended(q, x) ==
    /\ tasks' \in [Queue -> Seq(Nat)]
    /\ \A p \in Queue \ {q} : tasks'[p] = tasks[p]
    /\ Len(tasks[q]) \in Nat /\ 1..Len(tasks'[q]) = 1..Len(tasks[q]) \cup {Len(tasks[q]) + 1}
    /\ \A k \in 1..Len(tasks[q]) : tasks'[q][k] = tasks[q][k]
    /\ tasks'[q][Len(tasks[q]) + 1] = x
    /\ tasks'[q] # <<>>
    /\ tasks[q] # <<>> => Head(tasks'[q]) = Head(tasks[q])

\* Such a step of the model.
LEMMA AppendEffect ==
    ASSUME CoreType, NEW q \in Queue, NEW x \in Nat,
           tasks' = [tasks EXCEPT ![q] = Append(@, x)]
    PROVE  Appended(q, x)
<1>1. tasks \in [Queue -> Seq(Nat)] /\ tasks[q] \in Seq(Nat)
  BY DEF CoreType
<1>2. tasks'[q] = Append(tasks[q], x) /\ \A p \in Queue \ {q} : tasks'[p] = tasks[p]
  BY <1>1
<1>3. /\ tasks'[q] \in Seq(Nat) /\ Len(tasks[q]) \in Nat
      /\ 1..Len(tasks'[q]) = 1..Len(tasks[q]) \cup {Len(tasks[q]) + 1}
      /\ \A k \in 1..Len(tasks[q]) : tasks'[q][k] = tasks[q][k]
      /\ tasks'[q][Len(tasks[q]) + 1] = x
      /\ Len(tasks'[q]) = Len(tasks[q]) + 1
  BY <1>1, <1>2, AppendElements
<1>4. tasks' \in [Queue -> Seq(Nat)]
  BY <1>1, <1>2, <1>3
<1>5. tasks'[q] # <<>>
  BY <1>3
<1>6. tasks[q] # <<>> => Head(tasks'[q]) = Head(tasks[q])
  <2>1. tasks[q] # <<>> => Head(tasks[q]) = tasks[q][1] /\ 1 \in 1..Len(tasks[q])
    BY <1>1, TailElements
  <2>2. Head(tasks'[q]) = tasks'[q][1]
    BY <1>3, <1>5, TailElements
  <2> QED
    BY <1>3, <2>1, <2>2
<1> QED
  BY <1>2, <1>3, <1>4, <1>5, <1>6 DEF Appended

\* The tasks in order with one more, the closure that frees or the host function
\* that is handed over.
LEMMA TaskAppended ==
    ASSUME NEW q \in Queue, TaskInv(q), op' = op, executed' = executed, NEW x, Appended(q, x),
           NEW isHost \in BOOLEAN,
           \A i \in Op : op[i].q = q /\ op[i].kind \in HostKind =>
              (Handed(i)' <=> Handed(i) \/ (isHost /\ i = x)),
           isHost => /\ x \in Op /\ op[x].q = q /\ op[x].kind \in HostKind
                     /\ \A i \in Op : op[i].q = q /\ op[i].kind \in HostKind /\ Handed(i) => i < x,
           ~isHost => x = FreeClosure
    PROVE  TaskInv(q)'
<1>1. Op' = Op
  BY DEF Op
<1>2. PICK n, s, s2, dom, dom2 :
         n \in Nat /\ n = Len(tasks[q]) /\ s = tasks[q] /\ s2 = tasks'[q] /\ dom = 1..n /\ dom2 = 1..Len(s2)
  BY DEF Appended
<1>3. /\ dom2 = dom \cup {n + 1} /\ \A k \in dom : s2[k] = s[k] /\ k \in Nat /\ k < n + 1
      /\ s2[n + 1] = x
  BY <1>2 DEF Appended
<1>4. /\ \A k \in dom : s[k] # FreeClosure =>
            s[k] \in Op /\ op[s[k]].q = q /\ op[s[k]].kind \in HostKind /\ Handed(s[k])
      /\ \A k, l \in dom : k < l /\ s[k] # FreeClosure /\ s[l] # FreeClosure => s[k] < s[l]
      /\ \A i \in Op : op[i].q = q /\ op[i].kind \in HostKind /\ Handed(i) =>
            i \in executed \/ \E k \in dom : i = s[k]
  BY <1>2 DEF TaskInv
<1>5. \A k \in dom2 : s2[k] # FreeClosure =>
         s2[k] \in Op /\ op[s2[k]].q = q /\ op[s2[k]].kind \in HostKind /\ Handed(s2[k])'
  BY <1>3, <1>4
<1>6. ASSUME NEW k \in dom2, NEW l \in dom2, k < l, s2[k] # FreeClosure, s2[l] # FreeClosure
      PROVE  s2[k] < s2[l]
  <2>1. k \in dom
    BY <1>2, <1>3, <1>6
  <2>2. CASE l \in dom
    BY <1>3, <1>4, <1>6, <2>1, <2>2
  <2>3. CASE l = n + 1
    BY <1>3, <1>4, <1>6, <2>1, <2>3
  <2> QED
    BY <1>3, <2>2, <2>3
<1>7. \A i \in Op : op[i].q = q /\ op[i].kind \in HostKind /\ Handed(i)' =>
         i \in executed \/ \E k \in dom2 : i = s2[k]
  BY <1>3, <1>4
<1> QED
  BY <1>1, <1>2, <1>5, <1>6, <1>7 DEF TaskInv

\* The runtime hands a host function to the callback thread.
LEMMA HostBeginCore ==
    ASSUME CoreInv, NEW q \in Queue, HostBegin(q) PROVE CoreInv'
<1> DEFINE h == HeadOf(q)
<1>1. /\ stream[q] # <<>> /\ op[h].kind \in HostKind /\ host[q] = "idle"
      /\ tasks' = [tasks EXCEPT ![q] = Append(@, h)]
      /\ host' = [host EXCEPT ![q] = "submitted"]
      /\ UNCHANGED <<program, op, stream, finished, worker, current, executed, future>>
  BY DEF HostBegin
<1>2. CoreType /\ QueueInv(q) /\ ExecInv /\ Op' = Op /\ Op \subseteq Nat
  BY <1>1 DEF CoreInv, Op
<1>3. /\ h \in Op \ finished /\ op[h].q = q /\ h \in Nat
      /\ 1 \in 1..Len(stream[q]) /\ h = stream[q][1]
  BY <1>1, <1>2, HeadFacts DEF QueueInv
<1>4. Appended(q, h)
  BY <1>1, <1>2, <1>3, AppendEffect
<1>5. h' = h /\ host'[q] = "submitted" /\ \A p \in Queue \ {q} : host'[p] = host[p]
  BY <1>1, <1>2 DEF HeadOf, CoreType
<1>6. CoreType'
  BY <1>1, <1>2, <1>4 DEF CoreType, Appended
<1>7. StreamInv(q)'
  BY <1>1, <1>2 DEF QueueInv, StreamInv
<1>8. HostInv(q)'
  BY <1>1, <1>5 DEF HostInv
<1>9. \A i \in Op : op[i].q = q => /\ Handed(i) <=> i \in finished
                                   /\ Handed(i)' <=> i \in finished \/ i = h
  BY <1>1, <1>5 DEF Handed, InHost
<1> HIDE DEF h
<1>10. TaskInv(q)'
  <2>1. \A i \in Op : op[i].q = q /\ i \in finished => i < h
    BY <1>2, <1>3 DEF QueueInv, StreamInv
  <2> QED
    <3>1. PICK y : y = h
      OBVIOUS
    <3>2. PICK b \in BOOLEAN : b = TRUE
      OBVIOUS
    <3>3. TaskInv(q) /\ op' = op /\ executed' = executed /\ Appended(q, y)
      BY <1>1, <1>2, <1>4, <3>1 DEF QueueInv
    <3>4. \A i \in Op : op[i].q = q /\ op[i].kind \in HostKind =>
             (Handed(i)' <=> Handed(i) \/ (b /\ i = y))
      BY <1>9, <3>1, <3>2
    <3>5. b => /\ y \in Op /\ op[y].q = q /\ op[y].kind \in HostKind
               /\ \A i \in Op : op[i].q = q /\ op[i].kind \in HostKind /\ Handed(i) => i < y
      BY <1>1, <1>3, <1>9, <2>1, <3>1
    <3>6. ~b => y = FreeClosure
      BY <3>2
    <3> QED
      BY <3>3, <3>4, <3>5, <3>6, TaskAppended
<1>11. WorkerInv(q)'
  BY <1>1, <1>2, <1>4 DEF QueueInv, WorkerInv, Appended
<1> QED
  BY <1>1, <1>2, <1>4, <1>5, <1>6, <1>7, <1>8, <1>10, <1>11, QueueStep DEF QueueInv, ExecInv, Appended

\* The host function returns: it waited for the task, unless it is deferred.
LEMMA HostReturnCore ==
    ASSUME CoreInv, NEW q \in Queue, HostReturn(q) PROVE CoreInv'
<1> DEFINE h == HeadOf(q)
<1>1. /\ host[q] = "submitted" /\ host' = [host EXCEPT ![q] = "closing"]
      /\ op[h].kind \in DeferredKind \/ h \in future
      /\ IF Cuda THEN UNCHANGED <<stream, finished>> ELSE Completed(q)
      /\ UNCHANGED <<program, op, tasks, worker, current, executed, future>>
  BY DEF HostReturn, callbackVars
<1>2. CoreType /\ QueueInv(q) /\ ExecInv /\ Op' = Op
  BY <1>1 DEF CoreInv, Op
<1>3. /\ InHost(q) /\ stream[q] # <<>> /\ op[h].kind \in HostKind /\ h \in Op /\ op[h].q = q
      /\ InHost(q)' <=> Cuda
      /\ Cuda' <=> Cuda
      /\ \A p \in Queue \ {q} : host'[p] = host[p]
      /\ op[h].kind \notin DeferredKind => h \in executed
      /\ host'[q] = "closing"
  <2>1. InHost(q)
    BY <1>1 DEF InHost
  <2>2. stream[q] # <<>> /\ op[h].kind \in HostKind
    BY <1>2, <2>1 DEF QueueInv, HostInv
  <2>3. h \in Op /\ op[h].q = q
    BY <1>2, <2>2, HeadFacts DEF QueueInv
  <2> QED
    BY <1>1, <1>2, <2>1, <2>2, <2>3 DEF InHost, Cuda, CoreType, ExecInv
<1>4. CASE Cuda
  <2>1. UNCHANGED <<stream, finished>> /\ h' = h
    BY <1>1, <1>4 DEF HeadOf
  <2>2. CoreType'
    BY <1>1, <1>2, <2>1 DEF CoreType
  <2>3. StreamInv(q)' /\ WorkerInv(q)'
    BY <1>1, <1>2, <2>1 DEF QueueInv, StreamInv, WorkerInv
  <2>4. HostInv(q)'
    BY <1>1, <1>3, <2>1 DEF HostInv
  <2>5. \A i \in Op : op[i].q = q => (Handed(i)' <=> Handed(i))
    BY <1>1, <1>3, <1>4, <2>1 DEF Handed
  <2>6. TaskInv(q)'
    BY <1>1, <1>2, <2>5, TaskSame DEF QueueInv
  <2> QED
    BY <1>1, <1>2, <1>3, <2>1, <2>2, <2>3, <2>4, <2>6, QueueStep DEF QueueInv, ExecInv
<1>5. CASE ~Cuda
  <2>1. /\ StreamInv(q)' /\ stream' \in [Queue -> Seq(Nat)] /\ finished' = finished \cup {h}
        /\ \A p \in Queue \ {q} : stream'[p] = stream[p]
    BY <1>1, <1>3, <1>5, CompletedStream
  <2>2. CoreType'
    BY <1>1, <1>2, <1>3, <2>1 DEF CoreType
  <2>3. HostInv(q)'
    BY <1>3, <1>5 DEF HostInv
  <2>4. WorkerInv(q)'
    BY <1>1, <1>2 DEF QueueInv, WorkerInv
  <2> HIDE DEF h
  <2>5. \A i \in Op : op[i].q = q => (Handed(i)' <=> Handed(i))
    BY <1>1, <1>3, <1>5, <2>1 DEF Handed, h
  <2>6. TaskInv(q)'
    BY <1>1, <1>2, <2>5, TaskSame DEF QueueInv
  <2> QED
    BY <1>1, <1>2, <1>3, <2>1, <2>2, <2>3, <2>4, <2>6, QueueStep DEF QueueInv, ExecInv
<1> QED
  BY <1>4, <1>5

\* The host function's data is destroyed; CUDA's stream goes on only now.
LEMMA HostClosedCore ==
    ASSUME CoreInv, NEW q \in Queue, HostClosed(q) PROVE CoreInv'
<1> DEFINE h == HeadOf(q)
<1>1. /\ host[q] = "closing" /\ host' = [host EXCEPT ![q] = "idle"]
      /\ IF Cuda THEN Completed(q) ELSE UNCHANGED <<stream, finished>>
      /\ UNCHANGED <<program, op, tasks, worker, current, executed, future>>
  BY DEF HostClosed, callbackVars
<1>2. CoreType /\ QueueInv(q) /\ ExecInv /\ Op' = Op
  BY <1>1 DEF CoreInv, Op
<1>3. /\ InHost(q) <=> Cuda
      /\ ~InHost(q)' /\ HostInv(q)'
      /\ \A p \in Queue \ {q} : host'[p] = host[p]
      /\ host'[q] = "idle"
  BY <1>1, <1>2 DEF HostInv, InHost, Cuda, CoreType
<1>4. WorkerInv(q)'
  BY <1>1, <1>2 DEF QueueInv, WorkerInv
<1>5. CASE Cuda
  <2>1. /\ stream[q] # <<>> /\ op[h].kind \in HostKind
        /\ op[h].kind \notin DeferredKind => h \in executed
    BY <1>1, <1>2, <1>3, <1>5 DEF QueueInv, HostInv
  <2>2. /\ StreamInv(q)' /\ stream' \in [Queue -> Seq(Nat)] /\ finished' = finished \cup {h}
        /\ h \in Op /\ op[h].q = q
        /\ \A p \in Queue \ {q} : stream'[p] = stream[p]
    BY <1>1, <1>5, <2>1, CompletedStream
  <2>3. CoreType'
    BY <1>1, <1>2, <2>2 DEF CoreType
  <2> HIDE DEF h
  <2>4. \A i \in Op : op[i].q = q => (Handed(i)' <=> Handed(i))
    BY <1>1, <1>3, <1>5, <2>2 DEF Handed, h
  <2>5. TaskInv(q)'
    BY <1>1, <1>2, <2>4, TaskSame DEF QueueInv
  <2> QED
    BY <1>1, <1>2, <1>3, <1>4, <2>1, <2>2, <2>3, <2>5, QueueStep DEF QueueInv, ExecInv
<1>6. CASE ~Cuda
  <2>1. UNCHANGED <<stream, finished>>
    BY <1>1, <1>6
  <2>2. CoreType'
    BY <1>1, <1>2, <2>1 DEF CoreType
  <2>3. StreamInv(q)'
    BY <1>1, <1>2, <2>1 DEF QueueInv, StreamInv
  <2>4. \A i \in Op : op[i].q = q => (Handed(i)' <=> Handed(i))
    BY <1>1, <1>3, <1>6, <2>1 DEF Handed
  <2>5. TaskInv(q)'
    BY <1>1, <1>2, <2>4, TaskSame DEF QueueInv
  <2> QED
    BY <1>1, <1>2, <1>3, <1>4, <2>1, <2>2, <2>3, <2>5, QueueStep DEF QueueInv, ExecInv
<1> QED
  BY <1>5, <1>6

\* The callback thread executes its first task; the closure that frees submits
\* to the native queue.
LEMMA WorkerRunCore ==
    ASSUME CoreInv, NEW q \in Queue, WorkerRun(q) PROVE CoreInv'
<1> DEFINE h == Head(tasks[q])
<1>1. /\ worker[q] = "idle" /\ tasks[q] # <<>>
      /\ worker' = [worker EXCEPT ![q] = "ran"] /\ current' = [current EXCEPT ![q] = h]
      /\ IF h = FreeClosure
         THEN Enqueue("free", q, 0, {}) /\ UNCHANGED executed
         ELSE executed' = executed \cup {h} /\ UNCHANGED <<op, stream>>
      /\ UNCHANGED <<program, finished, host, tasks, future>>
  BY DEF WorkerRun
<1>2. CoreType /\ QueueInv(q) /\ ExecInv
  BY DEF CoreInv
<1>3. /\ h \in Nat /\ 1 \in 1..Len(tasks[q]) /\ h = tasks[q][1]
  <2>1. tasks[q] \in Seq(Nat)
    BY <1>2 DEF CoreType
  <2> QED
    BY <1>1, <2>1, TailElements
<1> HIDE DEF h
<1>4. /\ worker' \in [Queue -> {"idle", "ran", "destroying"}] /\ current' \in [Queue -> Nat]
      /\ worker'[q] = "ran" /\ current'[q] = h
      /\ \A p \in Queue \ {q} : worker'[p] = worker[p] /\ current'[p] = current[p]
  BY <1>1, <1>2, <1>3 DEF CoreType
<1>5. CASE h = FreeClosure
  <2>1. WorkerInv(q)'
    BY <1>1, <1>4, <1>5 DEF WorkerInv, h
  <2>2. Added("free", q, 0, {})
    BY <1>1, <1>2, <1>5, EnqueueEffect DEF OpKind
  <2>3. "free" \in OpKind
    BY DEF OpKind
  <2> QED
    BY <1>1, <1>4, <1>5, <2>1, <2>2, <2>3, AddedCore
<1>6. CASE h # FreeClosure
  <2>1. executed' = executed \cup {h} /\ UNCHANGED <<op, stream>> /\ Op' = Op
    BY <1>1, <1>6 DEF Op
  <2>2. h \in Op /\ op[h].q = q /\ op[h].kind \in HostKind /\ Handed(h)
    BY <1>2, <1>3, <1>6 DEF QueueInv, TaskInv
  <2>3. op[h].after \subseteq executed
    <3>1. ASSUME NEW j \in Op, j < h, op[j].q = q PROVE j \in finished
      <4>1. CASE h \in finished
        <5>1. SUFFICES ASSUME NEW k \in 1..Len(stream[q]), j = stream[q][k] PROVE FALSE
          BY <1>2, <3>1 DEF QueueInv, StreamInv
        <5>2. ~\E l \in 1..Len(stream[q]) : h = stream[q][l]
          BY <1>2, <4>1 DEF QueueInv, StreamInv
        <5>3. h < j
          BY <1>2, <2>2, <5>1, <5>2 DEF QueueInv, StreamInv
        <5> QED
          BY <2>2, <3>1, <5>3 DEF Op
      <4>2. CASE InHost(q) /\ h = HeadOf(q)
        <5>1. stream[q] # <<>>
          BY <1>2, <4>2 DEF QueueInv, HostInv
        <5> QED
          BY <1>2, <3>1, <4>2, <5>1, HeadFacts DEF QueueInv
      <4> QED
        BY <2>2, <4>1, <4>2 DEF Handed
    <3>2. ASSUME NEW j \in Op, j < h, op[j].q = q, op[j].kind \in HostKind PROVE j \in executed
      <4>1. Handed(j)
        BY <3>1, <3>2 DEF Handed
      <4>2. SUFFICES ASSUME NEW k \in 1..Len(tasks[q]), j = tasks[q][k] PROVE FALSE
        BY <1>2, <3>2, <4>1 DEF QueueInv, TaskInv
      <4>3. j # FreeClosure /\ j \in Nat /\ h \in Nat
        BY <1>3 DEF Op, FreeClosure
      <4>4. k # 1 /\ 1 < k
        BY <1>3, <3>2, <4>2, <4>3
      <4>5. h < j
        BY <1>2, <1>3, <1>6, <4>2, <4>3, <4>4 DEF QueueInv, TaskInv
      <4> QED
        BY <3>2, <4>3, <4>5
    <3>3. op[h].kind # "waitFor"
      BY <2>2 DEF HostKind
    <3> QED
      BY <2>2, <3>1, <3>2, <3>3, InOrder
  <2>4. CoreType'
    BY <1>1, <1>2, <1>4, <2>1, <2>2 DEF CoreType
  <2>5. StreamInv(q)' /\ HostInv(q)'
    BY <1>1, <1>2, <2>1 DEF QueueInv, StreamInv, HostInv, InHost, HeadOf, Cuda
  <2>6. \A i \in Op : Handed(i)' <=> Handed(i)
    BY <1>1, <2>1 DEF Handed, InHost, HeadOf, Cuda
  <2>7. TaskInv(q)'
    BY <1>1, <1>2, <2>1, <2>6, TaskSame DEF QueueInv
  <2>8. WorkerInv(q)'
    BY <1>1, <1>4, <2>1 DEF WorkerInv, h
  <2> QED
    BY <1>1, <1>2, <1>4, <2>1, <2>3, <2>4, <2>5, <2>7, <2>8, QueueStep DEF QueueInv, ExecInv
<1> QED
  BY <1>5, <1>6

\* It pops the task that it has executed.
LEMMA WorkerPopCore ==
    ASSUME CoreInv, NEW q \in Queue, WorkerPop(q) PROVE CoreInv'
<1>1. /\ worker[q] = "ran" /\ worker' = [worker EXCEPT ![q] = "destroying"]
      /\ tasks' = [tasks EXCEPT ![q] = Tail(@)]
      /\ UNCHANGED <<program, op, stream, finished, host, current, executed, future>>
  BY DEF WorkerPop, nativeVars
<1>2. CoreType /\ QueueInv(q) /\ ExecInv /\ Op' = Op /\ tasks[q] \in Seq(Nat)
  BY <1>1 DEF CoreInv, Op, CoreType
<1>3. /\ tasks[q] # <<>> /\ current[q] = Head(tasks[q])
      /\ current[q] # FreeClosure => current[q] \in executed
  BY <1>1, <1>2 DEF QueueInv, WorkerInv
<1>4. /\ tasks'[q] = Tail(tasks[q]) /\ \A p \in Queue \ {q} : tasks'[p] = tasks[p] /\ worker'[p] = worker[p]
      /\ worker'[q] = "destroying"
  BY <1>1, <1>2 DEF CoreType
<1>5. /\ Tail(tasks[q]) \in Seq(Nat)
      /\ Len(tasks[q]) \in Nat /\ Len(Tail(tasks[q])) \in Nat
      /\ \A i \in 1..Len(Tail(tasks[q])) : Tail(tasks[q])[i] = tasks[q][i + 1] /\ i + 1 \in 1..Len(tasks[q])
      /\ \A i \in 1..Len(tasks[q]) :
            i = 1 \/ (i - 1 \in 1..Len(Tail(tasks[q])) /\ tasks[q][i] = Tail(tasks[q])[i - 1])
      /\ Head(tasks[q]) = tasks[q][1]
  BY <1>2, <1>3, TailElements
<1>6. CoreType'
  BY <1>1, <1>2, <1>5 DEF CoreType
<1>7. StreamInv(q)' /\ HostInv(q)'
  BY <1>1, <1>2 DEF QueueInv, StreamInv, HostInv, InHost, HeadOf, Cuda
<1>8. \A i \in Op : Handed(i)' <=> Handed(i)
  BY <1>1 DEF Handed, InHost, HeadOf, Cuda
<1>9. TaskInv(q)'
  <2>1. PICK s, s2, dom, dom2 : s = tasks[q] /\ s2 = tasks'[q] /\ dom = 1..Len(s) /\ dom2 = 1..Len(s2)
    OBVIOUS
  <2>2. /\ dom \subseteq Nat /\ dom2 \subseteq Nat
        /\ \A k \in dom2 : s2[k] = s[k + 1] /\ k + 1 \in dom
        /\ \A k \in dom : k = 1 \/ (k - 1 \in dom2 /\ s[k] = s2[k - 1])
        /\ s[1] = current[q]
    BY <1>3, <1>4, <1>5, <2>1
  <2>3. /\ \A k \in dom : s[k] # FreeClosure =>
              s[k] \in Op /\ op[s[k]].q = q /\ op[s[k]].kind \in HostKind /\ Handed(s[k])
        /\ \A k, l \in dom : k < l /\ s[k] # FreeClosure /\ s[l] # FreeClosure => s[k] < s[l]
        /\ \A i \in Op : op[i].q = q /\ op[i].kind \in HostKind /\ Handed(i) =>
              i \in executed \/ \E k \in dom : i = s[k]
    BY <1>2, <2>1 DEF QueueInv, TaskInv
  <2>4. \A k \in dom2 : s2[k] # FreeClosure =>
           s2[k] \in Op /\ op[s2[k]].q = q /\ op[s2[k]].kind \in HostKind /\ Handed(s2[k])'
    BY <1>8, <2>2, <2>3
  <2>5. \A k, l \in dom2 : k < l /\ s2[k] # FreeClosure /\ s2[l] # FreeClosure => s2[k] < s2[l]
    BY <2>2, <2>3
  <2>6. \A i \in Op : op[i].q = q /\ op[i].kind \in HostKind /\ Handed(i)' =>
           i \in executed \/ \E k \in dom2 : i = s2[k]
    <3>1. \A i \in Op : i # FreeClosure
      BY DEF Op, FreeClosure
    <3> QED
      BY <1>3, <1>8, <2>2, <2>3, <3>1
  <2> QED
    <3>1. /\ 1..Len(tasks'[q]) = dom2 /\ tasks'[q] = s2 /\ Op' = Op
          /\ op' = op /\ executed' = executed
      BY <1>1, <1>2, <2>1
    <3> QED
      BY <2>4, <2>5, <2>6, <3>1 DEF TaskInv
<1>10. WorkerInv(q)'
  BY <1>1, <1>3, <1>4 DEF WorkerInv
<1> QED
  BY <1>1, <1>2, <1>4, <1>6, <1>7, <1>9, <1>10, QueueStep DEF QueueInv, ExecInv

\* It sets the task's future.
LEMMA WorkerSetCore ==
    ASSUME CoreInv, NEW q \in Queue, WorkerSet(q) PROVE CoreInv'
<1>1. /\ worker[q] = "destroying" /\ worker' = [worker EXCEPT ![q] = "idle"]
      /\ future' = future \cup ({current[q]} \ {FreeClosure})
      /\ current' = [current EXCEPT ![q] = 0]
      /\ UNCHANGED <<program, op, stream, finished, host, tasks, executed>>
  BY DEF WorkerSet, nativeVars
<1>2. CoreType /\ QueueInv(q) /\ ExecInv /\ Op' = Op
  BY <1>1 DEF CoreInv, Op
<1>3. /\ worker'[q] = "idle"
      /\ \A p \in Queue \ {q} : worker'[p] = worker[p] /\ current'[p] = current[p]
  BY <1>1, <1>2 DEF CoreType
<1>4. CoreType'
  BY <1>1, <1>2 DEF CoreType
<1>5. StreamInv(q)' /\ HostInv(q)' /\ WorkerInv(q)'
  BY <1>1, <1>2, <1>3 DEF QueueInv, StreamInv, HostInv, InHost, HeadOf, Cuda, WorkerInv
<1>6. \A i \in Op : Handed(i)' <=> Handed(i)
  BY <1>1 DEF Handed, InHost, HeadOf, Cuda
<1>7. TaskInv(q)'
  BY <1>1, <1>2, <1>6, TaskSame DEF QueueInv
<1>8. future' \subseteq executed
  BY <1>1, <1>2 DEF QueueInv, WorkerInv, ExecInv
<1> QED
  BY <1>1, <1>2, <1>3, <1>4, <1>5, <1>7, <1>8, QueueStep DEF QueueInv

\* A deferred buffer's deleter: CUDA enqueues the free, SYCL hands the closure
\* that frees to the callback thread.
LEMMA DeleterCore ==
    ASSUME CoreInv, NEW q \in Queue, RunDeleter(q), program' = program PROVE CoreInv'
<1>1. CoreType /\ QueueInv(q) /\ ExecInv
  BY DEF CoreInv
<1>2. CASE Cuda
  <2>1. Enqueue("free", q, 0, {}) /\ UNCHANGED <<finished, host, tasks, worker, current, executed, future>>
    BY <1>2 DEF RunDeleter, callbackVars
  <2>2. "free" \in OpKind
    BY DEF OpKind
  <2>3. Added("free", q, 0, {})
    BY <1>1, <2>1, <2>2, EnqueueEffect
  <2>4. WorkerInv(q)' /\ worker' \in [Queue -> {"idle", "ran", "destroying"}] /\ current' \in [Queue -> Nat]
    BY <1>1, <2>1 DEF QueueInv, WorkerInv, CoreType
  <2> QED
    BY <2>1, <2>2, <2>3, <2>4, AddedCore
<1>3. CASE ~Cuda
  <2>1. /\ tasks' = [tasks EXCEPT ![q] = Append(@, FreeClosure)]
        /\ UNCHANGED <<op, stream, finished, host, worker, current, executed, future>>
    BY <1>3 DEF RunDeleter, nativeVars
  <2>2. Appended(q, FreeClosure)
    BY <1>1, <2>1, AppendEffect DEF FreeClosure
  <2>3. CoreType' /\ Op' = Op
    BY <1>1, <2>1, <2>2 DEF CoreType, Op, Appended
  <2>4. StreamInv(q)' /\ HostInv(q)'
    BY <1>1, <2>1, <2>3 DEF QueueInv, StreamInv, HostInv, InHost, HeadOf, Cuda
  <2>5. \A i \in Op : Handed(i)' <=> Handed(i)
    BY <2>1 DEF Handed, InHost, HeadOf, Cuda
  <2>6. TaskInv(q)'
    BY <1>1, <2>1, <2>2, <2>5, TaskAppended DEF QueueInv
  <2>7. WorkerInv(q)'
    BY <1>1, <2>1, <2>2 DEF QueueInv, WorkerInv, Appended
  <2> QED
    BY <1>1, <2>1, <2>2, <2>3, <2>4, <2>6, <2>7, QueueStep DEF QueueInv, ExecInv, Appended
<1> QED
  BY <1>2, <1>3

-----------------------------------------------------------------------------
(* The users.                                                              *)

\* A step adds operations and completes and executes some; it takes none of it
\* back.
Grows ==
    /\ Extends /\ program' = program
    /\ finished \subseteq finished' /\ executed \subseteq executed'

\* What was said of needs, events and threads remains true.
LEMMA NeedKept == ASSUME Grows, NEW q \in Queue, NeedOf(q), need'[q] = need[q] PROVE NeedOf(q)'
  BY DEF NeedOf, Grows, Extends

\* The same for an event.
LEMMA EventKept == ASSUME Grows, NEW e \in Event, EventOf(e), event'[e] = event[e] PROVE EventOf(e)'
  BY DEF EventOf, Grows, Extends

\* The same for a thread.
LEMMA ThreadKept ==
    ASSUME Grows, NEW t \in Thread, ThreadOf(t), thread'[t] = thread[t]
    PROVE  ThreadOf(t)'
<1>1. /\ Op \subseteq Op' /\ \A i \in Op : op'[i] = op[i]
      /\ finished \subseteq finished' /\ program' = program
  BY DEF Grows, Extends
<1>2. PICK x : x = thread[t]
  OBVIOUS
<1>3. ASSUME x.call \in Waits
      PROVE  Covered(finished \cup (IF x.at = "await" THEN x.goal ELSE {}), x.cover)'
  <2>1. Covered(finished \cup (IF x.at = "await" THEN x.goal ELSE {}), x.cover)
    BY <1>2, <1>3 DEF ThreadOf
  <2> QED
    BY <1>1, <2>1 DEF Covered
<1> QED
  BY <1>1, <1>2, <1>3 DEF ThreadOf, Blocking

\* What is complete is done, and with it what it comes after.
LEMMA CoveredDone ==
    ASSUME CoreInv, NEW cover, Covered(finished, cover)
    PROVE  cover \subseteq executed
  BY DEF CoreInv, ExecInv, OperationsInOrder, Covered

\* What is in a native queue or complete.
LEMMA InStreamOrDone ==
    ASSUME CoreInv, NEW q \in Queue, NEW i \in Op, op[i].q = q
    PROVE  i \in finished \cup InStream(q)
<1>1. \/ i \in finished
      \/ \E k \in 1..Len(stream[q]) : i = stream[q][k]
  BY DEF CoreInv, QueueInv, StreamInv
<1>2. stream[q] \in Seq(Nat)
  BY DEF CoreInv, CoreType
<1>3. DOMAIN stream[q] = 1..Len(stream[q])
  BY <1>2
<1> QED
  BY <1>1, <1>3 DEF InStream

\* A step of t in which the others keep what they have.
LEMMA UserStep ==
    ASSUME UserInv, Grows, UserType', promised' \subseteq executed',
           NEW t \in Thread, \A u \in Thread \ {t} : thread'[u] = thread[u], ThreadOf(t)',
           \A q \in Queue : need'[q] = need[q] \/ NeedOf(q)',
           \A e \in Event : event'[e] = event[e] \/ EventOf(e)'
    PROVE  UserInv'
  BY NeedKept, EventKept, ThreadKept DEF UserInv

\* A step of nobody's call.
LEMMA UserSame ==
    ASSUME UserInv, Grows, UNCHANGED <<event, need, thread, returned, promised>>
    PROVE  UserInv'
<1>1. UserType'
  BY DEF UserInv, UserType, Grows, Extends
<1> QED
  BY <1>1, NeedKept, EventKept, ThreadKept DEF UserInv, Grows

\* A step that leaves the native queues and the callback threads alone.
LEMMA CoreSame ==
    ASSUME CoreInv, UNCHANGED <<program, nativeVars, callbackVars>>
    PROVE  CoreInv' /\ Grows
<1>1. /\ Op' = Op /\ UNCHANGED <<program, op, stream, finished, host, tasks, worker, current, executed, future>>
  BY DEF nativeVars, callbackVars, Op
<1>2. CoreType' /\ AfterInv' /\ ExecInv'
  BY <1>1 DEF CoreInv, CoreType, AfterInv, AfterOf, ExecInv, OperationsInOrder
<1>3. ASSUME NEW q \in Queue PROVE QueueInv(q)'
  <2>1. Extends /\ SameQueue(q)
    BY <1>1 DEF Extends, SameQueue
  <2> QED
    BY <1>1, <2>1, OtherQueue DEF CoreInv
<1> QED
  BY <1>1, <1>2, <1>3 DEF CoreInv, Grows, Extends

\* The arguments of a call.
LEMMA BeginFacts ==
    ASSUME CoreInv, UserInv, NEW t \in Thread, NEW c, Begin(t, c)
    PROVE  /\ c.call \in Call /\ c.q \in Queue /\ c.e \in Event \cup {None}
           /\ c.call \in {"event", "waitFor", "waitEvent"} => c.e \in Event
           /\ thread[t].at = "free"
  BY NativeQueueAssumption DEF Begin, CoreInv, CoreType

\* The record of a call.
LEMMA Placed ==
    ASSUME UserInv, NEW t \in Thread, NEW c, c.call \in Call, c.q \in Queue, c.e \in Event \cup {None},
           NEW place \in {"free", "setEvent", "setLast", "sync", "await", "return"},
           NEW i \in Nat, NEW cover \in SUBSET Nat, Place(t, c, place, i, cover)
    PROVE  /\ thread' \in [Thread -> ThreadType]
           /\ \A u \in Thread \ {t} : thread'[u] = thread[u]
           /\ thread'[t] = [at |-> place, call |-> c.call, q |-> c.q, e |-> c.e, op |-> i,
                            goal |-> {}, cover |-> cover]
<1>1. thread \in [Thread -> ThreadType]
  BY DEF UserInv, UserType
<1> DEFINE r == [at |-> place, call |-> c.call, q |-> c.q, e |-> c.e, op |-> i,
                 goal |-> {}, cover |-> cover]
<1>2. r \in ThreadType
  BY DEF ThreadType
<1>3. thread' = [thread EXCEPT ![t] = r]
  BY DEF Place
<1> QED
  BY <1>1, <1>2, <1>3

\* What a queue's next operation comes after, by its place and by the events the
\* queue waits for.
LEMMA BeforeIsAfter ==
    ASSUME CoreInv, UserInv, NEW q \in Queue, NEW kind \in OpKind, NEW target \in Nat,
           NEW cover \in SUBSET Nat, Added(kind, q, target, Before(q, kind) \cup cover),
           cover # {} => /\ kind = "waitFor" /\ target \in Op /\ op[target].kind = "event"
                         /\ cover = op[target].after,
           NEW n, n = NewOp
    PROVE  \A j \in Before(q, kind) \cup cover : AfterOf(n, j)'
<1>0. /\ Op' = Op \cup {n} /\ \A i \in Op : i < n /\ op'[i] = op[i]
      /\ op'[n].kind = kind /\ op'[n].q = q /\ op'[n].target = target
  BY DEF Added
<1>1. ASSUME NEW j, j \in returned, op[j].q = q, op[j].kind \in DeferredKind => kind \in HostKind
      PROVE  AfterOf(n, j)'
  <2>1. j \in Op
    BY <1>1 DEF UserInv, UserType
  <2> QED
    BY <1>0, <1>1, <2>1 DEF AfterOf
<1>2. ASSUME NEW j \in need[q] PROVE AfterOf(n, j)'
  <2>1. PICK w \in Op : op[w].kind = "waitFor" /\ op[w].q = q /\ j \in op[w].after
    BY DEF UserInv, NeedOf
  <2>2. j \in Op
    BY <2>1 DEF CoreInv, AfterInv, AfterOf
  <2> QED
    BY <1>0, <2>1, <2>2 DEF AfterOf
<1>3. ASSUME NEW j \in cover PROVE AfterOf(n, j)'
  <2>1. j \in Op
    BY <1>3 DEF CoreInv, AfterInv, AfterOf
  <2> QED
    BY <1>0, <1>3, <2>1 DEF AfterOf
<1> QED
  BY <1>1, <1>2, <1>3 DEF Before

\* A call that enqueues an operation, of the kind that it names.
LEMMA EnqueueCall ==
    ASSUME CoreInv, UserInv, NEW t \in Thread, NEW c, Begin(t, c), c.call \in OpKind,
           NEW target \in Nat, NEW after, Enqueue(c.call, c.q, target, after),
           \/ after = Before(c.q, c.call)
           \/ /\ after = Before(c.q, c.call) \cup op[target].after
              /\ c.call = "waitFor" /\ target \in Op /\ op[target].kind = "event",
           UNCHANGED <<program, finished, host, callbackVars>>,
           NEW place \in {"setEvent", "setLast", "sync", "return"}, NEW cover \in SUBSET Nat,
           Place(t, c, place, NewOp, cover),
           place = "setEvent" => c.call = "event" /\ cover = after,
           place = "return" => ~Blocking(c.q)
    PROVE  /\ CoreInv' /\ Grows /\ ThreadOf(t)'
           /\ Added(c.call, c.q, target, after)
           /\ thread' \in [Thread -> ThreadType] /\ \A u \in Thread \ {t} : thread'[u] = thread[u]
<1>0. CoreType /\ UserType /\ c.q \in Queue /\ c.call \in Call /\ c.e \in Event \cup {None}
  BY BeginFacts DEF CoreInv, UserInv
<1>1. PICK more \in SUBSET Nat :
         /\ after = Before(c.q, c.call) \cup more
         /\ more # {} => /\ c.call = "waitFor" /\ target \in Op /\ op[target].kind = "event"
                         /\ more = op[target].after
  <2>1. CASE after = Before(c.q, c.call)
    BY <2>1, {} \in SUBSET Nat, after = after \cup {}
  <2>2. CASE after # Before(c.q, c.call)
    <3>1. op[target] \in OpType
      BY <1>0, <2>2 DEF CoreType, Op
    <3> QED
      BY <2>2, <3>1 DEF OpType
  <2> QED
    BY <2>1, <2>2
<1>11. after \in SUBSET Nat
  <2>1. need[c.q] \subseteq Nat /\ returned \subseteq Nat
    BY <1>0 DEF UserType, Op
  <2>2. Before(c.q, c.call) \subseteq Nat
    BY <2>1 DEF Before
  <2> QED
    BY <1>1, <2>2
<1>2. Added(c.call, c.q, target, after)
  BY <1>0, <1>11, EnqueueEffect
<1>3. PICK n : n = NewOp
  OBVIOUS
<1>4. \A j \in after : AfterOf(n, j)'
  <2>1. Added(c.call, c.q, target, Before(c.q, c.call) \cup more)
    BY <1>1, <1>2
  <2>2. \A j \in Before(c.q, c.call) \cup more : AfterOf(n, j)'
    BY <1>0, <1>1, <1>3, <2>1, BeforeIsAfter
  <2> QED
    BY <1>1, <2>2
<1>5. /\ UNCHANGED <<program, finished, host, tasks, worker, current, executed, future>>
      /\ worker' \in [Queue -> {"idle", "ran", "destroying"}] /\ current' \in [Queue -> Nat]
      /\ WorkerInv(c.q)'
  BY <1>0 DEF callbackVars, CoreInv, CoreType, QueueInv, WorkerInv
<1>6. CoreInv'
  BY <1>0, <1>11, <1>2, <1>3, <1>4, <1>5, AddedCore
<1>7. Grows
  BY <1>2, <1>5 DEF Added, Grows, Extends
<1>8. NewOp \in Nat \ {0}
  <2>1. Len(op) \in Nat
    BY <1>0 DEF CoreType
  <2> QED
    BY <2>1 DEF NewOp
<1>9. /\ thread' \in [Thread -> ThreadType] /\ \A u \in Thread \ {t} : thread'[u] = thread[u]
      /\ thread'[t] = [at |-> place, call |-> c.call, q |-> c.q, e |-> c.e, op |-> n,
                       goal |-> {}, cover |-> cover]
  BY <1>0, <1>3, <1>8, Placed
<1>10. ThreadOf(t)'
  <2>1. /\ n \in Op' /\ n # 0
        /\ op'[n].kind = c.call /\ op'[n].q = c.q /\ op'[n].after = after
    BY <1>2, <1>3, <1>8 DEF Added
  <2>2. c.call \notin Waits
    BY DEF OpKind, EnqueueKind, HostKind, Waits
  <2>3. Blocking(c.q)' <=> Blocking(c.q)
    BY <1>5 DEF Blocking
  <2>4. PICK x : x = thread'[t]
    OBVIOUS
  <2>5. /\ x.at = place /\ x.call = c.call /\ x.q = c.q /\ x.op = n /\ x.cover = cover
        /\ place \notin {"free", "await"}
    BY <1>9, <2>4
  <2>7. Blocking(x.q)' <=> Blocking(c.q)
    BY <2>3, <2>5
  <2> QED
    BY <1>0, <2>1, <2>2, <2>4, <2>5, <2>7 DEF ThreadOf
<1> QED
  BY <1>2, <1>6, <1>7, <1>9, <1>10

\* Where a call goes that has submitted its operation.
LEMMA SubmittedPlace ==
    ASSUME NEW q
    PROVE  \E place \in {"setEvent", "setLast", "sync", "return"} :
              place = Submitted(q) /\ place # "setEvent" /\ (place = "return" => ~Blocking(q))
  BY DEF Submitted

\* Kernels, copies and host functions.
LEMMA SubmitKeeps ==
    ASSUME CoreInv, UserInv, NEW t \in Thread, NEW c, Submit(t, c) PROVE CoreInv' /\ UserInv' /\ Grows
<1>1. /\ Begin(t, c) /\ c.call \in EnqueueKind /\ Enqueue(c.call, c.q, 0, Before(c.q, c.call))
      /\ Place(t, c, Submitted(c.q), NewOp, {})
      /\ UNCHANGED <<program, finished, host, callbackVars, event, returned, need, promised>>
  BY DEF Submit, NewOp
<1>2. PICK place \in {"setEvent", "setLast", "sync", "return"} :
         place = Submitted(c.q) /\ place # "setEvent" /\ (place = "return" => ~Blocking(c.q))
  BY SubmittedPlace
<1>3. {} \in SUBSET Nat /\ 0 \in Nat /\ c.call \in OpKind
  BY <1>1 DEF OpKind
<1>4. /\ CoreInv' /\ Grows /\ ThreadOf(t)'
      /\ thread' \in [Thread -> ThreadType] /\ \A u \in Thread \ {t} : thread'[u] = thread[u]
  BY <1>1, <1>2, <1>3, EnqueueCall
<1>5. UserType' /\ promised' \subseteq executed'
  BY <1>1, <1>4 DEF UserInv, UserType, Grows, Extends, callbackVars
<1> QED
  BY <1>1, <1>4, <1>5, UserStep

\* eventRecord: CUDA records the event at once.
LEMMA EnqueueEventKeeps ==
    ASSUME CoreInv, UserInv, NEW t \in Thread, NEW c, EnqueueEvent(t, c)
    PROVE  CoreInv' /\ UserInv' /\ Grows
<1> DEFINE cover == Before(c.q, "event")
           place == IF Cuda THEN Submitted(c.q) ELSE "setEvent"
<1>1. /\ Begin(t, c) /\ c.call = "event" /\ Enqueue(c.call, c.q, 0, cover)
      /\ Place(t, c, place, NewOp, cover)
      /\ event' = IF Cuda THEN [event EXCEPT ![c.e] = [op |-> NewOp, cover |-> cover]] ELSE event
      /\ UNCHANGED <<program, finished, host, callbackVars, returned, need, promised>>
  BY DEF EnqueueEvent, NewOp
<1>2. /\ place \in {"setEvent", "setLast", "sync", "return"}
      /\ place = "return" => ~Blocking(c.q)
  BY DEF Submitted
<1>3. /\ cover = Before(c.q, c.call) /\ c.call \in OpKind
      /\ cover \in SUBSET Nat /\ CoreType /\ NewOp \in Nat \ {0}
      /\ place = "setEvent" => c.call = "event"
  <2>1. need[c.q] \subseteq Nat /\ returned \subseteq Nat /\ CoreType
    BY <1>1, BeginFacts DEF CoreInv, UserInv, UserType, Op
  <2>2. NewOp \in Nat \ {0}
    <3>1. Len(op) \in Nat
      BY <2>1 DEF CoreType
    <3> QED
      BY <3>1 DEF NewOp
  <2>3. cover \in SUBSET Nat
    BY <2>1 DEF Before
  <2>4. cover = Before(c.q, c.call) /\ c.call \in OpKind
    BY <1>1 DEF OpKind
  <2> QED
    BY <1>1, <2>1, <2>2, <2>3, <2>4
<1> HIDE DEF cover, place
<1>4. /\ CoreInv' /\ Grows /\ ThreadOf(t)' /\ Added(c.call, c.q, 0, cover)
      /\ thread' \in [Thread -> ThreadType] /\ \A u \in Thread \ {t} : thread'[u] = thread[u]
  <2>1. Enqueue(c.call, c.q, 0, Before(c.q, c.call))
    BY <1>1, <1>3
  <2> QED
    BY <1>1, <1>2, <1>3, <2>1, 0 \in Nat, EnqueueCall
<1>5. /\ event \in [Event -> [op : Nat, cover : SUBSET Nat]] /\ c.e \in Event
      /\ [op |-> NewOp, cover |-> cover] \in [op : Nat, cover : SUBSET Nat]
  BY <1>1, <1>3, BeginFacts DEF UserInv, UserType
<1>6. UserType' /\ promised' \subseteq executed'
  <2>1. event' \in [Event -> [op : Nat, cover : SUBSET Nat]]
    BY <1>1, <1>5
  <2> QED
    BY <1>1, <1>4, <2>1 DEF UserInv, UserType, Grows, Extends, callbackVars
<1>7. ASSUME NEW e \in Event PROVE event'[e] = event[e] \/ EventOf(e)'
  <2>1. CASE Cuda /\ e = c.e
    <3>1. PICK n : n = NewOp
      OBVIOUS
    <3>2. event'[e] = [op |-> n, cover |-> cover]
      BY <1>1, <1>5, <2>1, <3>1
    <3>3. n \in Op' /\ op'[n].kind = "event" /\ op'[n].after = cover
      BY <1>1, <1>4, <3>1 DEF Added
    <3> QED
      BY <3>2, <3>3 DEF EventOf
  <2>2. CASE ~(Cuda /\ e = c.e)
    BY <1>1, <1>5, <2>2
  <2> QED
    BY <2>1, <2>2
<1> QED
  BY <1>1, <1>4, <1>6, <1>7, UserStep

\* waitFor: later operations of the queue come after what the event covers.
LEMMA WaitForKeeps ==
    ASSUME CoreInv, UserInv, NEW t \in Thread, NEW c, WaitFor(t, c)
    PROVE  CoreInv' /\ UserInv' /\ Grows
<1> DEFINE cover == event[c.e].cover
           target == event[c.e].op
<1>1. /\ Begin(t, c) /\ c.call = "waitFor"
      /\ Enqueue(c.call, c.q, target, Before(c.q, c.call) \cup cover)
      /\ Place(t, c, Submitted(c.q), NewOp, {})
      /\ need' = [need EXCEPT ![c.q] = @ \cup cover]
      /\ UNCHANGED <<program, finished, host, callbackVars, event, returned, promised>>
  BY DEF WaitFor, NewOp
<1>2. PICK place \in {"setEvent", "setLast", "sync", "return"} :
         place = Submitted(c.q) /\ place # "setEvent" /\ (place = "return" => ~Blocking(c.q))
  BY SubmittedPlace
<1>3. c.e \in Event /\ c.q \in Queue
  BY <1>1, BeginFacts
<1>4. /\ target \in Nat /\ cover \in SUBSET Nat
      /\ cover # {} => target \in Op /\ op[target].kind = "event" /\ cover = op[target].after
  BY <1>3 DEF UserInv, UserType, EventOf
<1> HIDE DEF cover, target
<1>5. /\ CoreInv' /\ Grows /\ ThreadOf(t)'
      /\ Added(c.call, c.q, target, Before(c.q, c.call) \cup cover)
      /\ thread' \in [Thread -> ThreadType] /\ \A u \in Thread \ {t} : thread'[u] = thread[u]
  <2>1. c.call \in OpKind /\ {} \in SUBSET Nat
    BY <1>1 DEF OpKind
  <2>2. PICK after : after = Before(c.q, c.call) \cup cover
    OBVIOUS
  <2>3. /\ Enqueue(c.call, c.q, target, after)
        /\ \/ after = Before(c.q, c.call)
           \/ /\ after = Before(c.q, c.call) \cup op[target].after
              /\ c.call = "waitFor" /\ target \in Op /\ op[target].kind = "event"
    BY <1>1, <1>4, <2>2
  <2> QED
    BY <1>1, <1>2, <1>4, <2>1, <2>2, <2>3, EnqueueCall
<1>6. UserType' /\ promised' \subseteq executed'
  BY <1>1, <1>3, <1>4, <1>5 DEF UserInv, UserType, Grows, Extends, callbackVars
<1>7. ASSUME NEW q \in Queue PROVE need'[q] = need[q] \/ NeedOf(q)'
  <2>1. CASE q = c.q
    <3>1. PICK n : n = NewOp
      OBVIOUS
    <3>2. need'[q] = need[q] \cup cover
      BY <1>1, <1>3, <2>1 DEF UserInv, UserType
    <3>3. /\ n \in Op' /\ op'[n].kind = "waitFor" /\ op'[n].q = q /\ cover \subseteq op'[n].after
          /\ Op \subseteq Op' /\ \A i \in Op : op'[i] = op[i]
      BY <1>1, <1>5, <2>1, <3>1 DEF Added
    <3>4. NeedOf(q)
      BY DEF UserInv
    <3> QED
      BY <3>2, <3>3, <3>4 DEF NeedOf
  <2>2. CASE q # c.q
    BY <1>1, <1>3, <2>2 DEF UserInv, UserType
  <2> QED
    BY <2>1, <2>2
<1> QED
  BY <1>1, <1>5, <1>6, <1>7, UserStep

\* A call that submits nothing.
LEMMA QuietCall ==
    ASSUME CoreInv, UserInv, NEW t \in Thread, NEW c, Begin(t, c),
           UNCHANGED <<program, nativeVars, callbackVars, event, returned, need, promised>>,
           NEW place \in {"sync", "return"}, Place(t, c, place, 0, {}), c.call \notin Waits
    PROVE  CoreInv' /\ UserInv' /\ Grows
<1>1. c.call \in Call /\ c.q \in Queue /\ c.e \in Event \cup {None}
  BY BeginFacts
<1>2. /\ thread' \in [Thread -> ThreadType] /\ \A u \in Thread \ {t} : thread'[u] = thread[u]
      /\ thread'[t] = [at |-> place, call |-> c.call, q |-> c.q, e |-> c.e, op |-> 0,
                       goal |-> {}, cover |-> {}]
  <2>1. 0 \in Nat /\ {} \in SUBSET Nat /\ place \in {"free", "setEvent", "setLast", "sync", "await", "return"}
    OBVIOUS
  <2> QED
    BY <1>1, <2>1, Placed
<1>3. CoreInv' /\ Grows
  BY CoreSame
<1>4. ThreadOf(t)'
  <2>1. PICK x : x = thread'[t]
    OBVIOUS
  <2>2. x.at = place /\ x.call = c.call /\ x.q = c.q /\ x.op = 0
    BY <1>2, <2>1
  <2> QED
    BY <1>1, <2>1, <2>2 DEF ThreadOf
<1>5. UserType' /\ promised' \subseteq executed'
  BY <1>2, <1>3 DEF UserInv, UserType, Grows, Extends
<1> QED
  BY <1>2, <1>3, <1>4, <1>5, UserStep

\* allocDeferred; SYCL submits nothing.
LEMMA AllocKeeps ==
    ASSUME CoreInv, UserInv, NEW t \in Thread, NEW c, Alloc(t, c) PROVE CoreInv' /\ UserInv' /\ Grows
<1>0. /\ Begin(t, c) /\ c.call = "alloc"
      /\ UNCHANGED <<program, finished, host, callbackVars, event, returned, need, promised>>
  BY DEF Alloc
<1>1. CASE Cuda
  <2>1. /\ Enqueue(c.call, c.q, 0, Before(c.q, c.call)) /\ Place(t, c, Submitted(c.q), NewOp, {})
    BY <1>0, <1>1 DEF Alloc, NewOp
  <2>2. PICK place \in {"setEvent", "setLast", "sync", "return"} :
           place = Submitted(c.q) /\ place # "setEvent" /\ (place = "return" => ~Blocking(c.q))
    BY SubmittedPlace
  <2>3. {} \in SUBSET Nat /\ 0 \in Nat /\ c.call \in OpKind
    BY <1>0 DEF OpKind
  <2>4. /\ CoreInv' /\ Grows /\ ThreadOf(t)'
        /\ thread' \in [Thread -> ThreadType] /\ \A u \in Thread \ {t} : thread'[u] = thread[u]
    BY <1>0, <2>1, <2>2, <2>3, EnqueueCall
  <2>5. UserType' /\ promised' \subseteq executed'
    BY <1>0, <2>4 DEF UserInv, UserType, Grows, Extends, callbackVars
  <2> QED
    BY <1>0, <2>4, <2>5, UserStep
<1>2. CASE ~Cuda
  <2>1. /\ UNCHANGED <<op, stream>>
        /\ Place(t, c, IF Blocking(c.q) THEN "sync" ELSE "return", 0, {})
    BY <1>2 DEF Alloc
  <2>2. UNCHANGED nativeVars
    BY <1>0, <2>1 DEF nativeVars
  <2>3. c.call \notin Waits
    BY <1>0 DEF Waits
  <2> QED
    BY <1>0, <2>1, <2>2, <2>3, QuietCall
<1> QED
  BY <1>1, <1>2

\* wait(queue) and wait(event): when what they wait for is complete, what they
\* will report is done.
LEMMA WaitKeeps ==
    ASSUME CoreInv, UserInv, NEW t \in Thread, NEW c, Wait(t, c) PROVE CoreInv' /\ UserInv' /\ Grows
<1> DEFINE goal == IF c.call = "waitQueue" THEN InStream(c.q) ELSE {event[c.e].op} \ {0}
           cover == IF c.call = "waitQueue" THEN Before(c.q, c.call) ELSE event[c.e].cover
           r == [at |-> "await", call |-> c.call, q |-> c.q, e |-> c.e, op |-> 0,
                 goal |-> goal, cover |-> cover]
<1>1. /\ Begin(t, c) /\ c.call \in Waits /\ thread' = [thread EXCEPT ![t] = r]
      /\ UNCHANGED <<program, nativeVars, callbackVars, event, returned, need, promised>>
  BY DEF Wait, Waits
<1>2. /\ c.call \in Call /\ c.q \in Queue /\ c.e \in Event \cup {None}
      /\ c.call = "waitEvent" => c.e \in Event
  BY <1>1, BeginFacts
<1>3. CoreInv' /\ Grows
  BY <1>1, CoreSame
<1>4. /\ goal \in SUBSET Nat /\ cover \in SUBSET Nat
      /\ Covered(finished \cup goal, cover)
  <2>0. CoreType /\ UserType /\ need[c.q] \subseteq Nat /\ returned \subseteq Nat
    BY <1>2 DEF CoreInv, UserInv, UserType, Op
  <2>1. CASE c.call = "waitQueue"
    <3>1. goal = InStream(c.q) /\ cover = Before(c.q, "waitQueue")
      BY <2>1
    <3>2. goal \in SUBSET Nat
      <4>1. stream[c.q] \in Seq(Nat)
        BY <1>2, <2>0 DEF CoreType
      <4>2. \A k \in DOMAIN stream[c.q] : stream[c.q][k] \in Nat
        BY <4>1
      <4> QED
        BY <3>1, <4>2 DEF InStream
    <3>3. cover \in SUBSET Nat
      BY <2>0, <3>1 DEF Before
    <3>4. ASSUME NEW j \in cover
          PROVE  \E g \in (finished \cup goal) \cap Op :
                    op[g].kind \notin DeferredKind /\ (j = g \/ j \in op[g].after)
      <4>1. CASE j \in returned /\ op[j].q = c.q /\ op[j].kind \notin DeferredKind
        <5>1. j \in Op
          BY <2>0, <4>1 DEF UserType
        <5>2. j \in finished \cup InStream(c.q)
          BY <1>2, <4>1, <5>1, InStreamOrDone
        <5> QED
          BY <3>1, <4>1, <5>1, <5>2
      <4>2. CASE j \in need[c.q]
        <5>1. PICK w \in Op : op[w].kind = "waitFor" /\ op[w].q = c.q /\ j \in op[w].after
          BY <1>2, <4>2 DEF UserInv, NeedOf
        <5>2. w \in finished \cup InStream(c.q)
          BY <1>2, <5>1, InStreamOrDone
        <5> QED
          BY <3>1, <5>1, <5>2 DEF DeferredKind
      <4> QED
        BY <3>1, <4>1, <4>2 DEF Before, HostKind
    <3> QED
      BY <3>2, <3>3, <3>4 DEF Covered
  <2>2. CASE c.call = "waitEvent"
    <3>1. goal = {event[c.e].op} \ {0} /\ cover = event[c.e].cover /\ EventOf(c.e)
      BY <1>2, <2>2 DEF UserInv
    <3>2. goal \in SUBSET Nat /\ cover \in SUBSET Nat
      BY <1>2, <2>0, <2>2, <3>1 DEF UserType
    <3>3. \A i \in Op : i # 0
      BY DEF Op
    <3> QED
      BY <3>1, <3>2, <3>3 DEF Covered, EventOf, DeferredKind
  <2> QED
    BY <1>1, <2>1, <2>2 DEF Waits
<1> HIDE DEF goal, cover
<1>5. thread \in [Thread -> ThreadType] /\ r \in ThreadType
  BY <1>2, <1>4 DEF ThreadType, UserInv, UserType
<1>6. /\ thread' \in [Thread -> ThreadType] /\ \A u \in Thread \ {t} : thread'[u] = thread[u]
      /\ thread'[t] = r
  BY <1>1, <1>5
<1>7. ThreadOf(t)'
  <2>1. PICK x : x = thread'[t]
    OBVIOUS
  <2>2. PICK g, cv : g = goal /\ cv = cover
    OBVIOUS
  <2>3. x.at = "await" /\ x.call = c.call /\ x.q = c.q /\ x.op = 0 /\ x.goal = g /\ x.cover = cv
    BY <1>6, <2>1, <2>2
  <2>4. Covered(finished \cup g, cv)
    BY <1>4, <2>2
  <2>5. Op \subseteq Op' /\ finished \subseteq finished' /\ \A i \in Op : op'[i] = op[i]
    BY <1>3 DEF Grows, Extends
  <2>6. Covered(finished \cup g, cv)'
    BY <2>4, <2>5 DEF Covered
  <2> QED
    BY <1>1, <1>2, <2>1, <2>3, <2>6 DEF ThreadOf
<1>8. UserType' /\ promised' \subseteq executed'
  BY <1>1, <1>3, <1>6 DEF UserInv, UserType, Grows, Extends
<1> QED
  BY <1>1, <1>3, <1>6, <1>7, <1>8, UserStep

-----------------------------------------------------------------------------
(* Calls under way.                                                        *)

\* The record of a call that goes on to its next place.
LEMMA Moved ==
    ASSUME UserInv, NEW t \in Thread,
           NEW place \in {"free", "setEvent", "setLast", "sync", "await", "return"},
           thread' = [thread EXCEPT ![t].at = place]
    PROVE  /\ thread' \in [Thread -> ThreadType]
           /\ \A u \in Thread \ {t} : thread'[u] = thread[u]
           /\ thread'[t].at = place /\ thread'[t].call = thread[t].call
           /\ thread'[t].q = thread[t].q /\ thread'[t].e = thread[t].e
           /\ thread'[t].op = thread[t].op /\ thread'[t].goal = thread[t].goal
           /\ thread'[t].cover = thread[t].cover
<1>1. thread \in [Thread -> ThreadType] /\ thread[t] \in ThreadType
  BY DEF UserInv, UserType
<1>2. PICK r : r = [thread[t] EXCEPT !.at = place]
  OBVIOUS
<1>3. /\ r \in ThreadType
      /\ r.at = place /\ r.call = thread[t].call /\ r.q = thread[t].q /\ r.e = thread[t].e
      /\ r.op = thread[t].op /\ r.goal = thread[t].goal /\ r.cover = thread[t].cover
  BY <1>1, <1>2 DEF ThreadType
<1>4. thread' = [thread EXCEPT ![t] = r]
  BY <1>2
<1> QED
  BY <1>1, <1>3, <1>4

\* The marker's event is stored: it covers what the marker comes after.
LEMMA SetEventKeeps ==
    ASSUME CoreInv, UserInv, NEW t \in Thread, SetEvent(t) PROVE CoreInv' /\ UserInv' /\ Grows
<1>1. /\ thread[t].at = "setEvent" /\ thread' = [thread EXCEPT ![t].at = "setLast"]
      /\ event' = [event EXCEPT ![thread[t].e] = [op |-> thread[t].op, cover |-> thread[t].cover]]
      /\ UNCHANGED <<program, nativeVars, callbackVars, returned, need, promised>>
  BY DEF SetEvent
<1>2. CoreInv' /\ Grows
  BY <1>1, CoreSame
<1>3. PICK x \in ThreadType : x = thread[t]
  BY DEF UserInv, UserType
<1>4. /\ x.at = "setEvent" /\ x.q \in Queue /\ x.op # 0 /\ x.op \in Op /\ x.call = "event"
      /\ op[x.op].kind = "event" /\ op[x.op].q = x.q /\ x.cover = op[x.op].after
      /\ x.op \in Nat /\ x.cover \in SUBSET Nat
  BY <1>1, <1>3 DEF UserInv, ThreadOf, ThreadType
<1>5. Op' = Op /\ op' = op /\ finished' = finished /\ executed' = executed /\ program' = program
  BY <1>1 DEF nativeVars, callbackVars, Op
<1>6. PICK y : y = thread'[t]
  OBVIOUS
<1>7. /\ thread' \in [Thread -> ThreadType] /\ \A u \in Thread \ {t} : thread'[u] = thread[u]
      /\ y.at = "setLast" /\ y.call = x.call /\ y.q = x.q /\ y.op = x.op
  BY <1>1, <1>3, <1>6, Moved
<1>8. ThreadOf(t)'
  BY <1>4, <1>5, <1>6, <1>7 DEF ThreadOf, Waits
<1>9. ASSUME NEW e \in Event PROVE event'[e] = event[e] \/ EventOf(e)'
  <2>1. event \in [Event -> [op : Nat, cover : SUBSET Nat]]
    BY DEF UserInv, UserType
  <2>2. event'[e] = event[e] \/ event'[e] = [op |-> x.op, cover |-> x.cover]
    BY <1>1, <1>3, <2>1
  <2> QED
    BY <1>4, <1>5, <2>2 DEF EventOf
<1>10. UserType' /\ promised' \subseteq executed'
  <2>1. event' \in [Event -> [op : Nat, cover : SUBSET Nat]]
    BY <1>1, <1>3, <1>4 DEF UserInv, UserType
  <2> QED
    BY <1>1, <1>5, <1>7, <2>1 DEF UserInv, UserType
<1> QED
  BY <1>1, <1>2, <1>7, <1>8, <1>9, <1>10, UserStep

\* m_lastEvent is stored.
LEMMA SetLastKeeps ==
    ASSUME CoreInv, UserInv, NEW t \in Thread, SetLast(t) PROVE CoreInv' /\ UserInv' /\ Grows
<1> DEFINE place == IF Blocking(thread[t].q) THEN "sync" ELSE "return"
<1>1. /\ thread[t].at = "setLast" /\ thread' = [thread EXCEPT ![t].at = place]
      /\ UNCHANGED <<program, nativeVars, callbackVars, event, returned, need, promised>>
  BY DEF SetLast
<1>2. CoreInv' /\ Grows
  BY <1>1, CoreSame
<1>3. PICK x : x = thread[t]
  OBVIOUS
<1>4. /\ x.q \in Queue /\ x.call \notin Waits
      /\ x.op # 0 => x.op \in Op /\ op[x.op].kind = x.call /\ op[x.op].q = x.q
  BY <1>1, <1>3 DEF UserInv, ThreadOf
<1>5. Op' = Op /\ op' = op /\ finished' = finished /\ executed' = executed /\ program' = program
  BY <1>1 DEF nativeVars, callbackVars, Op
<1>6. PICK y : y = thread'[t]
  OBVIOUS
<1>7. place \in {"sync", "return"} /\ (place = "return" => ~Blocking(x.q))
  BY <1>3
<1> HIDE DEF place
<1>8. /\ thread' \in [Thread -> ThreadType] /\ \A u \in Thread \ {t} : thread'[u] = thread[u]
      /\ y.at = place /\ y.call = x.call /\ y.q = x.q /\ y.op = x.op
  BY <1>1, <1>3, <1>6, <1>7, Moved
<1>9. ThreadOf(t)'
  <2>1. y.at = "return" => ~Blocking(y.q)'
    BY <1>5, <1>7, <1>8 DEF Blocking
  <2> QED
    BY <1>4, <1>5, <1>6, <1>7, <1>8, <2>1 DEF ThreadOf
<1>10. UserType' /\ promised' \subseteq executed'
  BY <1>1, <1>5, <1>8 DEF UserInv, UserType
<1> QED
  BY <1>1, <1>2, <1>8, <1>9, <1>10, UserStep

\* conditionalWait: the call's operation is among what it waits for.
LEMMA SyncKeeps ==
    ASSUME CoreInv, UserInv, NEW t \in Thread, Sync(t) PROVE CoreInv' /\ UserInv' /\ Grows
<1>1. PICK x \in ThreadType : x = thread[t]
  BY DEF UserInv, UserType
<1> DEFINE byEvent == IF Cuda THEN x.call = "event" ELSE x.op # 0
           goal == IF byEvent THEN {x.op} ELSE InStream(x.q)
<1>2. PICK r : r = [x EXCEPT !.at = "await", !.goal = goal]
  OBVIOUS
<1>3. /\ x.at = "sync" /\ UNCHANGED <<program, nativeVars, callbackVars, event, returned, need, promised>>
      /\ thread' = [thread EXCEPT ![t] = r]
  BY <1>1, <1>2 DEF Sync
<1>4. /\ x.q \in Queue /\ x.call \notin Waits /\ x.op \in Nat
      /\ x.op # 0 => x.op \in Op /\ op[x.op].kind = x.call /\ op[x.op].q = x.q
  BY <1>1, <1>3 DEF UserInv, ThreadOf, ThreadType
<1>5. CoreInv' /\ Grows
  BY <1>3, CoreSame
<1>6. Op' = Op /\ op' = op /\ finished' = finished /\ executed' = executed /\ program' = program
  BY <1>3 DEF nativeVars, callbackVars, Op
<1>7. x.op \in finished \cup goal \cup {0}
  BY <1>4, InStreamOrDone
<1>8. goal \in SUBSET Nat
  <2>1. stream[x.q] \in Seq(Nat)
    BY <1>4 DEF CoreInv, CoreType
  <2>2. \A k \in DOMAIN stream[x.q] : stream[x.q][k] \in Nat
    BY <2>1
  <2> QED
    BY <1>4, <2>2 DEF InStream
<1>9. PICK g \in SUBSET Nat : g = goal
  BY <1>8
<1>10. /\ r \in ThreadType /\ r.at = "await" /\ r.call = x.call /\ r.q = x.q /\ r.op = x.op /\ r.goal = g
  BY <1>2, <1>9 DEF ThreadType
<1>11. x.op \in finished \cup g \cup {0}
  BY <1>7, <1>9
<1> HIDE DEF goal
<1>12. /\ thread' \in [Thread -> ThreadType] /\ \A u \in Thread \ {t} : thread'[u] = thread[u]
       /\ thread'[t] = r
  BY <1>3, <1>10 DEF UserInv, UserType
<1>13. ThreadOf(t)'
  BY <1>4, <1>6, <1>10, <1>11, <1>12 DEF ThreadOf
<1>14. UserType' /\ promised' \subseteq executed'
  BY <1>3, <1>6, <1>12 DEF UserInv, UserType
<1> QED
  BY <1>3, <1>5, <1>12, <1>13, <1>14, UserStep

\* What the call waits for is complete.
LEMMA AwaitKeeps ==
    ASSUME CoreInv, UserInv, NEW t \in Thread, Await(t) PROVE CoreInv' /\ UserInv' /\ Grows
<1>1. /\ thread[t].at = "await" /\ thread' = [thread EXCEPT ![t].at = "return"]
      /\ thread[t].goal \subseteq finished
      /\ UNCHANGED <<program, nativeVars, callbackVars, event, returned, need, promised>>
  BY DEF Await
<1>2. CoreInv' /\ Grows
  BY <1>1, CoreSame
<1>3. PICK x : x = thread[t]
  OBVIOUS
<1>4. /\ x.q \in Queue /\ x.op \in finished \cup {0}
      /\ x.op # 0 => x.op \in Op /\ op[x.op].kind = x.call /\ op[x.op].q = x.q
      /\ x.call \in Waits => x.op = 0 /\ Covered(finished \cup x.goal, x.cover)
      /\ x.goal \subseteq finished
  BY <1>1, <1>3 DEF UserInv, ThreadOf
<1>5. x.call \in Waits => Covered(finished, x.cover)
  BY <1>4 DEF Covered
<1>6. Op' = Op /\ op' = op /\ finished' = finished /\ executed' = executed /\ program' = program
  BY <1>1 DEF nativeVars, callbackVars, Op
<1>7. PICK y : y = thread'[t]
  OBVIOUS
<1>8. /\ thread' \in [Thread -> ThreadType] /\ \A u \in Thread \ {t} : thread'[u] = thread[u]
      /\ y.at = "return" /\ y.call = x.call /\ y.q = x.q /\ y.op = x.op /\ y.cover = x.cover
  BY <1>1, <1>3, <1>7, Moved
<1>9. y.call \in Waits => Covered(finished, y.cover)'
  BY <1>5, <1>6, <1>8 DEF Covered
<1>10. y.call \in Waits => Covered(finished \cup {}, y.cover)'
  BY <1>9 DEF Covered
<1>11. ThreadOf(t)'
  BY <1>4, <1>6, <1>7, <1>8, <1>10 DEF ThreadOf
<1>12. UserType' /\ promised' \subseteq executed'
  BY <1>1, <1>6, <1>8 DEF UserInv, UserType
<1> QED
  BY <1>1, <1>2, <1>8, <1>11, <1>12, UserStep

\* What a call reports as finished when it returns is done.
LEMMA ReturnKeeps ==
    ASSUME CoreInv, UserInv, NEW t \in Thread, Return(t) PROVE CoreInv' /\ UserInv' /\ Grows
<1>1. PICK x \in ThreadType : x = thread[t]
  BY DEF UserInv, UserType
<1> DEFINE mine == {x.op} \ {0}
           report == IF x.call \in Waits THEN x.cover
                     ELSE IF Blocking(x.q) /\ x.call \notin DeferredKind THEN mine ELSE {}
<1>2. /\ x.at = "return" /\ thread' = [thread EXCEPT ![t] = Free]
      /\ returned' = returned \cup mine /\ promised' = promised \cup report
      /\ UNCHANGED <<program, nativeVars, callbackVars, event, need>>
  BY <1>1 DEF Return, Waits
<1>3. CoreInv' /\ Grows
  BY <1>2, CoreSame
<1>4. /\ x.op # 0 => x.op \in Op /\ op[x.op].kind = x.call
      /\ Blocking(x.q) => x.op \in finished \cup {0}
      /\ x.call \in Waits => Covered(finished \cup {}, x.cover)
  BY <1>1, <1>2 DEF UserInv, ThreadOf
<1>5. report \subseteq executed
  <2>1. CASE x.call \in Waits
    <3>1. Covered(finished, x.cover)
      BY <1>4, <2>1 DEF Covered
    <3> QED
      BY <2>1, <3>1, CoveredDone
  <2>2. CASE x.call \notin Waits /\ Blocking(x.q) /\ x.call \notin DeferredKind /\ x.op # 0
    <3>1. x.op \in finished /\ op[x.op].kind \notin DeferredKind
      BY <1>4, <2>2
    <3> QED
      BY <2>2, <3>1 DEF CoreInv, ExecInv
  <2> QED
    BY <2>1, <2>2
<1>6. mine \subseteq Op
  BY <1>4
<1> HIDE DEF mine, report
<1>7. Op' = Op /\ op' = op /\ finished' = finished /\ executed' = executed /\ program' = program
  BY <1>2 DEF nativeVars, callbackVars, Op
<1>8. Free \in ThreadType
  BY DEF Free, ThreadType
<1>9. /\ thread' \in [Thread -> ThreadType] /\ \A u \in Thread \ {t} : thread'[u] = thread[u]
      /\ thread'[t] = Free
  BY <1>2, <1>8 DEF UserInv, UserType
<1>10. ThreadOf(t)'
  BY <1>9 DEF ThreadOf, Free, Waits
<1>11. UserType' /\ promised' \subseteq executed'
  BY <1>2, <1>5, <1>6, <1>7, <1>9 DEF UserInv, UserType
<1> QED
  BY <1>2, <1>3, <1>9, <1>10, <1>11, UserStep

\* The user's calls.
LEMMA CallKeeps ==
    ASSUME CoreInv, UserInv, NEW t \in Thread, NEW c,
           \/ Submit(t, c) \/ Alloc(t, c) \/ EnqueueEvent(t, c) \/ WaitFor(t, c) \/ Wait(t, c)
           \/ DestructorWaitFor(t, c) \/ DropBuffer(t, c) \/ DropQueue(t, c)
    PROVE  CoreInv' /\ UserInv' /\ Grows
<1>1. ASSUME DestructorWaitFor(t, c) \/ DropBuffer(t, c) \/ DropQueue(t, c)
      PROVE  CoreInv' /\ UserInv' /\ Grows
  <2>1. /\ Begin(t, c) /\ Place(t, c, "return", 0, {}) /\ c.call \notin Waits
        /\ UNCHANGED <<program, nativeVars, callbackVars, event, returned, need, promised>>
    BY <1>1 DEF DestructorWaitFor, DropBuffer, DropQueue, Waits
  <2>2. "return" \in {"sync", "return"}
    OBVIOUS
  <2> QED
    BY <2>1, <2>2, QuietCall
<1> QED
  BY <1>1, SubmitKeeps, AllocKeeps, EnqueueEventKeeps, WaitForKeeps, WaitKeeps

-----------------------------------------------------------------------------
(* The native queues, the callback threads and the destructors.            *)

\* An operation more is a step that adds operations.
LEMMA AddedGrows ==
    ASSUME NEW kind, NEW q, NEW target, NEW after, Added(kind, q, target, after)
    PROVE  Extends
  BY DEF Added, Extends

\* Steps of the native queues and of the callback threads.
LEMMA RuntimeKeeps ==
    ASSUME CoreInv, UserInv, NEW q \in Queue,
           \/ NativeStep(q) \/ HostBegin(q) \/ HostReturn(q) \/ HostClosed(q)
           \/ WorkerRun(q) \/ WorkerPop(q) \/ WorkerSet(q)
    PROVE  CoreInv' /\ UserInv' /\ Grows
<1>1. CoreInv'
  BY NativeStepCore, HostBeginCore, HostReturnCore, HostClosedCore,
     WorkerRunCore, WorkerPopCore, WorkerSetCore
<1>2. UNCHANGED <<program, event, need, thread, returned, promised>>
  BY DEF NativeStep, HostBegin, HostReturn, HostClosed, WorkerRun, WorkerPop, WorkerSet, userVars
<1>3. finished \subseteq finished'
  BY DEF NativeStep, HostBegin, HostReturn, HostClosed, WorkerRun, WorkerPop, WorkerSet,
         Completed, nativeVars
<1>4. executed \subseteq executed'
  BY DEF NativeStep, HostBegin, HostReturn, HostClosed, WorkerRun, WorkerPop, WorkerSet, callbackVars
<1>5. Extends
  <2>1. CASE op' = op
    BY <2>1 DEF Extends, Op
  <2>2. CASE Enqueue("free", q, 0, {})
    <3>1. CoreType /\ "free" \in OpKind /\ 0 \in Nat /\ {} \in SUBSET Nat
      BY DEF CoreInv, OpKind
    <3> QED
      BY <2>2, <3>1, EnqueueEffect, AddedGrows
  <2> QED
    BY <2>1, <2>2 DEF NativeStep, HostBegin, HostReturn, HostClosed, WorkerRun, WorkerPop, WorkerSet,
                      nativeVars
<1>6. Grows
  BY <1>2, <1>3, <1>4, <1>5 DEF Grows
<1> QED
  BY <1>1, <1>2, <1>6, UserSame

\* What an actor destroys next, and what is left then.
LEMMA DueFacts ==
    ASSUME TodoInv, NEW a \in Actor, Due(a) # "none"
    PROVE  /\ todo[a] # <<>> /\ Head(todo[a]) \in Refs /\ Tail(todo[a]) \in Seq(Refs)
           /\ Due(a) = Head(todo[a]).what
           /\ Head(todo[a]).q \in Queue
<1>1. todo[a] \in Seq(Refs) /\ todo[a] # <<>>
  BY DEF TodoInv, Due
<1>2. Head(todo[a]) \in Refs /\ Tail(todo[a]) \in Seq(Refs)
  BY <1>1
<1> QED
  BY <1>1, <1>2 DEF Due, Refs, RefType

\* A step of the destructors.
LEMMA DropCore ==
    ASSUME CoreInv, UserInv, TodoInv, NEW a \in Actor, Drop(a) PROVE CoreInv' /\ UserInv' /\ Grows
<1>1. CASE Delete(a)
  <2>1. PICK q \in Queue : q = Head(todo[a]).q
    BY <1>1, DueFacts DEF Delete
  <2>2. RunDeleter(q) /\ program' = program /\ UNCHANGED <<event, need, thread, returned, promised>>
    BY <1>1, <2>1 DEF Delete, userVars
  <2>3. CoreInv'
    BY <2>2, DeleterCore
  <2>4. finished' = finished /\ executed' = executed
    BY <2>2 DEF RunDeleter, callbackVars, nativeVars
  <2>5. Extends
    <3>1. CASE Cuda
      <4>1. CoreType /\ "free" \in OpKind /\ 0 \in Nat /\ {} \in SUBSET Nat
        BY DEF CoreInv, OpKind
      <4>2. Enqueue("free", q, 0, {})
        BY <2>2, <3>1 DEF RunDeleter
      <4> QED
        BY <4>1, <4>2, EnqueueEffect, AddedGrows
    <3>2. CASE ~Cuda
      BY <2>2, <3>2 DEF RunDeleter, nativeVars, Extends, Op
    <3> QED
      BY <3>1, <3>2
  <2>6. Grows
    BY <2>2, <2>4, <2>5 DEF Grows
  <2> QED
    BY <2>2, <2>3, <2>6, UserSame
<1>2. CASE ~Delete(a)
  <2>1. UNCHANGED <<program, nativeVars, callbackVars, event, need, thread, returned, promised>>
    BY <1>2 DEF Drop, DropBufferRef, BeginWait, EndWait, DropHandle, DropThreadRef, DropStreamRef, userVars
  <2> QED
    BY <2>1, CoreSame, UserSame
<1> QED
  BY <1>1, <1>2

-----------------------------------------------------------------------------
(* The references.                                                         *)

\* A step that keeps the type of the buffer and of what is to be destroyed.
LEMMA TodoStep ==
    ASSUME TodoInv, Extends, buffer' \in BufferType, buffer.q # None => buffer'.q # None,
           todo' \in [Actor -> Seq(Refs')],
           buffer'.q = None => ~buffer'.user /\ \A i \in Op' \ Op : op'[i].kind # "keepAlive"
    PROVE  TodoInv'
  BY DEF TodoInv, Extends

\* References of a buffer stay allowed once it is allocated.
LEMMA TodoTyped ==
    ASSUME TodoInv, buffer.q # None => buffer'.q # None
    PROVE  /\ Refs \subseteq Refs' /\ Seq(Refs) \subseteq Seq(Refs')
           /\ todo \in [Actor -> Seq(Refs')]
<1>1. Refs \subseteq Refs'
  BY DEF Refs, RefType
<1>2. PICK R, S : R = Refs /\ S = Refs'
  OBVIOUS
<1>3. Seq(R) \subseteq Seq(S)
  <2>1. ASSUME NEW s \in Seq(R) PROVE s \in Seq(S)
    <3>1. /\ Len(s) \in Nat /\ DOMAIN s = 1..Len(s) /\ \A i \in 1..Len(s) : s[i] \in S
          /\ s = [i \in 1..Len(s) |-> s[i]]
      BY <1>1, <1>2
    <3> QED
      BY <3>1, SeqDef
  <2> QED
    BY <2>1
<1>4. todo \in [Actor -> Seq(R)]
  BY <1>2 DEF TodoInv
<1> QED
  BY <1>1, <1>2, <1>3, <1>4

\* A step after which actor a still has to destroy s.
LEMMA TodoOf ==
    ASSUME TodoInv, buffer'.q = buffer.q, NEW a \in Actor, NEW s \in Seq(Refs),
           todo' = [todo EXCEPT ![a] = s]
    PROVE  todo' \in [Actor -> Seq(Refs')]
<1>1. PICK S : S = Seq(Refs')
  OBVIOUS
<1>2. todo \in [Actor -> S] /\ s \in S
  BY <1>1, TodoTyped
<1>3. todo' \in [Actor -> S]
  BY <1>2
<1> QED
  BY <1>1, <1>3

\* The references that a step hands over.
LEMMA RefsOf ==
    ASSUME NEW q \in Queue, NEW what \in {"wait", "deleter", "handle", "thread", "stream"}
    PROVE  Ref(what, q) \in Refs
  BY DEF Ref, Refs, RefType

\* What ~ManagedDealloc destroys.
LEMMA DestructionTyped ==
    ASSUME TodoInv, buffer.q # None PROVE Destruction \in Seq(Refs)
<1>1. buffer.q \in Queue /\ buffer.waits \in Queue \cup {None}
  BY DEF TodoInv, BufferType
<1>2. PICK b \in Queue, w \in Queue \cup {None} : b = buffer.q /\ w = buffer.waits
  BY <1>1
<1>3. /\ Ref("deleter", b) \in Refs /\ Ref("stream", b) \in Refs /\ Ref("thread", b) \in Refs
      /\ w # None => Ref("wait", w) \in Refs /\ Ref("handle", w) \in Refs
  BY RefsOf
<1>4. DeleterRefs(b) \in Seq(Refs)
  BY <1>3 DEF DeleterRefs
<1>5. <<Ref("deleter", b)>> \o DeleterRefs(b) \in Seq(Refs)
  BY <1>3, <1>4
<1>6. w # None => <<Ref("wait", w), Ref("deleter", b), Ref("handle", w)>> \o DeleterRefs(b) \in Seq(Refs)
  BY <1>3, <1>4
<1> QED
  BY <1>2, <1>5, <1>6 DEF Destruction

\* The operation that a step enqueues, if it enqueues one.
LEMMA NewKind ==
    ASSUME CoreType, NEW kind \in OpKind, NEW q \in Queue, NEW target \in Nat, NEW after \in SUBSET Nat,
           Enqueue(kind, q, target, after)
    PROVE  Extends /\ \A i \in Op' \ Op : op'[i].kind = kind
<1>1. Added(kind, q, target, after)
  BY EnqueueEffect
<1>2. PICK n : n = NewOp
  OBVIOUS
<1>3. op'[n].kind = kind /\ Op' = Op \cup {n}
  BY <1>1, <1>2 DEF Added
<1> QED
  BY <1>1, <1>3, AddedGrows

\* The operation that frees the memory keeps no buffer alive.
LEMMA FreeKind ==
    ASSUME CoreType, NEW q \in Queue, op' = op \/ Enqueue("free", q, 0, {})
    PROVE  Extends /\ \A i \in Op' \ Op : op'[i].kind # "keepAlive"
<1>1. "free" \in OpKind /\ 0 \in Nat /\ {} \in SUBSET Nat
  BY DEF OpKind
<1>2. CASE op' = op
  BY <1>2 DEF Extends, Op
<1>3. CASE Enqueue("free", q, 0, {})
  BY <1>1, <1>3, NewKind
<1> QED
  BY <1>2, <1>3

\* A step that hands actor a the references s and leaves the buffer its queue and
\* its user.
LEMMA RefsStep ==
    ASSUME CoreInv, TodoInv, NEW q \in Queue, op' = op \/ Enqueue("free", q, 0, {}),
           buffer' \in BufferType, buffer'.q = buffer.q, buffer'.user = buffer.user,
           \/ todo' = todo
           \/ \E a \in Actor : \E s \in Seq(Refs) : todo' = [todo EXCEPT ![a] = s]
    PROVE  TodoInv'
<1>1. todo' \in [Actor -> Seq(Refs')]
  BY TodoTyped, TodoOf
<1>2. Extends /\ \A i \in Op' \ Op : op'[i].kind # "keepAlive"
  BY FreeKind DEF CoreInv
<1> QED
  BY <1>1, <1>2, TodoStep DEF TodoInv

\* The destructors only name what there is.
LEMMA DropTodo ==
    ASSUME CoreInv, UserInv, TodoInv, NEW a \in Actor, Drop(a) PROVE TodoInv'
<1>1. buffer \in BufferType
  BY DEF TodoInv
<1>2. Due(a) # "none"
  BY DEF Drop, DropBufferRef, BeginWait, EndWait, Delete, DropHandle, DropThreadRef, DropStreamRef
<1>3. /\ Head(todo[a]) \in Refs /\ Tail(todo[a]) \in Seq(Refs) /\ Due(a) = Head(todo[a]).what
  BY <1>2, DueFacts
<1>4. PICK q \in Queue : q = Head(todo[a]).q
  BY <1>2, DueFacts
<1>5. PICK rest \in Seq(Refs) : rest = Tail(todo[a])
  BY <1>3
<1>6. CASE DropBufferRef(a)
  <2>1. buffer.q # None
    BY <1>3, <1>6 DEF DropBufferRef, Refs
  <2>2. PICK s : s = IF buffer.refs = 1 THEN Destruction ELSE <<>>
    OBVIOUS
  <2>3. s \in Seq(Refs)
    BY <2>1, <2>2, DestructionTyped
  <2>4. s \o rest \in Seq(Refs) /\ todo' = [todo EXCEPT ![a] = s \o rest]
    BY <1>5, <1>6, <2>2, <2>3 DEF DropBufferRef
  <2>5. buffer' \in BufferType /\ buffer'.q = buffer.q /\ buffer'.user = buffer.user
    <3>1. PICK cover : /\ buffer' = [buffer EXCEPT !.refs = @ - 1, !.cover = cover]
                       /\ cover = buffer.cover \/ \E w \in Queue : cover = Before(w, "wait")
      BY <1>1, <1>6 DEF DropBufferRef, BufferType
    <3>2. cover \in SUBSET Nat
      <4>1. returned \subseteq Nat /\ \A w \in Queue : need[w] \subseteq Nat
        BY DEF UserInv, UserType, Op
      <4>2. \A w \in Queue : Before(w, "wait") \subseteq Nat
        BY <4>1 DEF Before
      <4> QED
        BY <1>1, <3>1, <4>2 DEF BufferType
    <3>3. PICK b \in BufferType : b = buffer
      BY <1>1
    <3>4. b.refs - 1 \in Int
      BY DEF BufferType
    <3>5. /\ [b EXCEPT !.refs = @ - 1, !.cover = cover] \in BufferType
          /\ [b EXCEPT !.refs = @ - 1, !.cover = cover].q = b.q
          /\ [b EXCEPT !.refs = @ - 1, !.cover = cover].user = b.user
      BY <3>2, <3>4 DEF BufferType
    <3> QED
      BY <3>1, <3>3, <3>5
  <2>6. op' = op
    BY <1>6 DEF DropBufferRef, nativeVars
  <2> QED
    BY <1>4, <2>4, <2>5, <2>6, RefsStep
<1>7. CASE ~DropBufferRef(a)
  <2>1. buffer' = buffer
    BY <1>7 DEF Drop, BeginWait, EndWait, Delete, DropHandle, DropThreadRef, DropStreamRef
  <2>2. op' = op \/ Enqueue("free", q, 0, {})
    BY <1>4, <1>7 DEF Drop, BeginWait, EndWait, Delete, DropHandle, DropThreadRef, DropStreamRef,
                      RunDeleter, nativeVars
  <2>3. CASE BeginWait(a)
    <3>1. PICK x : x = [what |-> "await", q |-> q, goal |-> InStream(q)]
      OBVIOUS
    <3>2. x \in Refs
      <4>1. stream[q] \in Seq(Nat)
        BY DEF CoreInv, CoreType
      <4>2. \A k \in DOMAIN stream[q] : stream[q][k] \in Nat
        BY <4>1
      <4>3. InStream(q) \in SUBSET Nat
        BY <4>2 DEF InStream
      <4> QED
        BY <3>1, <4>3 DEF Refs, RefType
    <3>3. <<x>> \o rest \in Seq(Refs) /\ todo' = [todo EXCEPT ![a] = <<x>> \o rest]
      BY <1>4, <1>5, <2>3, <3>1, <3>2 DEF BeginWait
    <3> QED
      BY <1>1, <1>4, <2>1, <2>2, <3>3, RefsStep
  <2>4. CASE DropHandle(a)
    <3>1. PICK s : s = QueueRefs(q, None)
      OBVIOUS
    <3>2. s \in Seq(Refs)
      BY <3>1, RefsOf DEF QueueRefs
    <3>3. s \o rest \in Seq(Refs) /\ todo' = [todo EXCEPT ![a] = s \o rest]
      BY <1>4, <1>5, <2>4, <3>1, <3>2 DEF DropHandle
    <3> QED
      BY <1>1, <1>4, <2>1, <2>2, <3>3, RefsStep
  <2>5. CASE EndWait(a) \/ Delete(a) \/ DropThreadRef(a) \/ DropStreamRef(a)
    <3>1. todo' = [todo EXCEPT ![a] = rest]
      BY <1>5, <2>5 DEF EndWait, Delete, DropThreadRef, DropStreamRef
    <3> QED
      BY <1>1, <1>4, <2>1, <2>2, <3>1, RefsStep
  <2> QED
    BY <1>7, <2>3, <2>4, <2>5 DEF Drop
<1> QED
  BY <1>6, <1>7

\* A host function or a task hands over a reference of the buffer only if it keeps
\* it alive.
LEMMA RuntimeTodo ==
    ASSUME CoreInv, TodoInv, NEW q \in Queue,
           \/ NativeStep(q) \/ HostBegin(q) \/ HostReturn(q) \/ HostClosed(q)
           \/ WorkerRun(q) \/ WorkerPop(q) \/ WorkerSet(q)
    PROVE  TodoInv'
<1>1. buffer \in BufferType
  BY DEF TodoInv
<1>2. op' = op \/ Enqueue("free", q, 0, {})
  BY DEF NativeStep, HostBegin, HostReturn, HostClosed, WorkerRun, WorkerPop, WorkerSet, nativeVars
<1>3. buffer' \in BufferType /\ buffer'.q = buffer.q /\ buffer'.user = buffer.user
  <2>1. buffer' = buffer \/ buffer' = [buffer EXCEPT !.refs = @ + 1]
    BY DEF NativeStep, HostBegin, HostReturn, HostClosed, WorkerRun, WorkerPop, WorkerSet, refVars
  <2> QED
    BY <1>1, <2>1 DEF BufferType
<1>4. ASSUME NEW i \in Op, op[i].kind = "keepAlive" PROVE Ref("buffer", q) \in Refs
  BY <1>4 DEF TodoInv, Ref, Refs, RefType
<1>5. Ref("stream", q) \in Refs /\ Ref("thread", q) \in Refs
  BY RefsOf
<1>6. CASE HostReturn(q)
  <2>1. HeadOf(q) \in Op
    <3>1. StreamInv(q) /\ stream[q] # <<>> /\ CoreType
      BY <1>6 DEF HostReturn, CoreInv, QueueInv, HostInv, InHost
    <3> QED
      BY <3>1, HeadFacts
  <2>2. HostRefs(q) \in Seq(Refs)
    BY <1>4, <1>5, <2>1 DEF HostRefs
  <2>3. Host(q) \in Actor
    BY DEF Host, Actor
  <2>4. todo' = [todo EXCEPT ![Host(q)] = HostRefs(q)]
    BY <1>6 DEF HostReturn
  <2> QED
    BY <1>2, <1>3, <2>2, <2>3, <2>4, RefsStep
<1>7. CASE WorkerPop(q)
  <2>1. current[q] # FreeClosure => current[q] \in Op
    BY <1>7 DEF WorkerPop, CoreInv, QueueInv, WorkerInv, CoreType
  <2>2. ClosureRefs(q) \in Seq(Refs)
    BY <1>4, <1>5, <2>1 DEF ClosureRefs
  <2>3. Worker(q) \in Actor
    BY DEF Worker, Actor
  <2>4. todo' = [todo EXCEPT ![Worker(q)] = ClosureRefs(q)]
    BY <1>7 DEF WorkerPop
  <2> QED
    BY <1>2, <1>3, <2>2, <2>3, <2>4, RefsStep
<1>8. CASE todo' = todo
  BY <1>2, <1>3, <1>8, RefsStep
<1> QED
  BY <1>6, <1>7, <1>8 DEF NativeStep, HostBegin, HostClosed, WorkerRun, WorkerSet, refVars

\* A call that keeps a buffer has one: its user's.
LEMMA CallTodo ==
    ASSUME CoreInv, UserInv, TodoInv, NEW t \in Thread, NEW c,
           \/ Submit(t, c) \/ Alloc(t, c) \/ EnqueueEvent(t, c) \/ WaitFor(t, c) \/ Wait(t, c)
           \/ DestructorWaitFor(t, c) \/ DropBuffer(t, c) \/ DropQueue(t, c)
    PROVE  TodoInv'
<1>1. buffer \in BufferType /\ todo \in [Actor -> Seq(Refs)]
  BY DEF TodoInv
<1>2. Begin(t, c)
  BY DEF Submit, Alloc, EnqueueEvent, WaitFor, Wait, DestructorWaitFor, DropBuffer, DropQueue
<1>3. c.q \in Queue /\ (c.call = "waitFor" => c.e \in Event) /\ None \notin Queue
  BY <1>2, BeginFacts, NativeQueueAssumption
<1>4. /\ Before(c.q, c.call) \in SUBSET Nat
      /\ c.call = "waitFor" => event[c.e].op \in Nat /\ event[c.e].cover \in SUBSET Nat
  <2>1. returned \subseteq Nat /\ need[c.q] \subseteq Nat
    BY <1>3 DEF UserInv, UserType, Op
  <2> QED
    BY <1>3, <2>1 DEF Before, UserInv, UserType
<1>5. /\ Extends
      /\ \A i \in Op' \ Op : op'[i].kind = "keepAlive" => c.call = "keepAlive" /\ Submit(t, c)
  <2>1. CASE op' = op
    BY <2>1 DEF Extends, Op
  <2>2. CASE op' # op
    <3>1. PICK target \in Nat, after \in SUBSET Nat :
             Enqueue(c.call, c.q, target, after) /\ c.call \in OpKind /\ (c.call = "keepAlive" => Submit(t, c))
      <4>1. CASE Submit(t, c) \/ Alloc(t, c) \/ EnqueueEvent(t, c)
        <5>1. Enqueue(c.call, c.q, 0, Before(c.q, c.call)) /\ c.call \in OpKind
          BY <2>2, <4>1 DEF Submit, Alloc, EnqueueEvent, OpKind
        <5>2. c.call = "keepAlive" => Submit(t, c)
          BY <4>1 DEF Alloc, EnqueueEvent
        <5> QED
          BY <1>4, <5>1, <5>2, 0 \in Nat
      <4>2. CASE WaitFor(t, c)
        <5>1. /\ Enqueue(c.call, c.q, event[c.e].op, Before(c.q, c.call) \cup event[c.e].cover)
              /\ c.call = "waitFor" /\ c.call \in OpKind
          BY <4>2 DEF WaitFor, OpKind
        <5> QED
          BY <1>4, <5>1
      <4> QED
        BY <2>2, <4>1, <4>2 DEF Wait, DestructorWaitFor, DropBuffer, DropQueue, nativeVars
    <3> QED
      BY <1>3, <3>1, NewKind DEF CoreInv
  <2> QED
    BY <2>1, <2>2
<1>6. ASSUME Submit(t, c) PROVE TodoInv'
  <2>1. buffer' \in BufferType /\ buffer'.q = buffer.q /\ buffer'.user = buffer.user /\ todo' = todo
    <3>1. buffer' = buffer \/ buffer' = [buffer EXCEPT !.refs = @ + 1]
      BY <1>6 DEF Submit
    <3>2. todo' = todo
      BY <1>6 DEF Submit
    <3> QED
      BY <1>1, <3>1, <3>2 DEF BufferType
  <2>2. c.call = "keepAlive" => buffer.q # None
    BY <1>6 DEF Submit, TodoInv
  <2>3. todo' \in [Actor -> Seq(Refs')]
    BY <2>1, TodoTyped
  <2>4. buffer'.q = None => ~buffer'.user /\ \A i \in Op' \ Op : op'[i].kind # "keepAlive"
    BY <1>5, <2>1, <2>2 DEF TodoInv
  <2> QED
    BY <1>5, <2>1, <2>3, <2>4, TodoStep
<1>7. ASSUME ~Submit(t, c) PROVE \A i \in Op' \ Op : op'[i].kind # "keepAlive"
  BY <1>5, <1>7
<1>8. ASSUME Alloc(t, c) PROVE TodoInv'
  <2>1. buffer' \in BufferType /\ buffer'.q # None /\ todo' = todo
    BY <1>3, <1>8 DEF Alloc, BufferType
  <2>2. todo' \in [Actor -> Seq(Refs')]
    BY <2>1, TodoTyped
  <2> QED
    BY <1>5, <2>1, <2>2, TodoStep
<1>9. ASSUME ~Submit(t, c), ~Alloc(t, c) PROVE TodoInv'
  <2>1. buffer' \in BufferType /\ buffer'.q = buffer.q /\ (buffer'.user => buffer.user)
    <3>1. \/ buffer' = buffer \/ buffer' = [buffer EXCEPT !.waits = c.q]
          \/ buffer' = [buffer EXCEPT !.user = FALSE]
      BY <1>9 DEF EnqueueEvent, WaitFor, Wait, DestructorWaitFor, DropBuffer, DropQueue, refVars
    <3> QED
      BY <1>1, <1>3, <3>1 DEF BufferType
  <2>2. todo' \in [Actor -> Seq(Refs')]
    <3>1. User(t) \in Actor
      BY DEF User, Actor
    <3>2. CASE DropBuffer(t, c)
      <4>1. buffer.q \in Queue /\ buffer.q # None
        BY <1>1, <3>2 DEF DropBuffer, TodoInv, BufferType
      <4>2. PICK s : s = <<Ref("buffer", buffer.q)>>
        OBVIOUS
      <4>3. s \in Seq(Refs)
        BY <4>1, <4>2 DEF Ref, Refs, RefType
      <4>4. todo' = [todo EXCEPT ![User(t)] = s]
        BY <3>2, <4>2 DEF DropBuffer
      <4> QED
        BY <2>1, <3>1, <4>3, <4>4, TodoOf
    <3>3. CASE DropQueue(t, c)
      <4>1. PICK s : s = QueueRefs(c.q, t)
        OBVIOUS
      <4>2. s \in Seq(Refs)
        BY <1>3, <4>1, RefsOf DEF QueueRefs
      <4>3. todo' = [todo EXCEPT ![User(t)] = s]
        BY <3>3, <4>1 DEF DropQueue
      <4> QED
        BY <2>1, <3>1, <4>2, <4>3, TodoOf
    <3>4. CASE todo' = todo
      BY <2>1, <3>4, TodoTyped
    <3> QED
      BY <1>9, <3>2, <3>3, <3>4 DEF EnqueueEvent, WaitFor, Wait, DestructorWaitFor, refVars
  <2>3. buffer'.q = None => ~buffer'.user
    BY <2>1 DEF TodoInv
  <2> QED
    BY <1>5, <1>7, <1>9, <2>1, <2>2, <2>3, TodoStep
<1> QED
  BY <1>6, <1>8, <1>9

-----------------------------------------------------------------------------
(* The theorems.                                                           *)

\* Nothing is submitted at first.
LEMMA InitHolds == ASSUME Init PROVE IndInv
<1>1. op = <<>> /\ Op = {} /\ Len(op) = 0
  BY DEF Init, Op
<1>2. CoreInv
  <2>1. CoreType
    BY <1>1 DEF Init, CoreType
  <2>2. AfterInv /\ ExecInv
    BY <1>1 DEF Init, AfterInv, ExecInv, OperationsInOrder
  <2>3. ASSUME NEW q \in Queue PROVE QueueInv(q)
    BY <1>1 DEF Init, QueueInv, StreamInv, HostInv, TaskInv, WorkerInv, InHost
  <2> QED
    BY <2>1, <2>2, <2>3 DEF CoreInv
<1>3. UserInv
  <2>1. UserType
    <3>1. Free \in ThreadType
      BY DEF Free, ThreadType
    <3> QED
      BY <3>1 DEF Init, UserType
  <2>2. promised \subseteq executed
    BY DEF Init
  <2>3. (\A q \in Queue : NeedOf(q)) /\ (\A e \in Event : EventOf(e))
    BY DEF Init, NeedOf, EventOf
  <2>4. ASSUME NEW t \in Thread PROVE ThreadOf(t)
    BY DEF Init, ThreadOf, Free, Waits
  <2> QED
    BY <2>1, <2>2, <2>3, <2>4 DEF UserInv
<1>4. TodoInv
  <2>1. buffer \in BufferType
    BY DEF Init, BufferType
  <2> QED
    BY <1>1, <2>1 DEF Init, TodoInv
<1> QED
  BY <1>2, <1>3, <1>4 DEF IndInv

\* Every step keeps the invariant.
LEMMA NextKeeps == ASSUME IndInv, [Next]_vars PROVE IndInv'
<1> USE DEF IndInv
<1>1. ASSUME NEW t \in Thread, CallBegins(t) PROVE IndInv'
  <2>1. PICK c \in program.calls :
           \/ Submit(t, c) \/ Alloc(t, c) \/ EnqueueEvent(t, c) \/ WaitFor(t, c) \/ Wait(t, c)
           \/ DestructorWaitFor(t, c) \/ DropBuffer(t, c) \/ DropQueue(t, c)
    BY <1>1 DEF CallBegins
  <2> QED
    BY <2>1, CallKeeps, CallTodo
<1>2. ASSUME NEW a \in Actor, Drop(a) PROVE IndInv'
  BY <1>2, DropCore, DropTodo
<1>3. ASSUME NEW t \in Thread, CallGoesOn(t) PROVE IndInv'
  <2>1. CASE Drop(User(t))
    <3>1. User(t) \in Actor
      BY DEF User, Actor
    <3> QED
      BY <1>2, <2>1, <3>1
  <2>2. CASE SetEvent(t) \/ SetLast(t) \/ Sync(t) \/ Await(t) \/ Return(t)
    <3>1. CoreInv' /\ UserInv'
      BY <2>2, SetEventKeeps, SetLastKeeps, SyncKeeps, AwaitKeeps, ReturnKeeps
    <3>2. UNCHANGED <<op, buffer, todo>>
      BY <2>2 DEF SetEvent, SetLast, Sync, Await, Return, nativeVars, refVars
    <3> QED
      BY <3>1, <3>2 DEF TodoInv, Refs, Op
  <2> QED
    BY <1>3, <2>1, <2>2 DEF CallGoesOn
<1>4. ASSUME NEW q \in Queue, NativeRuntime(q) \/ CallbackThread(q) PROVE IndInv'
  <2>1. Host(q) \in Actor /\ Worker(q) \in Actor
    BY DEF Host, Worker, Actor
  <2> QED
    BY <1>2, <1>4, <2>1, RuntimeKeeps, RuntimeTodo DEF NativeRuntime, CallbackThread
<1>5. CASE UNCHANGED vars
  <2>1. UNCHANGED <<program, nativeVars, callbackVars, event, need, thread, returned, promised, op, buffer, todo>>
    BY <1>5 DEF vars, userVars, refVars, nativeVars
  <2>2. CoreInv' /\ UserInv'
    BY <2>1, CoreSame, UserSame
  <2> QED
    BY <2>1, <2>2 DEF TodoInv, Refs, Op
<1> QED
  BY <1>1, <1>3, <1>4, <1>5 DEF Next

\* The invariant of the queues of the GPU backends, for any threads, queues, events
\* and programs.
THEOREM Invariance == Spec => []IndInv
<1>1. Init => IndInv
  BY InitHolds
<1>2. IndInv /\ [Next]_vars => IndInv'
  BY NextKeeps
<1> QED
  BY <1>1, <1>2, PTL DEF Spec

\* An operation, native or on the callback thread, is done only after all that was
\* enqueued to its queue before it, and after what the events cover that its queue
\* waits for.
THEOREM DoneInOrder == Spec => []OperationsInOrder
<1>1. IndInv => OperationsInOrder
  BY DEF IndInv, CoreInv, ExecInv
<1> QED
  BY <1>1, Invariance, PTL

\* What a blocking enqueue, wait(queue) or wait(event) reported as finished is done,
\* on the callback thread as well.
THEOREM WaitsAreTrue == Spec => []WaitsReportFinishedWork
<1>1. IndInv => WaitsReportFinishedWork
  BY DEF IndInv, UserInv, WaitsReportFinishedWork
<1> QED
  BY <1>1, Invariance, PTL

-----------------------------------------------------------------------------
(* isQueueEmpty, of SYCL: the last event is newer than all that returned.  *)

\* calls that store a last event when the backend is SYCL
Enqueues == EnqueueKind \cup {"event", "waitFor"}

\* thread t may enqueue to q
Enqueuer(t, q) == \E c \in program.calls : c.th = t /\ c.q = q /\ c.call \in Enqueues

\* no two threads enqueue to a queue
OneEnqueuer == \A t, u \in Thread : \A q \in Queue : Enqueuer(t, q) /\ Enqueuer(u, q) => t = u

\* The operation of a call is newer than the last event until it is stored.
PendingOf(t) ==
    /\ thread[t].at \in {"setEvent", "setLast"} =>
          /\ thread[t].op # 0 /\ Enqueuer(t, thread[t].q)
          /\ last[thread[t].q] < thread[t].op
    /\ thread[t].at \in {"sync", "await", "return"} => thread[t].op <= last[thread[t].q]

LastOf(q) == last[q] # 0 => last[q] \in Op /\ op[last[q]].q = q

LastInv ==
    /\ last \in [Queue -> Nat]
    /\ \A q \in Queue : LastOf(q)
    /\ \A i \in returned : i <= last[op[i].q]
    /\ \A t \in Thread : PendingOf(t)

EmptyInv == ~Cuda /\ OneEnqueuer => LastInv

\* A step that stores no last event.
LEMMA LastStep ==
    ASSUME IndInv, LastInv, Grows, last' = last, returned' = returned, NEW t \in Thread,
           \A u \in Thread \ {t} : thread'[u] = thread[u], PendingOf(t)' \/ thread'[t] = thread[t]
    PROVE  LastInv'
<1>1. /\ Op \subseteq Op' /\ \A i \in Op : op'[i] = op[i]
      /\ program' = program /\ returned \subseteq Op
  BY DEF Grows, Extends, IndInv, UserInv, UserType
<1>2. ASSUME NEW u \in Thread, thread'[u] = thread[u] PROVE PendingOf(u)'
  BY <1>1, <1>2 DEF LastInv, PendingOf, Enqueuer
<1> QED
  BY <1>1, <1>2 DEF LastInv, LastOf

\* What a call does that begins.
LEMMA BeginsAt ==
    ASSUME IndInv, ~Cuda, NEW t \in Thread, CallBegins(t)
    PROVE  /\ last' = last /\ returned' = returned
           /\ \A u \in Thread \ {t} : thread'[u] = thread[u]
           /\ thread'[t].q \in Queue
           /\ \/ thread'[t].op = 0 /\ thread'[t].at \in {"sync", "await", "return"}
              \/ /\ thread'[t].op = NewOp /\ thread'[t].at \in {"setEvent", "setLast"}
                 /\ Enqueuer(t, thread'[t].q)
<1>1. thread \in [Thread -> ThreadType]
  BY DEF IndInv, UserInv, UserType
<1>2. PICK c \in program.calls :
         \/ Submit(t, c) \/ Alloc(t, c) \/ EnqueueEvent(t, c) \/ WaitFor(t, c) \/ Wait(t, c)
         \/ DestructorWaitFor(t, c) \/ DropBuffer(t, c) \/ DropQueue(t, c)
  BY DEF CallBegins
<1>3. Begin(t, c)
  BY <1>2 DEF Submit, Alloc, EnqueueEvent, WaitFor, Wait, DestructorWaitFor, DropBuffer, DropQueue
<1>4. c.q \in Queue /\ c.th = t
  BY <1>3, BeginFacts DEF IndInv, Begin
<1>5. last' = last /\ returned' = returned
  BY <1>2 DEF Submit, Alloc, EnqueueEvent, WaitFor, Wait, DestructorWaitFor, DropBuffer, DropQueue
<1>6. CASE Submit(t, c) \/ EnqueueEvent(t, c) \/ WaitFor(t, c)
  <2>1. PICK place, cover : place \in {"setEvent", "setLast"} /\ Place(t, c, place, NewOp, cover)
    BY <1>6 DEF Submit, EnqueueEvent, WaitFor, Submitted, NewOp
  <2>2. c.call \in Enqueues
    BY <1>6 DEF Submit, EnqueueEvent, WaitFor, Enqueues
  <2> QED
    BY <1>1, <1>4, <1>5, <2>1, <2>2 DEF Place, Enqueuer
<1>7. CASE Alloc(t, c) \/ DestructorWaitFor(t, c) \/ DropBuffer(t, c) \/ DropQueue(t, c)
  <2>1. PICK place \in {"sync", "return"} : Place(t, c, place, 0, {})
    BY <1>7 DEF Alloc, DestructorWaitFor, DropBuffer, DropQueue
  <2> QED
    BY <1>1, <1>4, <1>5, <2>1 DEF Place
<1>8. CASE Wait(t, c)
  BY <1>1, <1>4, <1>5, <1>8 DEF Wait
<1> QED
  BY <1>2, <1>6, <1>7, <1>8

\* A step of a call under way moves its record on.
LEMMA GoesOnAt ==
    ASSUME IndInv, NEW t \in Thread, SetEvent(t) \/ SetLast(t) \/ Sync(t) \/ Await(t)
    PROVE  /\ \A u \in Thread \ {t} : thread'[u] = thread[u]
           /\ thread'[t].op = thread[t].op /\ thread'[t].q = thread[t].q
           /\ SetEvent(t) => thread'[t].at = "setLast"
           /\ ~SetEvent(t) => thread'[t].at \in {"sync", "await", "return"}
<1>1. thread \in [Thread -> ThreadType] /\ UserInv
  BY DEF IndInv, UserInv, UserType
<1>2. ASSUME NEW place \in {"setLast", "sync", "return"}, thread' = [thread EXCEPT ![t].at = place]
      PROVE  /\ \A u \in Thread \ {t} : thread'[u] = thread[u]
             /\ thread'[t].op = thread[t].op /\ thread'[t].q = thread[t].q /\ thread'[t].at = place
  <2>1. place \in {"free", "setEvent", "setLast", "sync", "await", "return"}
    OBVIOUS
  <2> QED
    BY <1>1, <1>2, <2>1, Moved
<1>3. CASE SetEvent(t)
  <2>1. thread' = [thread EXCEPT ![t].at = "setLast"]
    BY <1>3 DEF SetEvent
  <2> QED
    BY <1>2, <1>3, <2>1
<1>4. CASE SetLast(t)
  <2>1. PICK place \in {"sync", "return"} : thread' = [thread EXCEPT ![t].at = place]
    BY <1>4 DEF SetLast
  <2>2. ~SetEvent(t)
    BY <1>4 DEF SetEvent, SetLast
  <2> QED
    BY <1>2, <2>1, <2>2
<1>5. CASE Sync(t)
  <2>1. PICK x \in ThreadType : x = thread[t]
    BY <1>1
  <2>2. PICK goal : thread' = [thread EXCEPT ![t] = [x EXCEPT !.at = "await", !.goal = goal]]
    BY <1>5, <2>1 DEF Sync
  <2>3. PICK r : r = [x EXCEPT !.at = "await", !.goal = goal]
    OBVIOUS
  <2>4. r.at = "await" /\ r.op = x.op /\ r.q = x.q
    BY <2>3 DEF ThreadType
  <2>5. ~SetEvent(t)
    BY <1>5 DEF SetEvent, Sync
  <2> QED
    BY <1>1, <2>1, <2>2, <2>3, <2>4, <2>5
<1>6. CASE Await(t)
  <2>1. thread' = [thread EXCEPT ![t].at = "return"]
    BY <1>6 DEF Await
  <2>2. ~SetEvent(t)
    BY <1>6 DEF SetEvent, Await
  <2> QED
    BY <1>2, <2>1, <2>2
<1> QED
  BY <1>3, <1>4, <1>5, <1>6

\* No enqueue of a queue's only enqueuer is overtaken.
LEMMA LastKept ==
    ASSUME IndInv, EmptyInv, [Next]_vars PROVE EmptyInv'
<1> USE DEF IndInv
<1>0. ASSUME NEW a \in Actor, Drop(a) PROVE Grows /\ UNCHANGED <<last, thread, returned>>
  <2>1. Grows
    BY <1>0, DropCore
  <2> QED
    BY <1>0, <2>1 DEF Drop, DropBufferRef, BeginWait, EndWait, Delete, DropHandle, DropThreadRef,
                      DropStreamRef, userVars
<1>1. CASE UNCHANGED <<program, last, thread, returned>> /\ Grows
  <2>1. OneEnqueuer' <=> OneEnqueuer
    BY <1>1 DEF OneEnqueuer, Enqueuer
  <2>2. Cuda' <=> Cuda
    BY <1>1 DEF Cuda
  <2>3. ASSUME LastInv PROVE LastInv'
    <3>1. /\ Op \subseteq Op' /\ \A i \in Op : op'[i] = op[i]
          /\ returned \subseteq Op
      BY <1>1 DEF Grows, Extends, UserInv, UserType
    <3> QED
      BY <1>1, <2>3, <3>1 DEF LastInv, LastOf, PendingOf, Enqueuer
  <2> QED
    BY <2>1, <2>2, <2>3 DEF EmptyInv
<1>2. ASSUME NEW q \in Queue, NativeRuntime(q) \/ CallbackThread(q)
      PROVE  UNCHANGED <<program, last, thread, returned>> /\ Grows
  <2>1. Host(q) \in Actor /\ Worker(q) \in Actor
    BY DEF Host, Worker, Actor
  <2>2. CASE Drop(Host(q)) \/ Drop(Worker(q))
    BY <1>0, <2>1, <2>2 DEF Grows
  <2>3. CASE \/ NativeStep(q) \/ HostBegin(q) \/ HostReturn(q) \/ HostClosed(q)
             \/ WorkerRun(q) \/ WorkerPop(q) \/ WorkerSet(q)
    <3>1. Grows
      BY <2>3, RuntimeKeeps
    <3> QED
      BY <2>3, <3>1 DEF NativeStep, HostBegin, HostReturn, HostClosed, WorkerRun, WorkerPop, WorkerSet,
                        userVars
  <2> QED
    BY <1>2, <2>2, <2>3 DEF NativeRuntime, CallbackThread
<1>3. CASE UNCHANGED vars
  <2>1. UNCHANGED <<program, nativeVars, callbackVars, last, thread, returned>>
    BY <1>3 DEF vars, userVars
  <2> QED
    BY <1>1, <2>1, CoreSame
<1>4. ASSUME NEW t \in Thread, CallBegins(t) \/ CallGoesOn(t) PROVE EmptyInv'
  <2>1. CASE Drop(User(t))
    <3>1. User(t) \in Actor
      BY DEF User, Actor
    <3> QED
      BY <1>0, <1>1, <2>1, <3>1 DEF Grows
  <2>2. ASSUME CallBegins(t) \/ SetEvent(t) \/ SetLast(t) \/ Sync(t) \/ Await(t) \/ Return(t)
        PROVE  Grows
    <3>1. CASE CallBegins(t)
      BY <3>1, CallKeeps DEF CallBegins
    <3> QED
      BY <2>2, <3>1, SetEventKeeps, SetLastKeeps, SyncKeeps, AwaitKeeps, ReturnKeeps
  <2>3. ASSUME CallBegins(t) \/ SetEvent(t) \/ SetLast(t) \/ Sync(t) \/ Await(t) \/ Return(t),
               ~Cuda, OneEnqueuer
        PROVE  LastInv'
    <3>1. Grows /\ program' = program
      BY <2>2, <2>3 DEF Grows
    <3>2. /\ Op \subseteq Op' /\ \A i \in Op : op'[i] = op[i] /\ i \in Nat \ {0}
          /\ returned \subseteq Op /\ Len(op) \in Nat /\ \A i \in Op : i < NewOp
      BY <3>1 DEF Grows, Extends, UserInv, UserType, CoreInv, CoreType, Op, NewOp
    <3>3. LastInv
      BY <2>3 DEF EmptyInv
    <3>4. PICK x \in ThreadType : x = thread[t]
      BY DEF UserInv, UserType
    <3>5. PICK y : y = thread'[t]
      OBVIOUS
    <3>6. /\ x.at # "free" => x.q \in Queue
          /\ x.op # 0 => x.op \in Op /\ op[x.op].q = x.q
      BY <3>4 DEF UserInv, ThreadOf
    <3>7. /\ \A q \in Queue : last[q] \in Nat
          /\ \A q \in Queue : last[q] < NewOp
      BY <3>2, <3>3 DEF LastInv, LastOf, NewOp
    <3>8. CASE CallBegins(t)
      <4>1. /\ last' = last /\ returned' = returned
            /\ \A u \in Thread \ {t} : thread'[u] = thread[u]
            /\ y.q \in Queue
            /\ \/ y.op = 0 /\ y.at \in {"sync", "await", "return"}
               \/ /\ y.op = NewOp /\ y.at \in {"setEvent", "setLast"}
                  /\ Enqueuer(t, y.q)
        BY <2>3, <3>5, <3>8, BeginsAt
      <4>2. PICK n : n = NewOp
        OBVIOUS
      <4>3. n # 0 /\ \A q \in Queue : last[q] < n /\ 0 <= last[q]
        BY <3>2, <3>7, <4>2 DEF NewOp
      <4>4. PendingOf(t)'
        BY <3>1, <3>5, <4>1, <4>2, <4>3 DEF PendingOf, Enqueuer
      <4> QED
        BY <3>1, <3>3, <4>1, <4>4, LastStep
    <3>9. CASE SetEvent(t) \/ Sync(t) \/ Await(t)
      <4>1. /\ last' = last /\ returned' = returned
            /\ x.at \in {"setEvent", "sync", "await"} /\ (SetEvent(t) <=> x.at = "setEvent")
        BY <3>4, <3>9 DEF SetEvent, Sync, Await
      <4>2. /\ \A u \in Thread \ {t} : thread'[u] = thread[u]
            /\ y.op = x.op /\ y.q = x.q
            /\ x.at = "setEvent" => y.at = "setLast"
            /\ x.at # "setEvent" => y.at \in {"sync", "await", "return"}
        BY <3>4, <3>5, <3>9, <4>1, GoesOnAt
      <4>3. /\ x.at = "setEvent" => x.op # 0 /\ Enqueuer(t, x.q) /\ last[x.q] < x.op
            /\ x.at \in {"sync", "await"} => x.op <= last[x.q]
        BY <3>3, <3>4 DEF LastInv, PendingOf
      <4>4. PendingOf(t)'
        BY <3>1, <3>5, <4>1, <4>2, <4>3 DEF PendingOf, Enqueuer
      <4> QED
        BY <3>1, <3>3, <4>1, <4>2, <4>4, LastStep
    <3>10. CASE Return(t)
      <4>1. /\ last' = last /\ x.at = "return" /\ returned' = returned \cup ({x.op} \ {0})
            /\ thread' = [thread EXCEPT ![t] = Free]
        BY <3>4, <3>10 DEF Return
      <4>2. x.op <= last[x.q]
        BY <3>3, <3>4, <4>1 DEF LastInv, PendingOf
      <4>3. \A u \in Thread \ {t} : thread'[u] = thread[u] /\ PendingOf(u)'
        BY <3>1, <3>3, <4>1 DEF LastInv, PendingOf, Enqueuer
      <4>4. thread'[t].at = "free"
        BY <4>1 DEF UserInv, UserType, Free
      <4>5. PendingOf(t)'
        BY <4>4 DEF PendingOf
      <4>6. \A i \in returned' : i <= last[op'[i].q]
        BY <3>2, <3>3, <3>6, <4>1, <4>2 DEF LastInv
      <4> QED
        BY <3>2, <3>3, <4>1, <4>3, <4>5, <4>6 DEF LastInv, LastOf
    <3>11. CASE SetLast(t)
      <4>1. /\ last' = [last EXCEPT ![x.q] = x.op] /\ x.at = "setLast" /\ returned' = returned
        BY <3>4, <3>11 DEF SetLast
      <4>2. x.op # 0 /\ Enqueuer(t, x.q) /\ last[x.q] < x.op /\ x.q \in Queue /\ x.op \in Op /\ op[x.op].q = x.q
        BY <3>3, <3>4, <3>6, <4>1 DEF LastInv, PendingOf
      <4>3. /\ \A u \in Thread \ {t} : thread'[u] = thread[u]
            /\ y.op = x.op /\ y.q = x.q /\ y.at \in {"sync", "await", "return"}
        BY <3>4, <3>5, <3>11, GoesOnAt DEF SetLast, SetEvent
      <4>4. /\ last' \in [Queue -> Nat] /\ last'[x.q] = x.op /\ x.op \in Nat
            /\ \A q \in Queue : q # x.q => last'[q] = last[q]
        BY <3>2, <3>3, <4>1, <4>2 DEF LastInv
      <4>5. \A q \in Queue : LastOf(q)'
        BY <3>2, <3>3, <4>2, <4>4 DEF LastInv, LastOf
      <4>6. ASSUME NEW i \in returned' PROVE i <= last'[op'[i].q]
        <5>1. i \in Op /\ i <= last[op[i].q] /\ op'[i] = op[i]
          BY <3>2, <3>3, <4>1 DEF LastInv
        <5>2. op[i].q \in Queue
          <6>1. op[i] \in OpType
            BY <5>1 DEF CoreInv, CoreType, Op
          <6> QED
            BY <6>1 DEF OpType
        <5> QED
          BY <3>2, <3>7, <4>2, <4>4, <5>1, <5>2
      <4>7. PendingOf(t)'
        BY <3>5, <4>2, <4>3, <4>4 DEF PendingOf
      <4>8. ASSUME NEW u \in Thread \ {t} PROVE PendingOf(u)'
        <5>1. PICK z : z = thread[u]
          OBVIOUS
        <5>2. /\ z.at # "free" => z.q \in Queue /\ z.op \in Nat
              /\ z.at \in {"setEvent", "setLast"} => z.op # 0 /\ Enqueuer(u, z.q) /\ last[z.q] < z.op
              /\ z.at \in {"sync", "await", "return"} => z.op <= last[z.q]
          BY <3>3, <5>1 DEF LastInv, PendingOf, UserInv, ThreadOf, UserType, ThreadType
        <5>3. z.at \in {"setEvent", "setLast"} => z.q # x.q
          BY <2>3, <4>2, <5>2 DEF OneEnqueuer
        <5>4. z.at \in {"sync", "await", "return"} => z.op <= last'[z.q]
          <6>1. CASE z.at \in {"sync", "await", "return"} /\ z.q = x.q
            <7>1. last[x.q] \in Nat
              BY <3>7, <4>2
            <7> QED
              BY <4>2, <4>4, <5>2, <6>1, <7>1
          <6> QED
            BY <4>4, <5>2, <6>1
        <5>5. z.at \in {"setEvent", "setLast"} => last'[z.q] < z.op
          BY <4>4, <5>2, <5>3
        <5> QED
          BY <3>1, <4>3, <5>1, <5>2, <5>4, <5>5 DEF PendingOf, Enqueuer
      <4> QED
        BY <4>4, <4>5, <4>6, <4>7, <4>8 DEF LastInv
    <3> QED
      BY <2>3, <3>8, <3>9, <3>10, <3>11
  <2>4. CASE CallBegins(t) \/ SetEvent(t) \/ SetLast(t) \/ Sync(t) \/ Await(t) \/ Return(t)
    <3>1. program' = program
      BY <2>2, <2>4 DEF Grows
    <3> QED
      BY <2>3, <2>4, <3>1 DEF EmptyInv, Cuda, OneEnqueuer, Enqueuer
  <2> QED
    BY <1>4, <2>1, <2>4 DEF CallGoesOn
<1> QED
  BY <1>1, <1>2, <1>3, <1>4 DEF Next

\* isQueueEmpty says so only when every operation is complete whose enqueue has
\* returned: with CUDA always, with SYCL if no two threads enqueue to one queue (the
\* run native_empty_overtaken shows that they must not).
THEOREM EmptyIsTrue == Spec => [](Cuda \/ OneEnqueuer => EmptyMeansFinished)
<1>1. Init => EmptyInv
  <2>1. ASSUME Init PROVE LastInv
    BY <2>1 DEF Init, LastInv, LastOf, PendingOf, Free
  <2> QED
    BY <2>1 DEF EmptyInv
<1>2. Init => IndInv
  BY InitHolds
<1>3. (IndInv /\ EmptyInv) /\ [Next]_vars => (IndInv /\ EmptyInv)'
  BY NextKeeps, LastKept
<1>4. IndInv /\ EmptyInv => (Cuda \/ OneEnqueuer => EmptyMeansFinished)
  <2> SUFFICES ASSUME IndInv, EmptyInv, Cuda \/ OneEnqueuer, NEW q \in Queue, IsQueueEmpty(q),
                      NEW i \in returned, op[i].q = q
               PROVE  i \in finished
    BY DEF EmptyMeansFinished
  <2>1. i \in Op /\ i \in Nat /\ i # 0 /\ StreamInv(q) /\ finished \subseteq Op
    BY DEF IndInv, UserInv, UserType, Op, CoreInv, CoreType, QueueInv
  <2>2. CASE Cuda
    <3>1. Len(stream[q]) = 0
      BY <2>2 DEF IsQueueEmpty
    <3> QED
      BY <2>1, <3>1 DEF StreamInv
  <2>3. CASE ~Cuda
    <3>1. i <= last[q] /\ last[q] \in finished \cup {0} /\ LastOf(q) /\ last[q] \in Nat
      BY <2>3 DEF EmptyInv, LastInv, IsQueueEmpty
    <3>2. last[q] \in Op /\ op[last[q]].q = q /\ last[q] \in finished
      BY <2>1, <3>1 DEF LastOf
    <3>3. \A k \in 1..Len(stream[q]) : last[q] < stream[q][k] /\ stream[q][k] \in Nat
      <4>1. \A k \in 1..Len(stream[q]) : stream[q][k] \in Op \ finished
        BY <2>1 DEF StreamInv
      <4>2. \A j \in Op : j \in Nat
        BY DEF Op
      <4> QED
        BY <2>1, <3>2, <4>1, <4>2 DEF StreamInv
    <3> QED
      BY <2>1, <3>1, <3>2, <3>3 DEF StreamInv
  <2> QED
    BY <2>2, <2>3
<1> QED
  BY <1>1, <1>2, <1>3, <1>4, PTL DEF Spec

-----------------------------------------------------------------------------
(* Who holds references.                                                   *)

\* A reference of a kind to the resources of a queue in Q.
IsRef(x, what, Q) == x.what = what /\ x.q \in Q

\* What one reference adds to the number of those.
Weight(x, what, Q) == IF IsRef(x, what, Q) THEN 1 ELSE 0

\* The references of a kind, to a queue of Q, in a sequence to be destroyed; they
\* are counted from its end, where a step neither adds nor takes any.
DueOf(s, what, Q) == {n \in 1..Len(s) : IsRef(s[Len(s) + 1 - n], what, Q)}

\* Those of all actors.
Tokens(pending, what, Q) == UNION {{a} \X DueOf(pending[a], what, Q) : a \in Actor}

\* Their number in this state.
Count(what, Q) == Cardinality(Tokens(todo, what, Q))

\* Host functions of q that have not dropped their reference of the callback thread.
ThreadOps(q) ==
    {i \in Op \ finished : op[i].q = q /\ op[i].kind \in HostKind
                           /\ ~(Cuda /\ host[q] = "closing" /\ i = HeadOf(q))}

\* Operations that keep the buffer; with CUDA until their task is submitted.
BufferOps ==
    {i \in Op \ finished : op[i].kind = "keepAlive" /\ ~(Cuda /\ Handed(i))}

\* The task of operation i is in the callback thread of q.
Queued(q, i) == \E k \in 1..Len(tasks[q]) : tasks[q][k] = i

\* Tasks that keep the buffer.
BufferTasks == {i \in Op : op[i].kind = "keepAlive" /\ Queued(op[i].q, i)}

\* The memory is about to be freed on the callback thread.
Closure(q) == Queued(q, FreeClosure)

\* The buffer exists and is that of queue q.
BufferOf(q) == buffer.q = q /\ buffer.refs # 0

\* The references of a queue's handles, of its buffer, of the closure that frees it
\* and, of the buffer, of the user.
HandleRef(q) == IF held[q] # {} THEN 1 ELSE 0
OwnerRef(q) == IF BufferOf(q) THEN 1 ELSE 0
ClosureRef(q) == IF Closure(q) THEN 1 ELSE 0
UserRef == IF buffer.user THEN 1 ELSE 0

\* Those who hold a queue's callback thread, its native queue, and the buffer: with CUDA the
\* deleter of the buffer captures the native queue only.
ThreadHolders(q) ==
    HandleRef(q) + (IF Cuda THEN 0 ELSE OwnerRef(q)) + Cardinality(ThreadOps(q)) + Count("thread", {q})

StreamHolders(q) == HandleRef(q) + OwnerRef(q) + ClosureRef(q) + Count("stream", {q})

BufferHolders == UserRef + Cardinality(BufferOps) + Cardinality(BufferTasks) + Count("buffer", Queue)

\* Only finitely many references are to be dropped.
FiniteTokens(pending) ==
    /\ \A q \in Queue : IsFiniteSet(Tokens(pending, "thread", {q})) /\ IsFiniteSet(Tokens(pending, "stream", {q}))
    /\ IsFiniteSet(Tokens(pending, "buffer", Queue))

\* Each use count is the number of holders.
CountsInv ==
    /\ \A q \in Queue : threadRefs[q] = ThreadHolders(q) /\ streamRefs[q] = StreamHolders(q)
    /\ buffer.refs = BufferHolders

\* An actor has something to destroy only where its work says so.
IdleInv ==
    /\ \A q \in Queue : host[q] # "closing" => todo[Host(q)] = <<>>
    /\ \A q \in Queue : worker[q] # "destroying" => todo[Worker(q)] = <<>>
    /\ \A t \in Thread : thread[t].at # "return" => todo[User(t)] = <<>>

\* The types of the counts, of the handles and of what is to be destroyed.
RefsType ==
    /\ threadRefs \in [Queue -> Int] /\ streamRefs \in [Queue -> Int]
    /\ held \in [Queue -> SUBSET (Thread \cup {None})]
    /\ FiniteTokens(todo)

\* Actor a will free the buffer.
Deleting(a, k) == k \in 1..Len(todo[a]) /\ todo[a][k].what = "deleter"

\* The memory is freed, or the callback thread has the task to do so.
Freed == (\E q \in Queue : Closure(q)) \/ (\E i \in Op : op[i].kind = "free")

\* What precedes the free was submitted to q.
SubmittedTo(q, cover) ==
    \A j \in cover : \E g \in Op : op[g].q = q /\ op[g].kind \notin DeferredKind /\ (j = g \/ j \in op[g].after)

\* A deleter waits for what precedes the free, and the stream outlives it.
DeleterOf(a, k) ==
    /\ k \in {1, 2}
    /\ k = 1 => buffer.cover \subseteq executed
    /\ k = 2 => \/ todo[a][1].what = "wait" /\ SubmittedTo(todo[a][1].q, buffer.cover)
                \/ todo[a][1].what = "await" /\ Covered(finished \cup todo[a][1].goal, buffer.cover)
    /\ \E l \in k + 1..Len(todo[a]) : todo[a][l].what = "stream" /\ todo[a][l].q = todo[a][k].q

\* The callback thread of q has one task that frees the memory at most.
OneClosure(q) ==
    \A k, l \in 1..Len(tasks[q]) : tasks[q][k] = FreeClosure /\ tasks[q][l] = FreeClosure => k = l

\* The buffer is freed once, after its last reference and what it waits for.
EndInv ==
    /\ \A a \in Actor : \A k : Deleting(a, k) =>
          DeleterOf(a, k) /\ buffer.refs = 0 /\ buffer.q # None /\ ~Freed
    /\ \A a, b \in Actor : \A k, l : Deleting(a, k) /\ Deleting(b, l) => a = b /\ k = l
    /\ Freed => buffer.refs = 0 /\ buffer.q # None /\ buffer.cover \subseteq executed
    /\ \A q \in Queue : OneClosure(q)
    /\ buffer.cover # {} => buffer.refs = 0 /\ buffer.q # None

\* A native queue is empty when it is destroyed.
StreamEnd == \A q \in Queue : streamRefs[q] = 0 => stream[q] = <<>>

\* The invariant of the reference counts, inductive together with IndInv.
RefsInv == RefsType /\ IdleInv /\ CountsInv /\ EndInv /\ StreamEnd

-----------------------------------------------------------------------------
(* Counting references.                                                    *)

\* Actor a has the references s to destroy first.
Pushed(pending, a, s) == [pending EXCEPT ![a] = s \o pending[a]]

\* Actor a has the references s to destroy.
With(pending, a, s) == [pending EXCEPT ![a] = s]

\* One more reference in a sequence to be destroyed.
LEMMA DuePushed ==
    ASSUME NEW s \in Seq(RefType), NEW x \in RefType, NEW what, NEW Q
    PROVE  /\ DueOf(<<x>> \o s, what, Q)
                = DueOf(s, what, Q) \cup (IF IsRef(x, what, Q) THEN {Len(s) + 1} ELSE {})
           /\ Len(s) + 1 \notin DueOf(s, what, Q)
<1>1. PICK t, n : t = <<x>> \o s /\ n = Len(s)
  OBVIOUS
<1>2. n \in Nat /\ Len(t) = n + 1 /\ t[1] = x /\ \A k \in 1..n : t[k + 1] = s[k]
  BY <1>1
<1>3. \A m \in 1..n : t[Len(t) + 1 - m] = s[n + 1 - m]
  <2>1. SUFFICES ASSUME NEW m \in 1..n PROVE t[Len(t) + 1 - m] = s[n + 1 - m]
    OBVIOUS
  <2>2. n + 1 - m \in 1..n /\ Len(t) + 1 - m = (n + 1 - m) + 1
    BY <1>2
  <2> QED
    BY <1>2, <2>2
<1>4. t[Len(t) + 1 - (n + 1)] = x
  BY <1>2
<1>5. 1..Len(t) = 1..n \cup {n + 1} /\ n + 1 \notin 1..n
  BY <1>2
<1>6. DueOf(t, what, Q) = {m \in 1..n \cup {n + 1} : IsRef(t[Len(t) + 1 - m], what, Q)}
  BY <1>5 DEF DueOf
<1>7. DueOf(s, what, Q) = {m \in 1..n : IsRef(s[n + 1 - m], what, Q)}
  BY <1>1 DEF DueOf
<1> HIDE DEF IsRef
<1>8. DueOf(t, what, Q) = DueOf(s, what, Q) \cup (IF IsRef(x, what, Q) THEN {n + 1} ELSE {})
  BY <1>3, <1>4, <1>6, <1>7
<1> QED
  BY <1>1, <1>5, <1>7, <1>8

\* Whose references they are.
LEMMA TokenOf ==
    ASSUME NEW pending, NEW what, NEW Q, NEW p
    PROVE  p \in Tokens(pending, what, Q)
              <=> \E a \in Actor : \E n \in DueOf(pending[a], what, Q) : p = <<a, n>>
  BY DEF Tokens

\* One more reference.
LEMMA TokensPushed ==
    ASSUME NEW pending \in [Actor -> Seq(RefType)], NEW a \in Actor, NEW x \in RefType,
           NEW more, more = Pushed(pending, a, <<x>>),
           NEW what, NEW Q, IsFiniteSet(Tokens(pending, what, Q))
    PROVE  /\ more \in [Actor -> Seq(RefType)]
           /\ IsFiniteSet(Tokens(more, what, Q))
           /\ Cardinality(Tokens(more, what, Q))
                = Cardinality(Tokens(pending, what, Q)) + Weight(x, what, Q)
<1>1. PICK n : n = Len(pending[a]) + 1
  OBVIOUS
<1>2. more \in [Actor -> Seq(RefType)] /\ more[a] = <<x>> \o pending[a]
  <2>1. PICK R : R = RefType
    OBVIOUS
  <2>2. <<x>> \o pending[a] \in Seq(R)
    BY <2>1
  <2> QED
    BY <2>1, <2>2 DEF Pushed
<1>3. \A b \in Actor \ {a} : more[b] = pending[b]
  BY DEF Pushed
<1>4. DueOf(more[a], what, Q) = DueOf(pending[a], what, Q) \cup (IF IsRef(x, what, Q) THEN {n} ELSE {})
  <2>1. PICK t \in Seq(RefType) : t = pending[a]
    OBVIOUS
  <2>2. DueOf(<<x>> \o t, what, Q) = DueOf(t, what, Q) \cup (IF IsRef(x, what, Q) THEN {Len(t) + 1} ELSE {})
    BY DuePushed
  <2> QED
    BY <1>1, <1>2, <2>1, <2>2
<1>5. n \notin DueOf(pending[a], what, Q)
  BY <1>1, DuePushed
<1>6. <<a, n>> \notin Tokens(pending, what, Q)
  BY <1>5, TokenOf
<1>7. PICK T, U, extra : /\ T = Tokens(pending, what, Q) /\ U = Tokens(more, what, Q)
                         /\ extra = IF IsRef(x, what, Q) THEN {n} ELSE {}
  OBVIOUS
<1>8. ASSUME NEW p PROVE p \in U <=> p \in T \/ \E m \in extra : p = <<a, m>>
  <2>1. PICK D, E : /\ D = [b \in Actor |-> DueOf(pending[b], what, Q)]
                    /\ E = [b \in Actor |-> DueOf(more[b], what, Q)]
    OBVIOUS
  <2>2. /\ p \in T <=> \E b \in Actor : \E m \in D[b] : p = <<b, m>>
        /\ p \in U <=> \E b \in Actor : \E m \in E[b] : p = <<b, m>>
    <3>1. p \in T <=> \E b \in Actor : \E m \in DueOf(pending[b], what, Q) : p = <<b, m>>
      BY <1>7, TokenOf
    <3>2. p \in U <=> \E b \in Actor : \E m \in DueOf(more[b], what, Q) : p = <<b, m>>
      <4>1. PICK z : z = more
        OBVIOUS
      <4>2. p \in Tokens(z, what, Q) <=> \E b \in Actor : \E m \in DueOf(z[b], what, Q) : p = <<b, m>>
        BY TokenOf
      <4> QED
        BY <1>7, <4>1, <4>2
    <3>3. \A b \in Actor : D[b] = DueOf(pending[b], what, Q) /\ E[b] = DueOf(more[b], what, Q)
      BY <2>1
    <3> QED
      BY <3>1, <3>2, <3>3
  <2>3. E[a] = D[a] \cup extra /\ \A b \in Actor : b = a \/ E[b] = D[b]
    BY <1>3, <1>4, <1>7, <2>1
  <2> QED
    BY <2>2, <2>3
<1>9. <<a, n>> \notin T /\ IsFiniteSet(T)
  BY <1>6, <1>7
<1>10. CASE IsRef(x, what, Q)
  <2>1. U = T \cup {<<a, n>>}
    BY <1>7, <1>8, <1>10
  <2>2. IsFiniteSet(U) /\ Cardinality(U) = Cardinality(T) + 1
    BY <1>9, <2>1, FS_AddElement
  <2> QED
    BY <1>2, <1>7, <1>10, <2>2 DEF Weight
<1>11. CASE ~IsRef(x, what, Q)
  <2>1. U = T
    BY <1>7, <1>8, <1>11
  <2>2. IsFiniteSet(U) /\ Cardinality(U) = Cardinality(T) + 0
    BY <1>9, <2>1, FS_CardinalityType
  <2> QED
    BY <1>2, <1>7, <1>11, <2>2 DEF Weight
<1> QED
  BY <1>10, <1>11

\* How many references of a kind a sequence holds, for whoever gets it.
Adds(s, what, Q, n) ==
    \A pending \in [Actor -> Seq(RefType)], a \in Actor : IsFiniteSet(Tokens(pending, what, Q)) =>
        /\ IsFiniteSet(Tokens(Pushed(pending, a, s), what, Q))
        /\ Cardinality(Tokens(Pushed(pending, a, s), what, Q)) = Cardinality(Tokens(pending, what, Q)) + n

\* A sequence of one.
LEMMA AddsOne ==
    ASSUME NEW x \in RefType, NEW what, NEW Q PROVE Adds(<<x>>, what, Q, Weight(x, what, Q))
<1>1. SUFFICES ASSUME NEW pending \in [Actor -> Seq(RefType)], NEW a \in Actor,
                      IsFiniteSet(Tokens(pending, what, Q)),
                      NEW more, more = Pushed(pending, a, <<x>>)
               PROVE  /\ IsFiniteSet(Tokens(more, what, Q))
                      /\ Cardinality(Tokens(more, what, Q))
                           = Cardinality(Tokens(pending, what, Q)) + Weight(x, what, Q)
  BY DEF Adds
<1> QED
  BY <1>1, TokensPushed

\* None.
LEMMA AddsNone ==
    ASSUME NEW what, NEW Q PROVE Adds(<<>>, what, Q, 0)
<1>1. SUFFICES ASSUME NEW pending \in [Actor -> Seq(RefType)], NEW a \in Actor,
                      IsFiniteSet(Tokens(pending, what, Q)),
                      NEW more, more = Pushed(pending, a, <<>>)
               PROVE  /\ IsFiniteSet(Tokens(more, what, Q))
                      /\ Cardinality(Tokens(more, what, Q)) = Cardinality(Tokens(pending, what, Q)) + 0
  BY DEF Adds
<1>2. PICK R : R = RefType
  OBVIOUS
<1>3. pending[a] \in Seq(R)
  BY <1>2
<1>4. <<>> \o pending[a] = pending[a]
  BY <1>3
<1>5. more = pending
  BY <1>1, <1>4 DEF Pushed
<1>6. Cardinality(Tokens(pending, what, Q)) \in Nat
  BY <1>1, FS_CardinalityType
<1> QED
  BY <1>1, <1>5, <1>6

\* A sequence before another.
LEMMA AddsBoth ==
    ASSUME NEW s \in Seq(RefType), NEW t \in Seq(RefType), NEW what, NEW Q, NEW m \in Nat, NEW n \in Nat,
           Adds(s, what, Q, m), Adds(t, what, Q, n)
    PROVE  Adds(s \o t, what, Q, m + n)
<1>1. SUFFICES ASSUME NEW pending \in [Actor -> Seq(RefType)], NEW a \in Actor,
                      IsFiniteSet(Tokens(pending, what, Q)),
                      NEW more, more = Pushed(pending, a, s \o t)
               PROVE  /\ IsFiniteSet(Tokens(more, what, Q))
                      /\ Cardinality(Tokens(more, what, Q)) = Cardinality(Tokens(pending, what, Q)) + (m + n)
  BY DEF Adds
<1>2. PICK R : R = RefType
  OBVIOUS
<1>3. pending[a] \in Seq(R) /\ t \in Seq(R) /\ s \in Seq(R)
  BY <1>2
<1>4. (s \o t) \o pending[a] = s \o (t \o pending[a]) /\ t \o pending[a] \in Seq(R)
  BY <1>3, ConcatAssociative
<1>5. PICK half : half = Pushed(pending, a, t)
  OBVIOUS
<1>6. half \in [Actor -> Seq(R)] /\ half[a] = t \o pending[a]
  BY <1>2, <1>4, <1>5 DEF Pushed
<1>7. more = Pushed(half, a, s)
  BY <1>1, <1>4, <1>5, <1>6 DEF Pushed
<1>8. /\ IsFiniteSet(Tokens(half, what, Q))
      /\ Cardinality(Tokens(half, what, Q)) = Cardinality(Tokens(pending, what, Q)) + n
  BY <1>1, <1>5 DEF Adds
<1>9. /\ IsFiniteSet(Tokens(more, what, Q))
      /\ Cardinality(Tokens(more, what, Q)) = Cardinality(Tokens(half, what, Q)) + m
  BY <1>2, <1>6, <1>7, <1>8 DEF Adds
<1>10. Cardinality(Tokens(pending, what, Q)) \in Nat
  BY <1>1, FS_CardinalityType
<1> QED
  BY <1>8, <1>9, <1>10

\* A step in which actor a drops its next reference, or has done what was next, and
\* gets s in its place.
LEMMA StepCount ==
    ASSUME todo \in [Actor -> Seq(RefType)], NEW a \in Actor, todo[a] # <<>>, NEW s \in Seq(RefType),
           todo' = With(todo, a, s \o Tail(todo[a])), NEW what, NEW Q, NEW n \in Nat, Adds(s, what, Q, n),
           IsFiniteSet(Tokens(todo, what, Q))
    PROVE  /\ IsFiniteSet(Tokens(todo', what, Q))
           /\ Count(what, Q)' = Count(what, Q) + n - Weight(Head(todo[a]), what, Q)
           /\ Count(what, Q) \in Nat /\ Count(what, Q)' \in Nat
<1>1. PICK R : R = RefType
  OBVIOUS
<1>2. todo[a] \in Seq(R)
  BY <1>1
<1>3. PICK x, rest : x = Head(todo[a]) /\ rest = Tail(todo[a])
  OBVIOUS
<1>4. x \in R /\ rest \in Seq(R) /\ <<x>> \o rest = todo[a]
  BY <1>2, <1>3
<1>5. PICK less : less = [todo EXCEPT ![a] = rest]
  OBVIOUS
<1>6. less \in [Actor -> Seq(R)] /\ less[a] = rest
  BY <1>1, <1>4, <1>5
<1>7. todo = Pushed(less, a, <<x>>)
  BY <1>4, <1>5, <1>6 DEF Pushed
<1>8. IsFiniteSet(Tokens(less, what, Q))
  <2>1. DueOf(rest, what, Q) \subseteq DueOf(todo[a], what, Q)
    <3>1. DueOf(rest, what, Q) \subseteq DueOf(<<x>> \o rest, what, Q)
      BY <1>1, <1>4, DuePushed
    <3> QED
      BY <1>4, <3>1
  <2>2. \A b \in Actor : DueOf(less[b], what, Q) \subseteq DueOf(todo[b], what, Q)
    BY <1>5, <1>6, <2>1
  <2>3. Tokens(less, what, Q) \in SUBSET Tokens(todo, what, Q)
    BY <2>2 DEF Tokens
  <2> QED
    BY <2>3, FS_Subset
<1>9. Count(what, Q) = Cardinality(Tokens(less, what, Q)) + Weight(x, what, Q)
  <2>1. PICK more : more = Pushed(less, a, <<x>>)
    OBVIOUS
  <2>2. Cardinality(Tokens(more, what, Q)) = Cardinality(Tokens(less, what, Q)) + Weight(x, what, Q)
    <3>1. x \in RefType /\ less \in [Actor -> Seq(RefType)]
      BY <1>1, <1>4, <1>6
    <3>2. Adds(<<x>>, what, Q, Weight(x, what, Q))
      BY <3>1, AddsOne
    <3> QED
      BY <1>8, <2>1, <3>1, <3>2 DEF Adds
  <2>3. more = todo
    BY <1>7, <2>1
  <2> QED
    BY <2>2, <2>3 DEF Count
<1>10. todo' = Pushed(less, a, s)
  BY <1>3, <1>5, <1>6 DEF Pushed, With
<1>11. /\ IsFiniteSet(Tokens(todo', what, Q))
       /\ Cardinality(Tokens(todo', what, Q)) = Cardinality(Tokens(less, what, Q)) + n
  BY <1>1, <1>6, <1>8, <1>10 DEF Adds
<1>12. Count(what, Q)' = Cardinality(Tokens(todo', what, Q))
  BY DEF Count
<1>13. Cardinality(Tokens(less, what, Q)) \in Nat /\ Weight(x, what, Q) \in Nat
  BY <1>8, FS_CardinalityType DEF Weight
<1> QED
  BY <1>3, <1>9, <1>11, <1>12, <1>13

\* A step in which actor a, with nothing to destroy, gets s.
LEMMA PutCount ==
    ASSUME todo \in [Actor -> Seq(RefType)], NEW a \in Actor, todo[a] = <<>>, NEW s \in Seq(RefType),
           todo' = With(todo, a, s), NEW what, NEW Q, NEW n \in Nat, Adds(s, what, Q, n),
           IsFiniteSet(Tokens(todo, what, Q))
    PROVE  /\ IsFiniteSet(Tokens(todo', what, Q))
           /\ Count(what, Q)' = Count(what, Q) + n
           /\ Count(what, Q) \in Nat /\ Count(what, Q)' \in Nat
<1>1. PICK R : R = RefType
  OBVIOUS
<1>2. s \o todo[a] = s
  <2>1. s \in Seq(R)
    BY <1>1
  <2> QED
    BY <2>1
<1>3. todo' = Pushed(todo, a, s)
  BY <1>2 DEF Pushed, With
<1>4. /\ IsFiniteSet(Tokens(todo', what, Q))
      /\ Cardinality(Tokens(todo', what, Q)) = Cardinality(Tokens(todo, what, Q)) + n
  BY <1>3 DEF Adds
<1>5. Cardinality(Tokens(todo, what, Q)) \in Nat
  BY FS_CardinalityType
<1>6. Count(what, Q)' = Cardinality(Tokens(todo', what, Q))
  BY DEF Count
<1> QED
  BY <1>4, <1>5, <1>6 DEF Count

-----------------------------------------------------------------------------
(* Who holds references by the work that is under way.                     *)

\* Only finitely many operations and tasks hold references.
LEMMA OpsFinite ==
    ASSUME CoreInv
    PROVE  /\ \A q \in Queue : IsFiniteSet(ThreadOps(q)) /\ Cardinality(ThreadOps(q)) \in Nat
           /\ IsFiniteSet(BufferOps) /\ Cardinality(BufferOps) \in Nat
           /\ IsFiniteSet(BufferTasks) /\ Cardinality(BufferTasks) \in Nat
<1>1. op \in Seq(OpType)
  BY DEF CoreInv, CoreType
<1>2. Len(op) \in Nat
  BY <1>1
<1>3. IsFiniteSet(Op)
  BY <1>2, FS_Interval DEF Op
<1>4. /\ \A q \in Queue : ThreadOps(q) \in SUBSET Op
      /\ BufferOps \in SUBSET Op /\ BufferTasks \in SUBSET Op
  BY DEF ThreadOps, BufferOps, BufferTasks
<1>5. \A S \in SUBSET Op : IsFiniteSet(S) /\ Cardinality(S) \in Nat
  BY <1>3, FS_Subset, FS_CardinalityType
<1> QED
  BY <1>4, <1>5

\* The sets of holders after a step that leaves the native queues and the tasks
\* alone.
LEMMA HoldersSame ==
    ASSUME UNCHANGED <<program, op, stream, finished, host, tasks>>
    PROVE  /\ \A q \in Queue : ThreadOps(q)' = ThreadOps(q) /\ (Closure(q)' <=> Closure(q))
           /\ BufferOps' = BufferOps /\ BufferTasks' = BufferTasks
<1>1. Op' = Op
  BY DEF Op
<1>2. \A i : Handed(i)' <=> Handed(i)
  BY DEF Handed, InHost, HeadOf, Cuda
<1>3. \A q, i : Queued(q, i)' <=> Queued(q, i)
  BY DEF Queued
<1>4. BufferTasks' = BufferTasks
  BY <1>1, <1>3 DEF BufferTasks
<1>5. BufferOps' = BufferOps
  BY <1>1, <1>2 DEF BufferOps, Cuda
<1>6. \A q \in Queue : ThreadOps(q)' = ThreadOps(q)
  BY <1>1 DEF ThreadOps, HeadOf, Cuda
<1>7. \A q \in Queue : Closure(q)' <=> Closure(q)
  BY <1>3 DEF Closure, FreeClosure
<1> QED
  BY <1>4, <1>5, <1>6, <1>7

\* The tasks of a queue are operations, 0 apart.
LEMMA QueuedOp ==
    ASSUME CoreInv, NEW q \in Queue, NEW i, Queued(q, i), i # FreeClosure
    PROVE  i \in Op /\ op[i].q = q /\ op[i].kind \in HostKind /\ Handed(i)
  BY DEF CoreInv, QueueInv, TaskInv, Queued

\* Where a host function is under way, the native queue is not empty.
LEMMA ClosingHead ==
    ASSUME CoreInv, NEW q \in Queue, InHost(q)
    PROVE  stream[q] # <<>> /\ HeadOf(q) \in Op \ finished /\ op[HeadOf(q)].q = q /\ op[HeadOf(q)].kind \in HostKind
<1>1. CoreType /\ StreamInv(q) /\ stream[q] # <<>> /\ op[HeadOf(q)].kind \in HostKind
  BY DEF CoreInv, QueueInv, HostInv
<1> QED
  BY <1>1, HeadFacts

\* The sets of holders after an operation is enqueued.
LEMMA HoldersAdded ==
    ASSUME CoreInv, NEW q \in Queue, NEW kind, NEW target, NEW after, Added(kind, q, target, after),
           UNCHANGED <<program, finished, host, tasks>>
    PROVE  /\ \A p \in Queue :
                 /\ ThreadOps(p)' = ThreadOps(p) \cup (IF p = q /\ kind \in HostKind THEN {NewOp} ELSE {})
                 /\ NewOp \notin ThreadOps(p)
                 /\ Closure(p)' <=> Closure(p)
           /\ BufferOps' = BufferOps \cup (IF kind = "keepAlive" THEN {NewOp} ELSE {})
           /\ NewOp \notin BufferOps
           /\ BufferTasks' = BufferTasks
<1>1. PICK n : n = NewOp
  OBVIOUS
<1>2. /\ Op' = Op \cup {n} /\ n \notin Op /\ \A i \in Op : op'[i] = op[i]
      /\ op'[n].kind = kind /\ op'[n].q = q
      /\ finished \subseteq Op /\ finished' = finished /\ (Cuda' <=> Cuda)
  BY <1>1 DEF Added, CoreInv, CoreType, Cuda
<1>3. \A i, p : Queued(p, i)' <=> Queued(p, i)
  BY DEF Queued
<1>4. ASSUME NEW p \in Queue, InHost(p) PROVE HeadOf(p)' = HeadOf(p)
  <2>1. stream[p] # <<>>
    BY <1>4, ClosingHead
  <2> QED
    BY <2>1 DEF Added, HeadOf
<1>5. \A p \in Queue : InHost(p)' <=> InHost(p)
  BY DEF InHost, Cuda
<1>6. \A i \in Op : op[i].q \in Queue
  <2>1. op \in Seq(OpType)
    BY DEF CoreInv, CoreType
  <2>2. \A i \in Op : op[i] \in OpType
    BY <2>1 DEF Op
  <2> QED
    BY <2>2 DEF OpType
<1>7. \A i \in Op : Handed(i)' <=> Handed(i)
  BY <1>2, <1>4, <1>5, <1>6 DEF Handed
<1>8. \A p \in Queue : InHost(p) => HeadOf(p) # n
  BY <1>2, ClosingHead
<1>9. ~Handed(n)'
  BY <1>2, <1>4, <1>5, <1>8 DEF Handed
<1>10. ASSUME NEW p \in Queue
       PROVE  ThreadOps(p)' = ThreadOps(p) \cup (IF p = q /\ kind \in HostKind THEN {n} ELSE {})
  <2>1. (Cuda /\ host[p] = "closing") => HeadOf(p)' = HeadOf(p) /\ HeadOf(p) # n
    BY <1>4, <1>8 DEF InHost
  <2>2. PICK skip, skip2 : /\ skip = IF Cuda /\ host[p] = "closing" THEN {HeadOf(p)} ELSE {}
                           /\ skip2 = IF Cuda' /\ host'[p] = "closing" THEN {HeadOf(p)'} ELSE {}
    OBVIOUS
  <2>3. skip2 = skip /\ n \notin skip
    BY <1>2, <2>1, <2>2
  <2>4. ThreadOps(p) = {i \in Op \ finished : op[i].q = p /\ op[i].kind \in HostKind /\ i \notin skip}
    BY <2>2 DEF ThreadOps
  <2>5. ThreadOps(p)' = {i \in Op' \ finished' : op'[i].q = p /\ op'[i].kind \in HostKind /\ i \notin skip2}
    BY <2>2 DEF ThreadOps
  <2> QED
    BY <1>2, <2>3, <2>4, <2>5
<1>11. BufferOps' = BufferOps \cup (IF kind = "keepAlive" THEN {n} ELSE {})
  <2>1. PICK mine, mine2 : /\ mine = {i \in Op : ~(Cuda /\ Handed(i))}
                           /\ mine2 = {i \in Op' : ~(Cuda /\ Handed(i))'}
    OBVIOUS
  <2>2. mine2 = mine \cup {n}
    BY <1>2, <1>7, <1>9, <2>1
  <2>3. BufferOps = {i \in Op \ finished : op[i].kind = "keepAlive" /\ i \in mine}
    BY <2>1 DEF BufferOps
  <2>4. BufferOps' = {i \in Op' \ finished' : op'[i].kind = "keepAlive" /\ i \in mine2}
    BY <2>1 DEF BufferOps
  <2> QED
    BY <1>2, <2>2, <2>3, <2>4
<1>12. BufferTasks' = BufferTasks
  <2>1. n # FreeClosure
    BY <1>1 DEF NewOp, CoreInv, CoreType, FreeClosure
  <2>2. ~Queued(q, n)
    BY <1>2, <2>1, QueuedOp
  <2>3. PICK mine, mine2 : /\ mine = {i \in Op : Queued(op[i].q, i)}
                           /\ mine2 = {i \in Op' : Queued(op'[i].q, i)}
    OBVIOUS
  <2>4. mine2 = mine
    BY <1>2, <2>2, <2>3
  <2>5. BufferTasks = {i \in mine : op[i].kind = "keepAlive"}
    BY <2>3 DEF BufferTasks
  <2>6. BufferTasks' = {i \in mine2 : op'[i].kind = "keepAlive"}
    BY <1>3, <2>3 DEF BufferTasks
  <2>7. mine \subseteq Op
    BY <2>3
  <2> QED
    BY <1>2, <2>4, <2>5, <2>6, <2>7
<1>13. \A p \in Queue : Closure(p)' <=> Closure(p)
  BY <1>3 DEF Closure, FreeClosure
<1>14. /\ \A p \in Queue : n \notin ThreadOps(p)
       /\ n \notin BufferOps
  BY <1>2 DEF ThreadOps, BufferOps
<1> QED
  BY <1>1, <1>10, <1>11, <1>12, <1>13, <1>14
-----------------------------------------------------------------------------
(* The references that a step gives to an actor.                           *)

\* What s holds of queue q's callback thread and native queue, and of the buffer.
Gives(s, q, inThread, inStream, inBuffer) ==
    /\ s \in Seq(RefType) /\ inThread \in Nat /\ inStream \in Nat /\ inBuffer \in Nat
    /\ \A p \in Queue : /\ Adds(s, "thread", {p}, IF p = q THEN inThread ELSE 0)
                        /\ Adds(s, "stream", {p}, IF p = q THEN inStream ELSE 0)
    /\ Adds(s, "buffer", Queue, inBuffer)

\* Nothing to be destroyed adds nothing.
LEMMA GivesNone == ASSUME NEW q PROVE Gives(<<>>, q, 0, 0, 0)
<1>1. <<>> \in Seq(RefType)
  OBVIOUS
<1>2. \A p \in Queue : Adds(<<>>, "thread", {p}, 0) /\ Adds(<<>>, "stream", {p}, 0)
  BY AddsNone
<1>3. Adds(<<>>, "buffer", Queue, 0)
  BY AddsNone
<1> QED
  BY <1>1, <1>2, <1>3 DEF Gives

\* One reference adds one to what is to be destroyed of its kind.
LEMMA GivesOne ==
    ASSUME NEW q \in Queue, NEW x \in RefType, NEW inThread, NEW inStream, NEW inBuffer,
           x.what \in {"thread", "stream"} => x.q = q,
           inThread = IF x.what = "thread" THEN 1 ELSE 0,
           inStream = IF x.what = "stream" THEN 1 ELSE 0,
           inBuffer = IF x.what = "buffer" THEN 1 ELSE 0
    PROVE  Gives(<<x>>, q, inThread, inStream, inBuffer)
<1>1. <<x>> \in Seq(RefType) /\ x.q \in Queue
  BY DEF RefType
<1>2. ASSUME NEW p \in Queue
      PROVE  /\ Adds(<<x>>, "thread", {p}, IF p = q THEN inThread ELSE 0)
             /\ Adds(<<x>>, "stream", {p}, IF p = q THEN inStream ELSE 0)
  <2>1. Weight(x, "thread", {p}) = IF p = q THEN inThread ELSE 0
    BY DEF Weight, IsRef
  <2>2. Weight(x, "stream", {p}) = IF p = q THEN inStream ELSE 0
    BY DEF Weight, IsRef
  <2>3. Adds(<<x>>, "thread", {p}, Weight(x, "thread", {p})) /\ Adds(<<x>>, "stream", {p}, Weight(x, "stream", {p}))
    BY AddsOne
  <2> QED
    BY <2>1, <2>2, <2>3
<1>3. Adds(<<x>>, "buffer", Queue, inBuffer)
  <2>1. Weight(x, "buffer", Queue) = inBuffer
    BY <1>1 DEF Weight, IsRef
  <2>2. Adds(<<x>>, "buffer", Queue, Weight(x, "buffer", Queue))
    BY AddsOne
  <2> QED
    BY <2>1, <2>2
<1> QED
  BY <1>1, <1>2, <1>3 DEF Gives

\* What two sequences add is added by the one after the other.
LEMMA GivesBoth ==
    ASSUME NEW q, NEW s, NEW t, NEW i1, NEW i2, NEW i3, NEW j1, NEW j2, NEW j3,
           Gives(s, q, i1, i2, i3), Gives(t, q, j1, j2, j3)
    PROVE  Gives(s \o t, q, i1 + j1, i2 + j2, i3 + j3)
<1>1. /\ s \in Seq(RefType) /\ t \in Seq(RefType)
      /\ i1 \in Nat /\ i2 \in Nat /\ i3 \in Nat /\ j1 \in Nat /\ j2 \in Nat /\ j3 \in Nat
  BY DEF Gives
<1>2. s \o t \in Seq(RefType)
  BY <1>1, ConcatProperties
<1>3. ASSUME NEW p \in Queue, NEW what, NEW i \in Nat, NEW j \in Nat,
             Adds(s, what, {p}, IF p = q THEN i ELSE 0), Adds(t, what, {p}, IF p = q THEN j ELSE 0)
      PROVE  Adds(s \o t, what, {p}, IF p = q THEN i + j ELSE 0)
  <2>1. PICK m \in Nat, n \in Nat : m = (IF p = q THEN i ELSE 0) /\ n = (IF p = q THEN j ELSE 0)
    OBVIOUS
  <2>2. Adds(s \o t, what, {p}, m + n)
    BY <1>1, <1>3, <2>1, AddsBoth
  <2>3. m + n = IF p = q THEN i + j ELSE 0
    BY <2>1
  <2> QED
    BY <2>2, <2>3
<1>4. \A p \in Queue : /\ Adds(s \o t, "thread", {p}, IF p = q THEN i1 + j1 ELSE 0)
                       /\ Adds(s \o t, "stream", {p}, IF p = q THEN i2 + j2 ELSE 0)
  BY <1>1, <1>3 DEF Gives
<1>5. Adds(s \o t, "buffer", Queue, i3 + j3)
  BY <1>1, AddsBoth DEF Gives
<1>6. i1 + j1 \in Nat /\ i2 + j2 \in Nat /\ i3 + j3 \in Nat
  BY <1>1
<1> QED
  BY <1>2, <1>4, <1>5, <1>6 DEF Gives

\* The references of q's resources that a step adds and drops, x being dropped.
Changed(q, inThread, inStream, x) ==
    \A p \in Queue :
        /\ Count("thread", {p})' = Count("thread", {p}) + (IF p = q THEN inThread ELSE 0)
                                     - (IF x.what = "thread" /\ x.q = p THEN 1 ELSE 0)
        /\ Count("stream", {p})' = Count("stream", {p}) + (IF p = q THEN inStream ELSE 0)
                                     - (IF x.what = "stream" /\ x.q = p THEN 1 ELSE 0)

\* A step in which actor a drops or has done what was next, and gets s in its place.
LEMMA Dropped ==
    ASSUME TodoInv, FiniteTokens(todo), NEW a \in Actor, todo[a] # <<>>,
           NEW s, NEW q, NEW inThread, NEW inStream, NEW inBuffer, Gives(s, q, inThread, inStream, inBuffer),
           todo' = With(todo, a, s \o Tail(todo[a])), NEW x, x = Head(todo[a])
    PROVE  /\ FiniteTokens(todo')
           /\ Changed(q, inThread, inStream, x)
           /\ Count("buffer", Queue)' = Count("buffer", Queue) + inBuffer - (IF x.what = "buffer" THEN 1 ELSE 0)
           /\ \A p \in Queue : Count("thread", {p})' \in Nat /\ Count("stream", {p})' \in Nat
           /\ Count("buffer", Queue)' \in Nat
<1>1. todo \in [Actor -> Seq(RefType)] /\ x.q \in Queue
  <2>1. PICK R \in SUBSET RefType : R = Refs
    BY DEF Refs
  <2>2. todo \in [Actor -> Seq(R)]
    BY <2>1 DEF TodoInv
  <2>3. todo[a] \in Seq(R) /\ Seq(R) \subseteq Seq(RefType)
    BY <2>1, <2>2
  <2>4. x \in R
    BY <2>3
  <2> QED
    BY <2>1, <2>2, <2>3, <2>4 DEF RefType
<1>2. ASSUME NEW what, NEW Q, NEW n \in Nat, Adds(s, what, Q, n), IsFiniteSet(Tokens(todo, what, Q))
      PROVE  /\ IsFiniteSet(Tokens(todo', what, Q))
             /\ Count(what, Q)' = Count(what, Q) + n - Weight(x, what, Q)
             /\ Count(what, Q)' \in Nat
  <2>1. s \in Seq(RefType)
    BY DEF Gives
  <2>2. PICK z : z = s \o Tail(todo[a])
    OBVIOUS
  <2> QED
    BY <1>1, <1>2, <2>1, StepCount
<1>3. ASSUME NEW p \in Queue, NEW what \in {"thread", "stream"}, NEW n \in Nat,
             Adds(s, what, {p}, IF p = q THEN n ELSE 0), IsFiniteSet(Tokens(todo, what, {p}))
      PROVE  /\ IsFiniteSet(Tokens(todo', what, {p}))
             /\ Count(what, {p})' = Count(what, {p}) + (IF p = q THEN n ELSE 0)
                                      - (IF x.what = what /\ x.q = p THEN 1 ELSE 0)
             /\ Count(what, {p})' \in Nat
  <2>1. PICK m \in Nat : m = IF p = q THEN n ELSE 0
    OBVIOUS
  <2>2. Weight(x, what, {p}) = IF x.what = what /\ x.q = p THEN 1 ELSE 0
    BY DEF Weight, IsRef
  <2>3. /\ IsFiniteSet(Tokens(todo', what, {p}))
        /\ Count(what, {p})' = Count(what, {p}) + m - Weight(x, what, {p})
        /\ Count(what, {p})' \in Nat
    BY <1>2, <1>3, <2>1
  <2> QED
    BY <2>1, <2>2, <2>3
<1>4. Weight(x, "buffer", Queue) = IF x.what = "buffer" THEN 1 ELSE 0
  BY <1>1 DEF Weight, IsRef
<1>5. /\ IsFiniteSet(Tokens(todo', "buffer", Queue))
      /\ Count("buffer", Queue)' = Count("buffer", Queue) + inBuffer - Weight(x, "buffer", Queue)
      /\ Count("buffer", Queue)' \in Nat
  BY <1>2 DEF Gives, FiniteTokens
<1>6. ASSUME NEW p \in Queue
      PROVE  /\ IsFiniteSet(Tokens(todo', "thread", {p}))
             /\ Count("thread", {p})' = Count("thread", {p}) + (IF p = q THEN inThread ELSE 0)
                                          - (IF x.what = "thread" /\ x.q = p THEN 1 ELSE 0)
             /\ Count("thread", {p})' \in Nat
  BY <1>3 DEF Gives, FiniteTokens
<1>7. ASSUME NEW p \in Queue
      PROVE  /\ IsFiniteSet(Tokens(todo', "stream", {p}))
             /\ Count("stream", {p})' = Count("stream", {p}) + (IF p = q THEN inStream ELSE 0)
                                          - (IF x.what = "stream" /\ x.q = p THEN 1 ELSE 0)
             /\ Count("stream", {p})' \in Nat
  BY <1>3 DEF Gives, FiniteTokens
<1>8. FiniteTokens(todo')
  BY <1>5, <1>6, <1>7 DEF FiniteTokens
<1>9. Count("buffer", Queue)' = Count("buffer", Queue) + inBuffer - (IF x.what = "buffer" THEN 1 ELSE 0)
  BY <1>4, <1>5
<1>10. Changed(q, inThread, inStream, x)
  BY <1>6, <1>7 DEF Changed
<1> QED
  BY <1>5, <1>6, <1>7, <1>8, <1>9, <1>10

\* A step in which actor a, with nothing to destroy, gets s.
LEMMA Given ==
    ASSUME TodoInv, FiniteTokens(todo), NEW a \in Actor, todo[a] = <<>>,
           NEW s, NEW q, NEW inThread, NEW inStream, NEW inBuffer, Gives(s, q, inThread, inStream, inBuffer),
           todo' = With(todo, a, s)
    PROVE  /\ FiniteTokens(todo')
           /\ \A p \in Queue :
                 /\ Count("thread", {p})' = Count("thread", {p}) + (IF p = q THEN inThread ELSE 0)
                 /\ Count("stream", {p})' = Count("stream", {p}) + (IF p = q THEN inStream ELSE 0)
           /\ Count("buffer", Queue)' = Count("buffer", Queue) + inBuffer
<1>1. todo \in [Actor -> Seq(RefType)]
  <2>1. PICK R \in SUBSET RefType : R = Refs
    BY DEF Refs
  <2>2. todo \in [Actor -> Seq(R)]
    BY <2>1 DEF TodoInv
  <2>3. Seq(R) \subseteq Seq(RefType)
    BY <2>1
  <2> QED
    BY <2>2, <2>3
<1>2. ASSUME NEW what, NEW Q, NEW n \in Nat, Adds(s, what, Q, n), IsFiniteSet(Tokens(todo, what, Q))
      PROVE  IsFiniteSet(Tokens(todo', what, Q)) /\ Count(what, Q)' = Count(what, Q) + n
  <2>1. s \in Seq(RefType)
    BY DEF Gives
  <2> QED
    BY <1>1, <1>2, <2>1, PutCount
<1>3. ASSUME NEW p \in Queue, NEW what, NEW n \in Nat,
             Adds(s, what, {p}, IF p = q THEN n ELSE 0), IsFiniteSet(Tokens(todo, what, {p}))
      PROVE  /\ IsFiniteSet(Tokens(todo', what, {p}))
             /\ Count(what, {p})' = Count(what, {p}) + (IF p = q THEN n ELSE 0)
  <2>1. PICK m \in Nat : m = IF p = q THEN n ELSE 0
    OBVIOUS
  <2>2. IsFiniteSet(Tokens(todo', what, {p})) /\ Count(what, {p})' = Count(what, {p}) + m
    BY <1>2, <1>3, <2>1
  <2> QED
    BY <2>1, <2>2
<1>4. IsFiniteSet(Tokens(todo', "buffer", Queue)) /\ Count("buffer", Queue)' = Count("buffer", Queue) + inBuffer
  BY <1>2 DEF Gives, FiniteTokens
<1>5. ASSUME NEW p \in Queue
      PROVE  /\ IsFiniteSet(Tokens(todo', "thread", {p}))
             /\ Count("thread", {p})' = Count("thread", {p}) + (IF p = q THEN inThread ELSE 0)
  BY <1>3 DEF Gives, FiniteTokens
<1>6. ASSUME NEW p \in Queue
      PROVE  /\ IsFiniteSet(Tokens(todo', "stream", {p}))
             /\ Count("stream", {p})' = Count("stream", {p}) + (IF p = q THEN inStream ELSE 0)
  BY <1>3 DEF Gives, FiniteTokens
<1> QED
  BY <1>4, <1>5, <1>6 DEF FiniteTokens

-----------------------------------------------------------------------------
(* The holders after the steps of the native queue and the callback thread. *)

\* The same work holds references.
SameHolders ==
    /\ \A q \in Queue : ThreadOps(q)' = ThreadOps(q) /\ (Closure(q)' <=> Closure(q))
    /\ BufferOps' = BufferOps /\ BufferTasks' = BufferTasks

\* The operations are those of the step before.
LEMMA OpsSame ==
    ASSUME CoreInv, UNCHANGED <<program, op>>
    PROVE  /\ Op' = Op /\ (Cuda' <=> Cuda) /\ finished \subseteq Op
           /\ \A i \in Op : op[i].q \in Queue
<1>1. op \in Seq(OpType) /\ finished \subseteq Op
  BY DEF CoreInv, CoreType
<1>2. \A i \in Op : op[i] \in OpType
  BY <1>1 DEF Op
<1> QED
  BY <1>1, <1>2 DEF Op, Cuda, OpType

\* The native queue completes an operation that is no host function.
LEMMA HoldersCompleted ==
    ASSUME CoreInv, NEW q \in Queue, NativeStep(q)
    PROVE  SameHolders
<1>1. /\ stream[q] # <<>> /\ finished' = finished \cup {HeadOf(q)}
      /\ \A p \in Queue \ {q} : stream'[p] = stream[p]
      /\ UNCHANGED <<program, op, host, tasks>>
      /\ op[HeadOf(q)].kind \notin HostKind
  <2>1. stream \in [Queue -> Seq(Nat)]
    BY DEF CoreInv, CoreType
  <2> QED
    BY <2>1 DEF NativeStep, Completed
<1>2. ~InHost(q)
  BY <1>1, ClosingHead
<1>3. /\ Op' = Op /\ (Cuda' <=> Cuda) /\ finished \subseteq Op
      /\ \A i \in Op : op[i].q \in Queue
  BY <1>1, OpsSame
<1>4. \A p \in Queue \ {q} : HeadOf(p)' = HeadOf(p)
  BY <1>1 DEF HeadOf
<1>5. \A p \in Queue : InHost(p)' <=> InHost(p)
  BY <1>1, <1>3 DEF InHost
<1>6. ASSUME NEW i \in Op \ {HeadOf(q)} PROVE Handed(i)' <=> Handed(i)
  BY <1>1, <1>2, <1>3, <1>4, <1>5 DEF Handed
<1>7. ASSUME NEW p \in Queue PROVE ThreadOps(p)' = ThreadOps(p)
  <2>1. PICK skip, skip2 : /\ skip = IF Cuda /\ host[p] = "closing" THEN {HeadOf(p)} ELSE {}
                           /\ skip2 = IF Cuda' /\ host'[p] = "closing" THEN {HeadOf(p)'} ELSE {}
    OBVIOUS
  <2>2. skip2 = skip
    BY <1>1, <1>2, <1>3, <1>4, <2>1 DEF InHost
  <2>3. ThreadOps(p) = {i \in Op \ finished : op[i].q = p /\ op[i].kind \in HostKind /\ i \notin skip}
    BY <2>1 DEF ThreadOps
  <2>4. ThreadOps(p)' = {i \in Op' \ finished' : op'[i].q = p /\ op'[i].kind \in HostKind /\ i \notin skip2}
    BY <2>1 DEF ThreadOps
  <2> QED
    BY <1>1, <1>3, <2>2, <2>3, <2>4
<1>8. BufferOps' = BufferOps
  <2>1. "keepAlive" \in HostKind
    BY DEF HostKind
  <2> QED
    BY <1>1, <1>3, <1>6, <2>1 DEF BufferOps
<1>9. \A i, p : Queued(p, i)' <=> Queued(p, i)
  BY <1>1 DEF Queued
<1>10. BufferTasks' = BufferTasks /\ \A p \in Queue : (Closure(p)' <=> Closure(p))
  BY <1>1, <1>3, <1>9 DEF BufferTasks, Closure, FreeClosure
<1> QED
  BY <1>7, <1>8, <1>10 DEF SameHolders

\* What is queued after a task is appended.
LEMMA QueuedAppended ==
    ASSUME NEW q \in Queue, NEW x, Appended(q, x)
    PROVE  \A p \in Queue : \A i : Queued(p, i)' <=> Queued(p, i) \/ (p = q /\ i = x)
  BY DEF Appended, Queued

\* The host function that the runtime calls now; its task shares a kept buffer.
LEMMA HoldersBegun ==
    ASSUME CoreInv, NEW q \in Queue, HostBegin(q), NEW h, h = HeadOf(q)
    PROVE  /\ h \in Op /\ op[h].kind \in HostKind
           /\ \A p \in Queue : ThreadOps(p)' = ThreadOps(p) /\ (Closure(p)' <=> Closure(p))
           /\ BufferOps' = BufferOps \ (IF Cuda THEN {h} ELSE {})
           /\ BufferTasks' = BufferTasks \cup (IF op[h].kind = "keepAlive" THEN {h} ELSE {})
           /\ op[h].kind = "keepAlive" => h \in BufferOps
           /\ h \notin BufferTasks
<1>1. /\ stream[q] # <<>> /\ op[h].kind \in HostKind /\ host[q] = "idle"
      /\ tasks' = [tasks EXCEPT ![q] = Append(@, h)]
      /\ host' = [host EXCEPT ![q] = "submitted"]
      /\ UNCHANGED <<program, op, stream, finished>>
  BY DEF HostBegin
<1>2. h \in Op \ finished /\ op[h].q = q /\ h \in Nat
  BY <1>1, HeadFacts DEF CoreInv, QueueInv, Op
<1>3. /\ Op' = Op /\ (Cuda' <=> Cuda) /\ finished \subseteq Op
      /\ \A i \in Op : op[i].q \in Queue
  BY <1>1, OpsSame
<1>4. Appended(q, h)
  BY <1>1, <1>2, AppendEffect DEF CoreInv
<1>5. \A p \in Queue : \A i : Queued(p, i)' <=> Queued(p, i) \/ (p = q /\ i = h)
  BY <1>4, QueuedAppended
<1>6. /\ \A p \in Queue \ {q} : host'[p] = host[p]
      /\ host'[q] = "submitted" /\ \A p : HeadOf(p)' = HeadOf(p)
  BY <1>1 DEF CoreInv, CoreType, HeadOf
<1>7. /\ ~InHost(q) /\ InHost(q)'
      /\ \A p \in Queue \ {q} : InHost(p)' <=> InHost(p)
  BY <1>1, <1>3, <1>6 DEF InHost
<1>8. \A i \in Op : Handed(i)' <=> Handed(i) \/ i = h
  BY <1>1, <1>2, <1>3, <1>6, <1>7 DEF Handed
<1>9. ~Handed(h)
  BY <1>2, <1>7 DEF Handed
<1>10. h # FreeClosure
  BY <1>2 DEF FreeClosure, Op
<1>11. ~Queued(q, h)
  BY <1>9, <1>10, QueuedOp
<1>12. \A p \in Queue : ThreadOps(p)' = ThreadOps(p)
  BY <1>1, <1>3, <1>6 DEF ThreadOps
<1>13. \A p \in Queue : Closure(p)' <=> Closure(p)
  BY <1>5, <1>10 DEF Closure, FreeClosure
<1>14. BufferOps' = BufferOps \ (IF Cuda THEN {h} ELSE {})
  BY <1>1, <1>3, <1>8 DEF BufferOps
<1>15. BufferTasks' = BufferTasks \cup (IF op[h].kind = "keepAlive" THEN {h} ELSE {})
  BY <1>1, <1>2, <1>3, <1>5 DEF BufferTasks
<1>16. op[h].kind = "keepAlive" => h \in BufferOps
  BY <1>2, <1>9 DEF BufferOps
<1>17. h \notin BufferTasks
  BY <1>2, <1>11 DEF BufferTasks
<1> QED
  BY <1>1, <1>2, <1>12, <1>13, <1>14, <1>15, <1>16, <1>17

\* The host function that returns.
LEMMA HoldersReturned ==
    ASSUME CoreInv, NEW q \in Queue, HostReturn(q), NEW h, h = HeadOf(q)
    PROVE  /\ \A p \in Queue : /\ ThreadOps(p)' = ThreadOps(p) \ (IF p = q THEN {h} ELSE {})
                               /\ (Closure(p)' <=> Closure(p))
           /\ h \in ThreadOps(q)
           /\ BufferOps' = BufferOps \ (IF Cuda THEN {} ELSE {h})
           /\ h \in Op
           /\ ~Cuda => (op[h].kind = "keepAlive" <=> h \in BufferOps)
           /\ BufferTasks' = BufferTasks
<1>1. /\ host[q] = "submitted" /\ host' = [host EXCEPT ![q] = "closing"]
      /\ UNCHANGED <<program, op, tasks>>
      /\ Cuda => UNCHANGED <<stream, finished>>
      /\ ~Cuda => finished' = finished \cup {h} /\ \A p \in Queue \ {q} : HeadOf(p)' = HeadOf(p)
  <2>1. stream \in [Queue -> Seq(Nat)]
    BY DEF CoreInv, CoreType
  <2> QED
    BY <2>1 DEF HostReturn, Completed, callbackVars, HeadOf
<1>2. /\ h \in Op \ finished /\ op[h].q = q /\ op[h].kind \in HostKind /\ InHost(q)
  BY <1>1, ClosingHead DEF InHost
<1>3. /\ Op' = Op /\ (Cuda' <=> Cuda) /\ finished \subseteq Op
      /\ \A i \in Op : op[i].q \in Queue
  BY <1>1, OpsSame
<1>4. /\ \A p \in Queue \ {q} : host'[p] = host[p] /\ HeadOf(p)' = HeadOf(p)
      /\ host'[q] = "closing" /\ (Cuda => HeadOf(q)' = HeadOf(q))
  BY <1>1 DEF CoreInv, CoreType, HeadOf
<1>5. /\ InHost(q)' <=> Cuda
      /\ \A p \in Queue \ {q} : InHost(p)' <=> InHost(p)
  BY <1>3, <1>4 DEF InHost
<1>6. \A i \in Op : Handed(i)' <=> Handed(i)
  BY <1>1, <1>2, <1>3, <1>4, <1>5 DEF Handed
<1>7. ASSUME NEW p \in Queue \ {q} PROVE ThreadOps(p)' = ThreadOps(p)
  <2>1. finished' \subseteq finished \cup {h}
    BY <1>1
  <2>2. finished \subseteq finished'
    BY <1>1
  <2> QED
    BY <1>1, <1>2, <1>3, <1>4, <2>1, <2>2 DEF ThreadOps
<1>8. h \in ThreadOps(q)
  BY <1>1, <1>2 DEF ThreadOps
<1>9. ThreadOps(q)' = ThreadOps(q) \ {h}
  <2>1. CASE Cuda
    BY <1>1, <1>2, <1>3, <1>4, <2>1 DEF ThreadOps
  <2>2. CASE ~Cuda
    BY <1>1, <1>2, <1>3, <1>4, <2>2 DEF ThreadOps
  <2> QED
    BY <2>1, <2>2
<1>10. BufferOps' = BufferOps \ (IF Cuda THEN {} ELSE {h})
  <2>1. CASE Cuda
    BY <1>1, <1>3, <1>6, <2>1 DEF BufferOps
  <2>2. CASE ~Cuda
    BY <1>1, <1>3, <2>2 DEF BufferOps
  <2> QED
    BY <2>1, <2>2
<1>11. ~Cuda => (op[h].kind = "keepAlive" <=> h \in BufferOps)
  BY <1>2 DEF BufferOps
<1>12. \A i, p : Queued(p, i)' <=> Queued(p, i)
  BY <1>1 DEF Queued
<1>13. BufferTasks' = BufferTasks /\ \A p \in Queue : (Closure(p)' <=> Closure(p))
  BY <1>1, <1>3, <1>12 DEF BufferTasks, Closure, FreeClosure
<1> QED
  BY <1>2, <1>7, <1>8, <1>9, <1>10, <1>11, <1>13

\* Its references are dropped; CUDA's native queue goes on.
LEMMA HoldersClosed ==
    ASSUME CoreInv, NEW q \in Queue, HostClosed(q)
    PROVE  SameHolders
<1>0. PICK h : h = HeadOf(q)
  OBVIOUS
<1>1. /\ host[q] = "closing" /\ host' = [host EXCEPT ![q] = "idle"]
      /\ UNCHANGED <<program, op, tasks>>
      /\ ~Cuda => UNCHANGED <<stream, finished>>
      /\ Cuda => finished' = finished \cup {h} /\ \A p \in Queue \ {q} : HeadOf(p)' = HeadOf(p)
  <2>1. stream \in [Queue -> Seq(Nat)]
    BY DEF CoreInv, CoreType
  <2> QED
    BY <1>0, <2>1 DEF HostClosed, Completed, callbackVars, HeadOf
<1>2. Cuda => h \in Op \ finished /\ op[h].q = q /\ op[h].kind \in HostKind /\ InHost(q)
  BY <1>0, <1>1, ClosingHead DEF InHost
<1>3. /\ Op' = Op /\ (Cuda' <=> Cuda) /\ finished \subseteq Op
      /\ \A i \in Op : op[i].q \in Queue
  BY <1>1, OpsSame
<1>4. /\ \A p \in Queue \ {q} : host'[p] = host[p] /\ HeadOf(p)' = HeadOf(p)
      /\ host'[q] = "idle"
  BY <1>1 DEF CoreInv, CoreType, HeadOf
<1>5. /\ ~InHost(q)'
      /\ \A p \in Queue \ {q} : InHost(p)' <=> InHost(p)
      /\ ~Cuda => ~InHost(q)
  BY <1>1, <1>3, <1>4 DEF InHost
<1>6. \A i \in Op : Handed(i)' <=> Handed(i)
  <2>1. CASE Cuda
    BY <1>0, <1>1, <1>2, <1>3, <1>4, <1>5, <2>1 DEF Handed
  <2>2. CASE ~Cuda
    BY <1>0, <1>1, <1>3, <1>4, <1>5, <2>2 DEF Handed
  <2> QED
    BY <2>1, <2>2
<1>7. ASSUME NEW p \in Queue \ {q} PROVE ThreadOps(p)' = ThreadOps(p)
  <2>1. finished \subseteq finished' /\ finished' \subseteq finished \cup (IF Cuda THEN {h} ELSE {})
    BY <1>1
  <2> QED
    BY <1>1, <1>2, <1>3, <1>4, <2>1 DEF ThreadOps
<1>8. ThreadOps(q)' = ThreadOps(q)
  <2>1. CASE Cuda
    BY <1>0, <1>1, <1>2, <1>3, <1>4, <2>1 DEF ThreadOps
  <2>2. CASE ~Cuda
    BY <1>1, <1>3, <1>4, <2>2 DEF ThreadOps
  <2> QED
    BY <2>1, <2>2
<1>9. BufferOps' = BufferOps
  <2>1. CASE Cuda
    <3>1. Handed(h)
      BY <1>0, <1>2, <2>1 DEF Handed
    <3> QED
      BY <1>1, <1>2, <1>3, <1>6, <2>1, <3>1 DEF BufferOps
  <2>2. CASE ~Cuda
    BY <1>1, <1>3, <2>2 DEF BufferOps
  <2> QED
    BY <2>1, <2>2
<1>10. \A i, p : Queued(p, i)' <=> Queued(p, i)
  BY <1>1 DEF Queued
<1>11. BufferTasks' = BufferTasks /\ \A p \in Queue : (Closure(p)' <=> Closure(p))
  BY <1>1, <1>3, <1>10 DEF BufferTasks, Closure, FreeClosure
<1> QED
  BY <1>7, <1>8, <1>9, <1>11 DEF SameHolders

\* What is queued after a task is popped.
LEMMA QueuedPopped ==
    ASSUME NEW S, tasks \in [Queue -> Seq(S)], NEW q \in Queue, tasks[q] # <<>>,
           tasks' = [tasks EXCEPT ![q] = Tail(@)], NEW x, x = Head(tasks[q])
    PROVE  /\ \A p \in Queue : \A i : (p = q /\ i = x) \/ (Queued(p, i)' <=> Queued(p, i))
           /\ Queued(q, x)
           /\ Queued(q, x)' => \E k \in 2..Len(tasks[q]) : tasks[q][k] = x
           /\ \A k \in 1..Len(tasks'[q]) : tasks'[q][k] = tasks[q][k + 1] /\ k + 1 \in 1..Len(tasks[q])
           /\ \A p \in Queue \ {q} : tasks'[p] = tasks[p]
<1>1. PICK s \in Seq(S) : s = tasks[q]
  OBVIOUS
<1>2. tasks'[q] = Tail(s) /\ \A p \in Queue \ {q} : tasks'[p] = tasks[p]
  BY <1>1
<1>3. /\ Len(s) \in Nat \ {0}
      /\ Len(Tail(s)) = Len(s) - 1
      /\ \A i \in 1..Len(Tail(s)) : Tail(s)[i] = s[i + 1] /\ i + 1 \in 1..Len(s)
      /\ \A i \in 1..Len(s) : i = 1 \/ (i - 1 \in 1..Len(Tail(s)) /\ s[i] = Tail(s)[i - 1])
      /\ x = s[1] /\ 1 \in 1..Len(s)
  BY <1>1, TailElements
<1>4. Queued(q, x)
  BY <1>1, <1>3 DEF Queued
<1>5. ASSUME NEW i, i # x PROVE Queued(q, i)' <=> Queued(q, i)
  <2>1. ASSUME NEW k \in 1..Len(s), s[k] = i PROVE \E l \in 1..Len(Tail(s)) : Tail(s)[l] = i
    BY <1>3, <1>5, <2>1
  <2>2. ASSUME NEW l \in 1..Len(Tail(s)), Tail(s)[l] = i PROVE \E k \in 1..Len(s) : s[k] = i
    BY <1>3, <2>2
  <2> QED
    BY <1>1, <1>2, <2>1, <2>2 DEF Queued
<1>6. ASSUME Queued(q, x)' PROVE \E k \in 2..Len(s) : s[k] = x
  <2>1. PICK l \in 1..Len(Tail(s)) : Tail(s)[l] = x
    BY <1>2, <1>6 DEF Queued
  <2> QED
    BY <1>3, <2>1
<1>7. \A p \in Queue \ {q} : \A i : Queued(p, i)' <=> Queued(p, i)
  BY <1>2 DEF Queued
<1> QED
  BY <1>1, <1>2, <1>3, <1>4, <1>5, <1>6, <1>7

\* The task that the callback thread pops.
LEMMA HoldersPopped ==
    ASSUME CoreInv, NEW q \in Queue, OneClosure(q), WorkerPop(q), NEW x, x = current[q]
    PROVE  /\ x # FreeClosure => x \in Op
           /\ \A p \in Queue : ThreadOps(p)' = ThreadOps(p)
           /\ \A p \in Queue : IF p = q /\ x = FreeClosure THEN Closure(p) /\ ~Closure(p)'
                               ELSE Closure(p)' <=> Closure(p)
           /\ BufferOps' = BufferOps
           /\ BufferTasks' = BufferTasks \ {x}
           /\ x # FreeClosure => (op[x].kind = "keepAlive" <=> x \in BufferTasks)
           /\ OneClosure(q)'
           /\ \A p \in Queue \ {q} : tasks'[p] = tasks[p]
<1>1. /\ tasks' = [tasks EXCEPT ![q] = Tail(@)]
      /\ UNCHANGED <<program, op, stream, finished, host>>
      /\ tasks \in [Queue -> Seq(Nat)]
  BY DEF WorkerPop, nativeVars, CoreInv, CoreType
<1>2. tasks[q] # <<>> /\ x = Head(tasks[q])
  BY DEF WorkerPop, CoreInv, QueueInv, WorkerInv
<1>3. /\ Op' = Op /\ (Cuda' <=> Cuda) /\ finished \subseteq Op
      /\ \A i \in Op : op[i].q \in Queue
  BY <1>1, OpsSame
<1>4. /\ \A p \in Queue : \A i : (p = q /\ i = x) \/ (Queued(p, i)' <=> Queued(p, i))
      /\ Queued(q, x)
      /\ Queued(q, x)' => \E k \in 2..Len(tasks[q]) : tasks[q][k] = x
      /\ \A k \in 1..Len(tasks'[q]) : tasks'[q][k] = tasks[q][k + 1] /\ k + 1 \in 1..Len(tasks[q])
      /\ \A p \in Queue \ {q} : tasks'[p] = tasks[p]
  BY <1>1, <1>2, QueuedPopped
<1>5. tasks[q][1] = x /\ 1 \in 1..Len(tasks[q])
  <2>1. tasks[q] \in Seq(Nat)
    BY <1>1
  <2> QED
    BY <1>2, <2>1, TailElements
<1>6. ~Queued(q, x)'
  <2>1. SUFFICES ASSUME NEW k \in 2..Len(tasks[q]), tasks[q][k] = x PROVE FALSE
    BY <1>4
  <2>2. k \in 1..Len(tasks[q]) /\ 1 < k
    OBVIOUS
  <2>3. CASE x = FreeClosure
    <3>1. tasks[q][1] = FreeClosure /\ tasks[q][k] = FreeClosure /\ k # 1
      BY <1>5, <2>1, <2>2, <2>3
    <3> QED
      BY <1>5, <2>2, <3>1 DEF OneClosure
  <2>4. CASE x # FreeClosure
    <3>1. x \in Nat
      BY <1>4, <2>4, QueuedOp DEF Op
    <3>2. tasks[q][1] < tasks[q][k]
      BY <1>5, <2>1, <2>2, <2>4 DEF CoreInv, QueueInv, TaskInv
    <3> QED
      BY <1>5, <2>1, <3>1, <3>2
  <2> QED
    BY <2>3, <2>4
<1>7. x # FreeClosure => x \in Op /\ op[x].q = q
  BY <1>4, QueuedOp
<1>8. \A p \in Queue : ThreadOps(p)' = ThreadOps(p)
  BY <1>1, <1>3 DEF ThreadOps, HeadOf
<1>9. \A i : Handed(i)' <=> Handed(i)
  BY <1>1, <1>3 DEF Handed, InHost, HeadOf
<1>10. BufferOps' = BufferOps
  BY <1>1, <1>3, <1>9 DEF BufferOps
<1>11. BufferTasks' = BufferTasks \ {x}
  <2>1. PICK mine, mine2 : mine = {i \in Op : Queued(op[i].q, i)} /\ mine2 = {i \in Op' : Queued(op[i].q, i)'}
    OBVIOUS
  <2>2. mine2 = mine \ {x}
    <3>1. ASSUME NEW i \in Op, i # x PROVE Queued(op[i].q, i)' <=> Queued(op[i].q, i)
      BY <1>1, <1>3, <1>4, <3>1
    <3>2. x \in Op => ~Queued(op[x].q, x)'
      <4>1. FreeClosure \notin Op
        BY DEF FreeClosure, Op
      <4> QED
        BY <1>1, <1>6, <1>7, <4>1
    <3> QED
      BY <1>3, <2>1, <3>1, <3>2
  <2>3. BufferTasks = {i \in mine : op[i].kind = "keepAlive"} /\ BufferTasks' = {i \in mine2 : op'[i].kind = "keepAlive"}
    BY <2>1 DEF BufferTasks
  <2> QED
    BY <1>1, <2>2, <2>3
<1>12. x # FreeClosure => (op[x].kind = "keepAlive" <=> x \in BufferTasks)
  BY <1>4, <1>7 DEF BufferTasks
<1>13. \A p \in Queue : IF p = q /\ x = FreeClosure THEN Closure(p) /\ ~Closure(p)' ELSE Closure(p)' <=> Closure(p)
  BY <1>4, <1>6 DEF Closure, FreeClosure
<1>14. OneClosure(q)'
  <2>1. SUFFICES ASSUME NEW k \in 1..Len(tasks'[q]), NEW l \in 1..Len(tasks'[q]),
                        tasks'[q][k] = FreeClosure, tasks'[q][l] = FreeClosure
                 PROVE  k = l
    BY DEF OneClosure, FreeClosure
  <2>2. k + 1 = l + 1
    BY <1>4, <2>1 DEF OneClosure
  <2> QED
    BY <2>2
<1> QED
  BY <1>4, <1>7, <1>8, <1>10, <1>11, <1>12, <1>13, <1>14

\* The closure that frees the buffer goes to the callback thread.
LEMMA HoldersClosure ==
    ASSUME CoreInv, NEW q \in Queue, ~Closure(q), Appended(q, FreeClosure),
           UNCHANGED <<program, op, stream, finished, host>>
    PROVE  /\ \A p \in Queue : ThreadOps(p)' = ThreadOps(p)
           /\ \A p \in Queue \ {q} : Closure(p)' <=> Closure(p)
           /\ Closure(q)'
           /\ BufferOps' = BufferOps /\ BufferTasks' = BufferTasks
           /\ OneClosure(q)'
           /\ \A p \in Queue \ {q} : tasks'[p] = tasks[p]
<1>1. /\ Op' = Op /\ (Cuda' <=> Cuda) /\ finished \subseteq Op
      /\ \A i \in Op : op[i].q \in Queue
  BY OpsSame
<1>2. \A p \in Queue : \A i : Queued(p, i)' <=> Queued(p, i) \/ (p = q /\ i = FreeClosure)
  BY QueuedAppended
<1>3. FreeClosure \notin Op
  BY DEF FreeClosure, Op
<1>4. \A p \in Queue : ThreadOps(p)' = ThreadOps(p)
  BY <1>1 DEF ThreadOps, HeadOf
<1>5. \A i : Handed(i)' <=> Handed(i)
  BY <1>1 DEF Handed, InHost, HeadOf
<1>6. BufferOps' = BufferOps
  BY <1>1, <1>5 DEF BufferOps
<1>7. \A i \in Op : Queued(op[i].q, i)' <=> Queued(op[i].q, i)
  BY <1>1, <1>2, <1>3
<1>8. BufferTasks' = BufferTasks
  BY <1>1, <1>7 DEF BufferTasks
<1>9. Closure(q)' /\ \A p \in Queue \ {q} : Closure(p)' <=> Closure(p)
  BY <1>2 DEF Closure, FreeClosure
<1>10. OneClosure(q)'
  <2>1. \A k \in 1..Len(tasks[q]) : tasks'[q][k] # FreeClosure
    BY DEF Closure, Queued, Appended
  <2> QED
    BY <2>1 DEF OneClosure, Appended, FreeClosure
<1> QED
  BY <1>4, <1>6, <1>8, <1>9, <1>10 DEF Appended

-----------------------------------------------------------------------------
(* The use counts after a step.                                            *)

\* What is counted.
PartsType ==
    /\ \A q \in Queue : /\ HandleRef(q) \in Nat /\ OwnerRef(q) \in Nat /\ ClosureRef(q) \in Nat
                        /\ Cardinality(ThreadOps(q)) \in Nat
                        /\ Count("thread", {q}) \in Nat /\ Count("stream", {q}) \in Nat
    /\ UserRef \in Nat /\ Cardinality(BufferOps) \in Nat /\ Cardinality(BufferTasks) \in Nat
    /\ Count("buffer", Queue) \in Nat

\* The numbers of holders are naturals, as the sets that are counted are finite.
LEMMA PartsNat == CoreInv /\ RefsType => PartsType
<1> SUFFICES ASSUME CoreInv, RefsType PROVE PartsType
  OBVIOUS
<1>1. \A q \in Queue : HandleRef(q) \in Nat /\ OwnerRef(q) \in Nat /\ ClosureRef(q) \in Nat
  BY DEF HandleRef, OwnerRef, ClosureRef
<1>2. \A q \in Queue : Count("thread", {q}) \in Nat /\ Count("stream", {q}) \in Nat
  BY FS_CardinalityType DEF RefsType, FiniteTokens, Count
<1>3. Count("buffer", Queue) \in Nat
  BY FS_CardinalityType DEF RefsType, FiniteTokens, Count
<1>4. UserRef \in Nat
  BY DEF UserRef
<1> QED
  BY <1>1, <1>2, <1>3, <1>4, OpsFinite DEF PartsType

\* They are naturals after the step as well.
LEMMA PartsNatNext == CoreInv' /\ RefsType' => PartsType'
  BY PartsNat, PTL

\* What is to be destroyed is as before.
LEMMA TodoSame ==
    ASSUME todo' = todo
    PROVE  /\ FiniteTokens(todo) => FiniteTokens(todo')
           /\ \A what, Q : Count(what, Q)' = Count(what, Q)
  BY DEF Count

\* A step that no holder takes part in.
LEMMA CountsQuiet ==
    ASSUME RefsType, CountsInv, SameHolders, UNCHANGED <<program, threadRefs, streamRefs, todo>>,
           buffer'.q = buffer.q, buffer'.refs = buffer.refs, buffer'.user = buffer.user,
           held' \in [Queue -> SUBSET (Thread \cup {None})],
           \A q \in Queue : HandleRef(q)' = HandleRef(q)
    PROVE  RefsType' /\ CountsInv'
<1>1. \A what, Q : Count(what, Q)' = Count(what, Q)
  BY TodoSame
<1>2. RefsType'
  BY DEF RefsType
<1>3. Cuda' <=> Cuda
  BY DEF Cuda
<1>4. \A q \in Queue : OwnerRef(q)' = OwnerRef(q) /\ ClosureRef(q)' = ClosureRef(q)
  BY DEF OwnerRef, BufferOf, ClosureRef, SameHolders
<1>5. UserRef' = UserRef
  BY DEF UserRef
<1>6. ASSUME NEW q \in Queue PROVE threadRefs'[q] = ThreadHolders(q)' /\ streamRefs'[q] = StreamHolders(q)'
  <2>1. Cardinality(ThreadOps(q))' = Cardinality(ThreadOps(q))
    BY DEF SameHolders
  <2>2. threadRefs'[q] = threadRefs[q] /\ streamRefs'[q] = streamRefs[q]
    OBVIOUS
  <2>3. ThreadHolders(q)' = ThreadHolders(q)
    BY <1>1, <1>3, <1>4, <2>1 DEF ThreadHolders
  <2>4. StreamHolders(q)' = StreamHolders(q)
    BY <1>1, <1>4 DEF StreamHolders
  <2> QED
    BY <2>2, <2>3, <2>4 DEF CountsInv
<1>7. buffer'.refs = BufferHolders'
  <2>1. BufferHolders' = BufferHolders
    BY <1>1, <1>5 DEF BufferHolders, SameHolders
  <2> QED
    BY <2>1 DEF CountsInv
<1> QED
  BY <1>2, <1>6, <1>7 DEF CountsInv

\* What precedes an operation are operations.
LEMMA BeforeNat ==
    ASSUME UserInv, NEW q \in Queue, NEW kind PROVE Before(q, kind) \in SUBSET Nat
<1>1. returned \subseteq Nat /\ need[q] \subseteq Nat
  BY DEF UserInv, UserType, Op
<1> QED
  BY <1>1 DEF Before

\* An operation that is enqueued by a call.
LEMMA SubmitAdded ==
    ASSUME CoreInv, UserInv, NEW t \in Thread, NEW c, Begin(t, c), c.call \in OpKind,
           NEW q, q = c.q, NEW kind, kind = c.call,
           NEW target \in Nat, NEW cover \in SUBSET Nat, NEW after, after = Before(q, kind) \cup cover,
           Enqueue(kind, q, target, after)
    PROVE  q \in Queue /\ Added(kind, q, target, after)
<1>1. q \in Queue
  BY BeginFacts
<1>2. after \in SUBSET Nat
  BY <1>1, BeforeNat
<1> QED
  BY <1>1, <1>2, EnqueueEffect DEF CoreInv

\* The sum when one thing more holds a reference.
LEMMA OneMore ==
    ASSUME NEW S, IsFiniteSet(S), NEW x, x \notin S, NEW T, T = S \cup {x}
    PROVE  Cardinality(T) = Cardinality(S) + 1
  BY FS_AddElement

\* A set that loses an element loses one of its cardinality.
LEMMA OneLess ==
    ASSUME NEW S, IsFiniteSet(S), NEW x \in S, NEW T, T = S \ {x}
    PROVE  Cardinality(T) = Cardinality(S) - 1
  BY FS_RemoveElement

\* A host function shares the callback thread, and one that keeps the buffer shares it.
LEMMA SubmitCounts ==
    ASSUME IndInv, RefsType, CountsInv, NEW t \in Thread, NEW c, Submit(t, c)
    PROVE  RefsType' /\ CountsInv'
<1> USE DEF IndInv
<1>1. PICK q, kind : q = c.q /\ kind = c.call
  OBVIOUS
<1>2. /\ Begin(t, c) /\ kind \in EnqueueKind
      /\ Enqueue(kind, q, 0, Before(q, kind))
      /\ kind = "keepAlive" => buffer.user
      /\ threadRefs' = IF kind \in HostKind THEN [threadRefs EXCEPT ![q] = @ + 1] ELSE threadRefs
      /\ buffer' = IF kind = "keepAlive" THEN [buffer EXCEPT !.refs = @ + 1] ELSE buffer
      /\ UNCHANGED <<program, finished, host, tasks, streamRefs, todo, held>>
  BY <1>1 DEF Submit, callbackVars
<1>3. PICK after : after = Before(q, kind)
  OBVIOUS
<1>4. q \in Queue /\ Added(kind, q, 0, after)
  <2>1. kind \in OpKind /\ {} \in SUBSET Nat /\ 0 \in Nat /\ after = Before(q, kind) \cup {}
    BY <1>2, <1>3 DEF OpKind
  <2> QED
    BY <1>1, <1>2, <1>3, <2>1, SubmitAdded
<1>5. PICK n : n = NewOp
  OBVIOUS
<1>6. /\ \A p \in Queue :
           /\ ThreadOps(p)' = ThreadOps(p) \cup (IF p = q /\ kind \in HostKind THEN {n} ELSE {})
           /\ n \notin ThreadOps(p)
           /\ Closure(p)' <=> Closure(p)
      /\ BufferOps' = BufferOps \cup (IF kind = "keepAlive" THEN {n} ELSE {})
      /\ n \notin BufferOps
      /\ BufferTasks' = BufferTasks
  BY <1>2, <1>4, <1>5, HoldersAdded
<1>7. /\ \A p \in Queue : IsFiniteSet(ThreadOps(p)) /\ Cardinality(ThreadOps(p)) \in Nat
      /\ IsFiniteSet(BufferOps) /\ Cardinality(BufferOps) \in Nat
  BY OpsFinite
<1>8. /\ \A p \in Queue : Cardinality(ThreadOps(p)')
                            = Cardinality(ThreadOps(p)) + (IF p = q /\ kind \in HostKind THEN 1 ELSE 0)
      /\ Cardinality(BufferOps') = Cardinality(BufferOps) + (IF kind = "keepAlive" THEN 1 ELSE 0)
  <2>1. ASSUME NEW p \in Queue PROVE Cardinality(ThreadOps(p)')
                            = Cardinality(ThreadOps(p)) + (IF p = q /\ kind \in HostKind THEN 1 ELSE 0)
    <3>1. CASE p = q /\ kind \in HostKind
      BY <1>6, <1>7, <3>1, OneMore
    <3>2. CASE ~(p = q /\ kind \in HostKind)
      BY <1>6, <1>7, <3>2
    <3> QED
      BY <3>1, <3>2
  <2>2. CASE kind = "keepAlive"
    BY <1>6, <1>7, <2>1, <2>2, OneMore
  <2>3. CASE kind # "keepAlive"
    BY <1>6, <1>7, <2>1, <2>3
  <2> QED
    BY <2>2, <2>3
<1>9. \A what, Q : Count(what, Q)' = Count(what, Q)
  BY <1>2, TodoSame
<1>10. /\ buffer'.q = buffer.q /\ buffer'.user = buffer.user
       /\ buffer'.refs = buffer.refs + (IF kind = "keepAlive" THEN 1 ELSE 0)
       /\ buffer.refs \in Int
  BY <1>2 DEF TodoInv, BufferType
<1>11. /\ \A p \in Queue : threadRefs'[p] = threadRefs[p] + (IF p = q /\ kind \in HostKind THEN 1 ELSE 0)
       /\ threadRefs' \in [Queue -> Int]
  BY <1>2, <1>4 DEF RefsType
<1>12. kind = "keepAlive" => buffer.refs >= 1
  <2>1. PICK a \in Nat, b \in Nat, d \in Nat :
           a = Cardinality(BufferOps) /\ b = Cardinality(BufferTasks) /\ d = Count("buffer", Queue)
    BY PartsNat DEF PartsType
  <2>2. kind = "keepAlive" => buffer.refs = 1 + a + b + d
    BY <1>2, <2>1 DEF CountsInv, BufferHolders, UserRef
  <2> QED
    BY <2>1, <2>2
<1>13. \A p \in Queue : /\ HandleRef(p)' = HandleRef(p) /\ OwnerRef(p)' = OwnerRef(p)
                        /\ ClosureRef(p)' = ClosureRef(p)
  <2>1. \A p \in Queue : BufferOf(p)' <=> BufferOf(p)
    BY <1>10, <1>12 DEF BufferOf
  <2> QED
    BY <1>2, <1>6, <2>1 DEF HandleRef, OwnerRef, ClosureRef
<1>14. UserRef' = UserRef
  BY <1>10 DEF UserRef
<1>15. RefsType'
  BY <1>2, <1>11, TodoSame DEF RefsType
<1>16. ASSUME NEW p \in Queue PROVE threadRefs'[p] = ThreadHolders(p)' /\ streamRefs'[p] = StreamHolders(p)'
  <2>1. PICK h, o, r, w, k \in Int :
           /\ h = HandleRef(p) /\ o = (IF Cuda THEN 0 ELSE OwnerRef(p)) /\ r = Cardinality(ThreadOps(p))
           /\ w = Count("thread", {p}) /\ k = IF p = q /\ kind \in HostKind THEN 1 ELSE 0
    <3>1. HandleRef(p) \in Int /\ OwnerRef(p) \in Int /\ Cardinality(ThreadOps(p)) \in Int /\ Count("thread", {p}) \in Int
      BY PartsNat DEF PartsType
    <3> QED
      BY <3>1
  <2>2. threadRefs[p] = h + o + r + w
    BY <2>1 DEF CountsInv, ThreadHolders
  <2>3. Cardinality(ThreadOps(p))' = r + k
    BY <1>8, <2>1
  <2>4. ThreadHolders(p)' = h + o + (r + k) + w
    BY <1>2, <1>9, <1>13, <2>1, <2>3 DEF ThreadHolders, Cuda
  <2>5. threadRefs'[p] = threadRefs[p] + k
    BY <1>11, <2>1
  <2>6. StreamHolders(p)' = StreamHolders(p)
    BY <1>9, <1>13 DEF StreamHolders
  <2> QED
    BY <1>2, <2>2, <2>4, <2>5, <2>6 DEF CountsInv
<1>17. buffer'.refs = BufferHolders'
  <2>1. PICK u, b, s, w, k \in Int :
           /\ u = UserRef /\ b = Cardinality(BufferOps) /\ s = Cardinality(BufferTasks)
           /\ w = Count("buffer", Queue) /\ k = IF kind = "keepAlive" THEN 1 ELSE 0
    <3>1. UserRef \in Int /\ Cardinality(BufferOps) \in Int /\ Cardinality(BufferTasks) \in Int /\ Count("buffer", Queue) \in Int
      BY PartsNat DEF PartsType
    <3> QED
      BY <3>1
  <2>2. buffer.refs = u + b + s + w
    BY <2>1 DEF CountsInv, BufferHolders
  <2>3. Cardinality(BufferOps)' = b + k /\ Cardinality(BufferTasks)' = s
    BY <1>6, <1>8, <2>1
  <2>4. BufferHolders' = u + (b + k) + s + w
    BY <1>9, <1>14, <2>1, <2>3 DEF BufferHolders
  <2> QED
    BY <1>10, <2>1, <2>2, <2>4
<1> QED
  BY <1>15, <1>16, <1>17 DEF CountsInv

\* The count of a callback thread changes as the number of its holders does.
ThreadBalance(p) ==
    threadRefs'[p] - threadRefs[p]
      = (HandleRef(p)' - HandleRef(p)) + (IF Cuda THEN 0 ELSE OwnerRef(p)' - OwnerRef(p))
        + (Cardinality(ThreadOps(p)') - Cardinality(ThreadOps(p)))
        + (Count("thread", {p})' - Count("thread", {p}))

\* So does the count of a native queue.
StreamBalance(p) ==
    streamRefs'[p] - streamRefs[p]
      = (HandleRef(p)' - HandleRef(p)) + (OwnerRef(p)' - OwnerRef(p))
        + (ClosureRef(p)' - ClosureRef(p)) + (Count("stream", {p})' - Count("stream", {p}))

\* So does the count of the buffer.
BufferBalance ==
    buffer'.refs - buffer.refs
      = (UserRef' - UserRef) + (Cardinality(BufferOps') - Cardinality(BufferOps))
        + (Cardinality(BufferTasks') - Cardinality(BufferTasks))
        + (Count("buffer", Queue)' - Count("buffer", Queue))

\* The counts are right after such a step.
LEMMA CountsStep ==
    ASSUME IndInv, RefsType, CountsInv, program' = program, IndInv', RefsType',
           \A p \in Queue : ThreadBalance(p) /\ StreamBalance(p), BufferBalance
    PROVE  CountsInv'
<1>1. PartsType /\ PartsType'
  BY PartsNat, PartsNatNext DEF IndInv
<1>2. Cuda' <=> Cuda
  BY DEF Cuda
<1>3. ASSUME NEW q \in Queue PROVE threadRefs'[q] = ThreadHolders(q)'
  <2>1. PICK n, h, o, r, w, n2, h2, o2, r2, w2 :
           /\ n = threadRefs[q] /\ n2 = threadRefs'[q]
           /\ h = HandleRef(q) /\ o = OwnerRef(q) /\ r = Cardinality(ThreadOps(q)) /\ w = Count("thread", {q})
           /\ h2 = HandleRef(q)' /\ o2 = OwnerRef(q)' /\ r2 = Cardinality(ThreadOps(q)') /\ w2 = Count("thread", {q})'
    OBVIOUS
  <2> n \in Int /\ n2 \in Int
    BY <2>1 DEF RefsType
  <2> h \in Int /\ o \in Int /\ r \in Int /\ w \in Int
    BY <1>1, <2>1 DEF PartsType
  <2> h2 \in Int /\ o2 \in Int /\ r2 \in Int /\ w2 \in Int
    BY <1>1, <2>1 DEF PartsType
  <2>2. n2 - n = (h2 - h) + (IF Cuda THEN 0 ELSE o2 - o) + (r2 - r) + (w2 - w)
    BY <2>1 DEF ThreadBalance
  <2>3. n = h + (IF Cuda THEN 0 ELSE o) + r + w
    BY <2>1 DEF CountsInv, ThreadHolders
  <2>4. n2 = h2 + (IF Cuda THEN 0 ELSE o2) + r2 + w2
    BY <2>2, <2>3
  <2> QED
    BY <1>2, <2>1, <2>4 DEF ThreadHolders
<1>4. ASSUME NEW q \in Queue PROVE streamRefs'[q] = StreamHolders(q)'
  <2>1. PICK n, h, o, r, w, n2, h2, o2, r2, w2 \in Int :
           /\ n = streamRefs[q] /\ n2 = streamRefs'[q]
           /\ h = HandleRef(q) /\ o = OwnerRef(q) /\ r = ClosureRef(q) /\ w = Count("stream", {q})
           /\ h2 = HandleRef(q)' /\ o2 = OwnerRef(q)' /\ r2 = ClosureRef(q)' /\ w2 = Count("stream", {q})'
    <3>1. streamRefs[q] \in Int /\ HandleRef(q) \in Int /\ OwnerRef(q) \in Int /\ ClosureRef(q) \in Int /\ Count("stream", {q}) \in Int
      BY <1>1 DEF PartsType, RefsType
    <3>2. streamRefs'[q] \in Int /\ HandleRef(q)' \in Int /\ OwnerRef(q)' \in Int /\ ClosureRef(q)' \in Int /\ Count("stream", {q})' \in Int
      BY <1>1 DEF PartsType, RefsType
    <3> QED
      BY <3>1, <3>2
  <2>2. n2 - n = (h2 - h) + (o2 - o) + (r2 - r) + (w2 - w)
    BY <2>1 DEF StreamBalance
  <2>3. n = h + o + r + w
    BY <2>1 DEF CountsInv, StreamHolders
  <2>4. n2 = h2 + o2 + r2 + w2
    BY <2>2, <2>3
  <2> QED
    BY <2>1, <2>4 DEF StreamHolders
<1>5. buffer'.refs = BufferHolders'
  <2>1. PICK n, h, o, r, w, n2, h2, o2, r2, w2 \in Int :
           /\ n = buffer.refs /\ n2 = buffer'.refs
           /\ h = UserRef /\ o = Cardinality(BufferOps) /\ r = Cardinality(BufferTasks) /\ w = Count("buffer", Queue)
           /\ h2 = UserRef' /\ o2 = Cardinality(BufferOps') /\ r2 = Cardinality(BufferTasks')
           /\ w2 = Count("buffer", Queue)'
    <3>1. buffer.refs \in Int /\ UserRef \in Int /\ Cardinality(BufferOps) \in Int /\ Cardinality(BufferTasks) \in Int /\ Count("buffer", Queue) \in Int
      BY <1>1 DEF PartsType, IndInv, TodoInv, BufferType
    <3>2. buffer'.refs \in Int /\ UserRef' \in Int /\ Cardinality(BufferOps') \in Int /\ Cardinality(BufferTasks') \in Int /\ Count("buffer", Queue)' \in Int
      BY <1>1 DEF PartsType, IndInv, TodoInv, BufferType
    <3> QED
      BY <3>1, <3>2
  <2>2. n2 - n = (h2 - h) + (o2 - o) + (r2 - r) + (w2 - w)
    BY <2>1 DEF BufferBalance
  <2>3. n = h + o + r + w
    BY <2>1 DEF CountsInv, BufferHolders
  <2>4. n2 = h2 + o2 + r2 + w2
    BY <2>2, <2>3
  <2> QED
    BY <2>1, <2>4 DEF BufferHolders
<1> QED
  BY <1>3, <1>4, <1>5 DEF CountsInv

\* An operation that is no host function shares nothing.
LEMMA AddedSame ==
    ASSUME CoreInv, NEW q \in Queue, NEW kind, NEW target, NEW after, Added(kind, q, target, after),
           kind \notin HostKind, UNCHANGED <<program, finished, host, tasks>>
    PROVE  SameHolders
<1>1. kind # "keepAlive"
  BY DEF HostKind
<1>2. PICK n : n = NewOp
  OBVIOUS
<1>3. /\ \A p \in Queue : /\ ThreadOps(p)' = ThreadOps(p) \cup (IF p = q /\ kind \in HostKind THEN {n} ELSE {})
                          /\ Closure(p)' <=> Closure(p)
      /\ BufferOps' = BufferOps \cup (IF kind = "keepAlive" THEN {n} ELSE {})
      /\ BufferTasks' = BufferTasks
  BY <1>2, HoldersAdded
<1> QED
  BY <1>1, <1>3 DEF SameHolders

\* The holders are as before where the work is.
LEMMA SameAlways ==
    ASSUME UNCHANGED <<program, op, stream, finished, host, tasks>> PROVE SameHolders
  BY HoldersSame DEF SameHolders

\* Steps that neither take nor drop a reference.
QuietStep ==
    \/ \E q \in Queue : NativeStep(q) \/ HostClosed(q) \/ WorkerRun(q) \/ WorkerSet(q)
    \/ \E t \in Thread :
          \/ \E c \in program.calls : EnqueueEvent(t, c) \/ WaitFor(t, c) \/ Wait(t, c) \/ DestructorWaitFor(t, c)
          \/ SetEvent(t) \/ SetLast(t) \/ Sync(t) \/ Await(t) \/ Return(t)
    \/ UNCHANGED vars

\* A step that neither takes nor drops a reference keeps the counts.
LEMMA QuietCounts ==
    ASSUME IndInv, RefsType, CountsInv, QuietStep
    PROVE  RefsType' /\ CountsInv' /\ SameHolders
<1> USE DEF IndInv
<1>1. ASSUME SameHolders, UNCHANGED <<program, refVars, held>> PROVE RefsType' /\ CountsInv' /\ SameHolders
  <2>1. UNCHANGED <<program, threadRefs, streamRefs, todo, buffer>>
    BY <1>1 DEF refVars
  <2>2. held' \in [Queue -> SUBSET (Thread \cup {None})]
    BY <1>1 DEF RefsType
  <2>3. \A q \in Queue : HandleRef(q)' = HandleRef(q)
    BY <1>1 DEF HandleRef
  <2> QED
    BY <1>1, <2>1, <2>2, <2>3, CountsQuiet
<1>2. ASSUME NEW q \in Queue, NativeStep(q) PROVE RefsType' /\ CountsInv' /\ SameHolders
  <2>1. UNCHANGED <<program, refVars, held>>
    BY <1>2 DEF NativeStep, userVars
  <2> QED
    BY <1>1, <1>2, <2>1, HoldersCompleted
<1>3. ASSUME NEW q \in Queue, HostClosed(q) PROVE RefsType' /\ CountsInv' /\ SameHolders
  <2>1. UNCHANGED <<program, refVars, held>>
    BY <1>3 DEF HostClosed, userVars
  <2> QED
    BY <1>1, <1>3, <2>1, HoldersClosed
<1>4. ASSUME NEW q \in Queue, WorkerRun(q) PROVE RefsType' /\ CountsInv' /\ SameHolders
  <2>1. UNCHANGED <<program, finished, host, tasks, refVars, held>>
    BY <1>4 DEF WorkerRun, userVars
  <2>2. CASE UNCHANGED <<op, stream>>
    BY <1>1, <2>1, <2>2, SameAlways
  <2>3. CASE Enqueue("free", q, 0, {})
    <3>1. "free" \in OpKind /\ "free" \notin HostKind /\ 0 \in Nat /\ {} \in SUBSET Nat
      BY DEF OpKind, HostKind
    <3>2. Added("free", q, 0, {})
      BY <2>3, <3>1, EnqueueEffect DEF CoreInv
    <3>3. SameHolders
      BY <2>1, <3>1, <3>2, AddedSame
    <3> QED
      BY <1>1, <2>1, <3>3
  <2> QED
    BY <1>4, <2>2, <2>3 DEF WorkerRun
<1>5. ASSUME NEW q \in Queue, WorkerSet(q) PROVE RefsType' /\ CountsInv' /\ SameHolders
  <2>1. UNCHANGED <<program, op, stream, finished, host, tasks, refVars, held>>
    BY <1>5 DEF WorkerSet, userVars, nativeVars
  <2> QED
    BY <1>1, <2>1, SameAlways
<1>6. ASSUME NEW t \in Thread, NEW c \in program.calls, EnqueueEvent(t, c) PROVE RefsType' /\ CountsInv' /\ SameHolders
  <2>1. UNCHANGED <<program, finished, host, tasks, refVars, held>>
    BY <1>6 DEF EnqueueEvent, callbackVars
  <2>2. PICK q, kind, after : q = c.q /\ kind = c.call /\ after = Before(c.q, "event")
    OBVIOUS
  <2>3. /\ Begin(t, c) /\ kind = "event" /\ kind \in OpKind /\ kind \notin HostKind
        /\ Enqueue(kind, q, 0, after)
        /\ 0 \in Nat /\ {} \in SUBSET Nat /\ after = Before(q, kind) \cup {}
    BY <1>6, <2>2 DEF EnqueueEvent, OpKind, HostKind
  <2>4. q \in Queue /\ Added(kind, q, 0, after)
    BY <2>2, <2>3, SubmitAdded
  <2> QED
    BY <1>1, <2>1, <2>3, <2>4, AddedSame
<1>7. ASSUME NEW t \in Thread, NEW c \in program.calls, WaitFor(t, c) PROVE RefsType' /\ CountsInv' /\ SameHolders
  <2>1. UNCHANGED <<program, finished, host, tasks, refVars, held>>
    BY <1>7 DEF WaitFor, callbackVars
  <2>2. PICK q, kind, cover, target, after :
           q = c.q /\ kind = c.call /\ cover = event[c.e].cover /\ target = event[c.e].op
           /\ after = Before(c.q, "waitFor") \cup event[c.e].cover
    OBVIOUS
  <2>3. /\ Begin(t, c) /\ kind = "waitFor" /\ kind \in OpKind /\ kind \notin HostKind
        /\ Enqueue(kind, q, target, after) /\ after = Before(q, kind) \cup cover
    BY <1>7, <2>2 DEF WaitFor, OpKind, HostKind
  <2>4. c.e \in Event
    BY <2>2, <2>3, BeginFacts
  <2>5. target \in Nat /\ cover \in SUBSET Nat
    BY <2>2, <2>4 DEF UserInv, UserType
  <2>6. q \in Queue /\ Added(kind, q, target, after)
    BY <2>2, <2>3, <2>5, SubmitAdded
  <2> QED
    BY <1>1, <2>1, <2>3, <2>6, AddedSame
<1>8. ASSUME NEW t \in Thread, NEW c \in program.calls, Wait(t, c) PROVE RefsType' /\ CountsInv' /\ SameHolders
  <2>1. UNCHANGED <<program, op, stream, finished, host, tasks, refVars, held>>
    BY <1>8 DEF Wait, callbackVars, nativeVars
  <2> QED
    BY <1>1, <2>1, SameAlways
<1>9. ASSUME NEW t \in Thread, NEW c \in program.calls, DestructorWaitFor(t, c)
      PROVE  RefsType' /\ CountsInv' /\ SameHolders
  <2>1. UNCHANGED <<program, op, stream, finished, host, tasks, threadRefs, streamRefs, todo>>
    BY <1>9 DEF DestructorWaitFor, callbackVars, nativeVars
  <2>2. c.q \in Queue
    BY <1>9, BeginFacts DEF DestructorWaitFor
  <2>3. PICK q \in Queue : q = c.q
    BY <2>2
  <2>4. /\ held' = [held EXCEPT ![q] = @ \cup {None}] /\ t \in held[q]
        /\ buffer' = [buffer EXCEPT !.waits = q]
    BY <1>9, <2>3 DEF DestructorWaitFor
  <2>5. buffer'.q = buffer.q /\ buffer'.refs = buffer.refs /\ buffer'.user = buffer.user
    BY <2>4 DEF TodoInv, BufferType
  <2>6. held' \in [Queue -> SUBSET (Thread \cup {None})]
    BY <2>4 DEF RefsType
  <2>7. \A p \in Queue : HandleRef(p)' = HandleRef(p)
    BY <2>4 DEF RefsType, HandleRef
  <2> QED
    BY <2>1, <2>5, <2>6, <2>7, SameAlways, CountsQuiet
<1>10. ASSUME NEW t \in Thread, SetEvent(t) \/ SetLast(t) \/ Sync(t) \/ Await(t) \/ Return(t)
       PROVE  RefsType' /\ CountsInv' /\ SameHolders
  <2>1. UNCHANGED <<program, op, stream, finished, host, tasks, refVars, held>>
    BY <1>10 DEF SetEvent, SetLast, Sync, Await, Return, callbackVars, nativeVars
  <2> QED
    BY <1>1, <2>1, SameAlways
<1>11. CASE UNCHANGED vars
  <2>1. UNCHANGED <<program, op, stream, finished, host, tasks, refVars, held>>
    BY <1>11 DEF vars, callbackVars, nativeVars, userVars
  <2> QED
    BY <1>1, <2>1, SameAlways
<1> QED
  BY <1>2, <1>3, <1>4, <1>5, <1>6, <1>7, <1>8, <1>9, <1>10, <1>11 DEF QuietStep

\* A buffer that somebody holds is alive.
LEMMA BufferAlive ==
    ASSUME IndInv, RefsType, CountsInv,
           buffer.user \/ BufferOps # {} \/ BufferTasks # {} \/ Count("buffer", Queue) # 0
    PROVE  buffer.refs >= 1
<1>1. PICK u, b, s, w : /\ u = UserRef /\ b = Cardinality(BufferOps) /\ s = Cardinality(BufferTasks)
                        /\ w = Count("buffer", Queue)
  OBVIOUS
<1>2. u \in Nat /\ b \in Nat /\ s \in Nat /\ w \in Nat
  BY <1>1, PartsNat DEF PartsType, IndInv
<1>3. buffer.user => u = 1
  BY <1>1 DEF UserRef
<1>4. (BufferOps # {} => b # 0) /\ (BufferTasks # {} => s # 0)
  <2>1. IsFiniteSet(BufferOps) /\ IsFiniteSet(BufferTasks)
    BY OpsFinite DEF IndInv
  <2> QED
    BY <1>1, <2>1, FS_EmptySet
<1>5. buffer.refs = u + b + s + w
  BY <1>1 DEF CountsInv, BufferHolders
<1> QED
  BY <1>1, <1>2, <1>3, <1>4, <1>5

\* Its owner holds the queue's resources before and after.
LEMMA OwnerSame ==
    ASSUME NEW q, buffer'.q = buffer.q, buffer'.refs # 0 <=> buffer.refs # 0
    PROVE  OwnerRef(q)' = OwnerRef(q)
  BY DEF OwnerRef, BufferOf

\* The deleter of the buffer shares the native queue and, with SYCL, the callback thread.
LEMMA AllocCounts ==
    ASSUME IndInv, IndInv', RefsType, CountsInv, NEW t \in Thread, NEW c, Alloc(t, c)
    PROVE  RefsType' /\ CountsInv' /\ SameHolders
<1> USE DEF IndInv
<1>1. PICK q : q = c.q
  OBVIOUS
<1>2. /\ Begin(t, c) /\ buffer.q = None
      /\ buffer' = [q |-> q, refs |-> 1, user |-> TRUE, waits |-> None, cover |-> {}]
      /\ streamRefs' = [streamRefs EXCEPT ![q] = @ + 1]
      /\ IF Cuda THEN Enqueue("alloc", q, 0, Before(q, "alloc")) /\ UNCHANGED threadRefs
                 ELSE threadRefs' = [threadRefs EXCEPT ![q] = @ + 1] /\ UNCHANGED <<op, stream>>
      /\ UNCHANGED <<program, finished, host, tasks, todo, held>>
      /\ c.call = "alloc"
  BY <1>1 DEF Alloc, callbackVars
<1>3. q \in Queue
  BY <1>1, <1>2, BeginFacts
<1>4. SameHolders
  <2>1. CASE Cuda
    <3>1. PICK after : after = Before(q, "alloc")
      OBVIOUS
    <3>2. Added("alloc", q, 0, after)
      <4>1. "alloc" \in OpKind /\ {} \in SUBSET Nat /\ 0 \in Nat /\ after = Before(q, "alloc") \cup {}
        BY <3>1 DEF OpKind
      <4> QED
        BY <1>1, <1>2, <2>1, <3>1, <4>1, SubmitAdded
    <3>3. "alloc" \notin HostKind
      BY DEF HostKind
    <3> QED
      BY <1>2, <1>3, <3>2, <3>3, AddedSame
  <2>2. CASE ~Cuda
    BY <1>2, <2>2, SameAlways
  <2> QED
    BY <2>1, <2>2
<1>5. Count("buffer", Queue) = 0
  <2>1. ASSUME NEW a \in Actor, NEW n \in DueOf(todo[a], "buffer", Queue) PROVE FALSE
    <3>1. PICK s \in Seq(Refs) : s = todo[a]
      BY DEF TodoInv
    <3>2. n \in 1..Len(s) /\ s[Len(s) + 1 - n].what = "buffer"
      BY <2>1, <3>1 DEF DueOf, IsRef
    <3>3. Len(s) + 1 - n \in 1..Len(s)
      <4>1. Len(s) \in Nat
        BY <3>1
      <4> QED
        BY <3>2, <4>1
    <3>4. s[Len(s) + 1 - n] \in Refs
      BY <3>1, <3>3
    <3> QED
      BY <1>2, <3>2, <3>4 DEF Refs
  <2>2. Tokens(todo, "buffer", Queue) = {}
    BY <2>1 DEF Tokens
  <2> QED
    BY <2>2, FS_EmptySet DEF Count
<1>6. ~buffer.user /\ BufferOps = {} /\ BufferTasks = {}
  BY <1>2 DEF TodoInv, BufferOps, BufferTasks
<1>7. buffer.refs = 0 /\ UserRef = 0
  <2>1. Cardinality(BufferOps) = 0 /\ Cardinality(BufferTasks) = 0
    BY <1>6, FS_EmptySet
  <2>2. UserRef = 0
    BY <1>6 DEF UserRef
  <2>3. buffer.refs = 0 + 0 + 0 + 0
    BY <1>5, <2>1, <2>2 DEF CountsInv, BufferHolders
  <2> QED
    BY <2>2, <2>3
<1>8. \A what, Q : Count(what, Q)' = Count(what, Q)
  BY <1>2, TodoSame
<1>9. RefsType'
  <2>1. streamRefs' \in [Queue -> Int] /\ threadRefs' \in [Queue -> Int]
    BY <1>2, <1>3 DEF RefsType
  <2> QED
    BY <1>2, <2>1, TodoSame DEF RefsType
<1>10. PartsType
  BY PartsNat
<1>11. ASSUME NEW p \in Queue PROVE ThreadBalance(p) /\ StreamBalance(p)
  <2>1. PICK k \in Int : k = IF p = q THEN 1 ELSE 0
    OBVIOUS
  <2>2. OwnerRef(p) = 0 /\ OwnerRef(p)' = k
    BY <1>2, <1>3, <1>7, <2>1, NativeQueueAssumption DEF OwnerRef, BufferOf
  <2>3. HandleRef(p)' = HandleRef(p) /\ ClosureRef(p)' = ClosureRef(p)
    BY <1>2, <1>4 DEF HandleRef, ClosureRef, SameHolders
  <2>4. streamRefs'[p] = streamRefs[p] + k /\ threadRefs'[p] = threadRefs[p] + (IF Cuda THEN 0 ELSE k)
    BY <1>2, <1>3, <2>1 DEF RefsType
  <2>5. Cardinality(ThreadOps(p)') = Cardinality(ThreadOps(p))
    BY <1>4 DEF SameHolders
  <2>6. /\ HandleRef(p) \in Int /\ ClosureRef(p) \in Int /\ Cardinality(ThreadOps(p)) \in Int
        /\ Count("thread", {p}) \in Int /\ Count("stream", {p}) \in Int
    BY <1>10 DEF PartsType
  <2>7. threadRefs[p] \in Int /\ streamRefs[p] \in Int
    BY DEF RefsType
  <2>8. ThreadBalance(p)
    BY <1>8, <2>2, <2>3, <2>4, <2>5, <2>6, <2>7 DEF ThreadBalance
  <2>9. StreamBalance(p)
    BY <1>8, <2>2, <2>3, <2>4, <2>6, <2>7 DEF StreamBalance
  <2> QED
    BY <2>8, <2>9
<1>12. BufferBalance
  <2>1. UserRef' = 1 /\ buffer'.refs = 1
    BY <1>2 DEF UserRef
  <2>2. BufferOps' = BufferOps /\ BufferTasks' = BufferTasks
    BY <1>4 DEF SameHolders
  <2>3. Cardinality(BufferOps) \in Int /\ Cardinality(BufferTasks) \in Int
    BY <1>10 DEF PartsType
  <2> QED
    BY <1>5, <1>7, <1>8, <2>1, <2>2, <2>3 DEF BufferBalance
<1> QED
  BY <1>2, <1>4, <1>9, <1>11, <1>12, CountsStep

\* The task of SYCL's host function shares a kept buffer; CUDA's has it instead.
LEMMA HostBeginCounts ==
    ASSUME IndInv, IndInv', RefsType, CountsInv, NEW q \in Queue, HostBegin(q)
    PROVE  RefsType' /\ CountsInv'
<1> USE DEF IndInv
<1>1. PICK h : h = HeadOf(q)
  OBVIOUS
<1>2. /\ h \in Op
      /\ \A p \in Queue : ThreadOps(p)' = ThreadOps(p) /\ (Closure(p)' <=> Closure(p))
      /\ BufferOps' = BufferOps \ (IF Cuda THEN {h} ELSE {})
      /\ BufferTasks' = BufferTasks \cup (IF op[h].kind = "keepAlive" THEN {h} ELSE {})
      /\ op[h].kind = "keepAlive" => h \in BufferOps
      /\ h \notin BufferTasks
  BY <1>1, HoldersBegun
<1>3. /\ UNCHANGED <<program, threadRefs, streamRefs, todo, held>>
      /\ buffer' = IF ~Cuda /\ op[h].kind = "keepAlive" THEN [buffer EXCEPT !.refs = @ + 1] ELSE buffer
  BY <1>1 DEF HostBegin, userVars
<1>4. PICK k, d \in Int : /\ k = (IF ~Cuda /\ op[h].kind = "keepAlive" THEN 1 ELSE 0)
                          /\ d = (IF op[h].kind = "keepAlive" THEN 1 ELSE 0)
  OBVIOUS
<1>5. /\ buffer.refs \in Int /\ buffer'.refs = buffer.refs + k
      /\ buffer'.q = buffer.q /\ buffer'.user = buffer.user
  BY <1>3, <1>4 DEF TodoInv, BufferType
<1>6. k # 0 => buffer.refs >= 1
  BY <1>2, <1>4, BufferAlive
<1>7. \A p \in Queue : OwnerRef(p)' = OwnerRef(p)
  <2>1. buffer'.refs # 0 <=> buffer.refs # 0
    BY <1>4, <1>5, <1>6
  <2> QED
    BY <1>5, <2>1, OwnerSame
<1>8. \A what, Q : Count(what, Q)' = Count(what, Q)
  BY <1>3, TodoSame
<1>9. RefsType'
  BY <1>3, TodoSame DEF RefsType
<1>10. PartsType
  BY PartsNat
<1>11. ASSUME NEW p \in Queue PROVE ThreadBalance(p) /\ StreamBalance(p)
  <2>1. HandleRef(p)' = HandleRef(p) /\ ClosureRef(p)' = ClosureRef(p) /\ OwnerRef(p)' = OwnerRef(p)
    BY <1>2, <1>3, <1>7 DEF HandleRef, ClosureRef
  <2>2. Cardinality(ThreadOps(p)') = Cardinality(ThreadOps(p))
    BY <1>2
  <2>3. /\ HandleRef(p) \in Int /\ ClosureRef(p) \in Int /\ Cardinality(ThreadOps(p)) \in Int /\ OwnerRef(p) \in Int
        /\ Count("thread", {p}) \in Int /\ Count("stream", {p}) \in Int
    BY <1>10 DEF PartsType
  <2>4. threadRefs[p] \in Int /\ streamRefs[p] \in Int
    BY DEF RefsType
  <2> QED
    BY <1>3, <1>8, <2>1, <2>2, <2>3, <2>4 DEF ThreadBalance, StreamBalance
<1>12. BufferBalance
  <2>1. IsFiniteSet(BufferOps) /\ IsFiniteSet(BufferTasks)
    BY OpsFinite
  <2>2. Cardinality(BufferOps') = Cardinality(BufferOps) - (d - k)
    <3>1. CASE Cuda /\ op[h].kind = "keepAlive"
      <4>1. Cardinality(BufferOps') = Cardinality(BufferOps) - 1
        BY <1>2, <2>1, <3>1, OneLess
      <4> QED
        BY <1>4, <3>1, <4>1
    <3>2. CASE ~(Cuda /\ op[h].kind = "keepAlive")
      <4>1. BufferOps' = BufferOps
        BY <1>2, <3>2 DEF BufferOps
      <4>2. d = k /\ Cardinality(BufferOps) \in Int
        BY <1>4, <1>10, <3>2 DEF PartsType
      <4> QED
        BY <4>1, <4>2
    <3> QED
      BY <3>1, <3>2
  <2>3. Cardinality(BufferTasks') = Cardinality(BufferTasks) + d
    <3>1. CASE op[h].kind = "keepAlive"
      BY <1>2, <1>4, <2>1, <3>1, OneMore
    <3>2. CASE op[h].kind # "keepAlive"
      <4>1. BufferTasks' = BufferTasks
        BY <1>2, <3>2
      <4> QED
        BY <1>4, <1>10, <3>2, <4>1 DEF PartsType
    <3> QED
      BY <3>1, <3>2
  <2>4. UserRef' = UserRef
    BY <1>5 DEF UserRef
  <2>5. UserRef \in Int /\ Cardinality(BufferOps) \in Int /\ Cardinality(BufferTasks) \in Int /\ Count("buffer", Queue) \in Int
    BY <1>10 DEF PartsType
  <2> QED
    BY <1>5, <1>8, <2>2, <2>3, <2>4, <2>5 DEF BufferBalance
<1> QED
  BY <1>3, <1>9, <1>11, <1>12, CountsStep

\* The references.
LEMMA RefTyped ==
    ASSUME NEW q \in Queue
    PROVE  /\ Ref("buffer", q) \in RefType /\ Ref("thread", q) \in RefType /\ Ref("stream", q) \in RefType
           /\ Ref("wait", q) \in RefType /\ Ref("deleter", q) \in RefType /\ Ref("handle", q) \in RefType
           /\ \A what : Ref(what, q).what = what /\ Ref(what, q).q = q
  BY DEF Ref, RefType

\* What the references that the code drops together add to what is to be destroyed.
LEMMA GivesRefs ==
    ASSUME NEW q \in Queue
    PROVE  /\ Gives(<<Ref("buffer", q)>>, q, 0, 0, 1)
           /\ Gives(<<Ref("thread", q)>>, q, 1, 0, 0)
           /\ Gives(<<Ref("stream", q)>>, q, 0, 1, 0)
           /\ Gives(<<Ref("thread", q), Ref("stream", q)>>, q, 1, 1, 0)
           /\ Gives(<<Ref("stream", q), Ref("thread", q)>>, q, 1, 1, 0)
           /\ Gives(<<Ref("buffer", q), Ref("thread", q)>>, q, 1, 0, 1)
<1>1. PICK b, t, s \in RefType : /\ b = Ref("buffer", q) /\ t = Ref("thread", q) /\ s = Ref("stream", q)
                                 /\ b.what = "buffer" /\ t.what = "thread" /\ s.what = "stream"
                                 /\ b.q = q /\ t.q = q /\ s.q = q
  BY RefTyped
<1>2. Gives(<<b>>, q, 0, 0, 1)
  BY <1>1, GivesOne
<1>3. Gives(<<t>>, q, 1, 0, 0)
  BY <1>1, GivesOne
<1>4. Gives(<<s>>, q, 0, 1, 0)
  BY <1>1, GivesOne
<1>5. Gives(<<t>> \o <<s>>, q, 1 + 0, 0 + 1, 0 + 0)
  BY <1>3, <1>4, GivesBoth
<1>6. Gives(<<s>> \o <<t>>, q, 0 + 1, 1 + 0, 0 + 0)
  BY <1>3, <1>4, GivesBoth
<1>7. Gives(<<b>> \o <<t>>, q, 0 + 1, 0 + 0, 1 + 0)
  BY <1>2, <1>3, GivesBoth
<1>8. ASSUME NEW x \in RefType, NEW y \in RefType PROVE <<x>> \o <<y>> = <<x, y>>
  <2>1. PICK R : R = RefType
    OBVIOUS
  <2>2. PICK z : z = <<x>> \o <<y>>
    OBVIOUS
  <2>3. <<x>> \in Seq(R) /\ <<y>> \in Seq(R) /\ Len(<<x>>) = 1 /\ Len(<<y>>) = 1
    BY <2>1
  <2>4. z \in Seq(R) /\ Len(z) = 2 /\ z[1] = x /\ z[2] = y
    BY <2>2, <2>3
  <2>5. <<x, y>> \in Seq(R) /\ Len(<<x, y>>) = 2
    BY <2>1
  <2>6. \A k \in 1..2 : z[k] = <<x, y>>[k]
    BY <2>4
  <2>7. z = <<x, y>>
    BY <2>4, <2>5, <2>6, SeqEqual
  <2> QED
    BY <2>2, <2>7
<1>9. Gives(<<t, s>>, q, 1, 1, 0) /\ Gives(<<s, t>>, q, 1, 1, 0) /\ Gives(<<b, t>>, q, 1, 0, 1)
  <2>1. <<t>> \o <<s>> = <<t, s>> /\ <<s>> \o <<t>> = <<s, t>> /\ <<b>> \o <<t>> = <<b, t>>
    BY <1>8
  <2>2. 1 + 0 = 1 /\ 0 + 1 = 1 /\ 0 + 0 = 0
    OBVIOUS
  <2>3. Gives(<<t, s>>, q, 1, 1, 0)
    BY <1>5, <2>1, <2>2, Zenon
  <2>4. Gives(<<s, t>>, q, 1, 1, 0)
    BY <1>6, <2>1, <2>2, Zenon
  <2>5. Gives(<<b, t>>, q, 1, 0, 1)
    BY <1>7, <2>1, <2>2, Zenon
  <2> QED
    BY <2>3, <2>4, <2>5
<1> QED
  BY <1>1, <1>2, <1>3, <1>4, <1>9

\* The runtime has the references of the host function that returned.
LEMMA HostReturnCounts ==
    ASSUME IndInv, IndInv', RefsType, IdleInv, CountsInv, NEW q \in Queue, HostReturn(q)
    PROVE  RefsType' /\ CountsInv'
<1> USE DEF IndInv
<1>1. PICK h : h = HeadOf(q)
  OBVIOUS
<1>2. /\ \A p \in Queue : /\ ThreadOps(p)' = ThreadOps(p) \ (IF p = q THEN {h} ELSE {})
                          /\ (Closure(p)' <=> Closure(p))
      /\ h \in ThreadOps(q)
      /\ BufferOps' = BufferOps \ (IF Cuda THEN {} ELSE {h})
      /\ ~Cuda => (op[h].kind = "keepAlive" <=> h \in BufferOps)
      /\ BufferTasks' = BufferTasks
  BY <1>1, HoldersReturned
<1>3. PICK a, s : a = Host(q) /\ s = HostRefs(q)
  OBVIOUS
<1>4. /\ UNCHANGED <<program, threadRefs, streamRefs, buffer, held>>
      /\ todo' = With(todo, a, s) /\ todo[a] = <<>> /\ a \in Actor
  BY <1>3 DEF HostReturn, userVars, With, IdleInv, Host, Actor
<1>5. PICK d \in Nat : d = (IF ~Cuda /\ op[h].kind = "keepAlive" THEN 1 ELSE 0)
  OBVIOUS
<1>6. Gives(s, q, 1, 0, d)
  BY <1>1, <1>3, <1>5, GivesRefs DEF HostRefs
<1>7. /\ FiniteTokens(todo')
      /\ \A p \in Queue :
            /\ Count("thread", {p})' = Count("thread", {p}) + (IF p = q THEN 1 ELSE 0)
            /\ Count("stream", {p})' = Count("stream", {p}) + (IF p = q THEN 0 ELSE 0)
      /\ Count("buffer", Queue)' = Count("buffer", Queue) + d
  BY <1>4, <1>6, Given DEF RefsType
<1>8. RefsType'
  BY <1>4, <1>7 DEF RefsType
<1>9. PartsType
  BY PartsNat
<1>10. ASSUME NEW p \in Queue PROVE ThreadBalance(p) /\ StreamBalance(p)
  <2>1. PICK k \in Int : k = IF p = q THEN 1 ELSE 0
    OBVIOUS
  <2>2. /\ HandleRef(p)' = HandleRef(p) /\ OwnerRef(p)' = OwnerRef(p) /\ ClosureRef(p)' = ClosureRef(p)
        /\ threadRefs'[p] = threadRefs[p] /\ streamRefs'[p] = streamRefs[p]
    BY <1>2, <1>4 DEF HandleRef, OwnerRef, BufferOf, ClosureRef
  <2>3. /\ HandleRef(p) \in Int /\ ClosureRef(p) \in Int /\ Cardinality(ThreadOps(p)) \in Int /\ OwnerRef(p) \in Int
        /\ Count("thread", {p}) \in Int /\ Count("stream", {p}) \in Int
    BY <1>9 DEF PartsType
  <2>4. threadRefs[p] \in Int /\ streamRefs[p] \in Int
    BY DEF RefsType
  <2>5. Cardinality(ThreadOps(p)') = Cardinality(ThreadOps(p)) - k
    <3>1. CASE p = q
      <4>1. IsFiniteSet(ThreadOps(q))
        BY OpsFinite
      <4>2. ThreadOps(q)' = ThreadOps(q) \ {h} /\ h \in ThreadOps(q)
        BY <1>2
      <4>3. Cardinality(ThreadOps(q)') = Cardinality(ThreadOps(q)) - 1
        BY <4>1, <4>2, OneLess
      <4> QED
        BY <2>1, <3>1, <4>3
    <3>2. CASE p # q
      <4>1. ThreadOps(p)' = ThreadOps(p)
        BY <1>2, <3>2
      <4> QED
        BY <2>1, <2>3, <3>2, <4>1
    <3> QED
      BY <3>1, <3>2
  <2>6. Count("thread", {p})' = Count("thread", {p}) + k /\ Count("stream", {p})' = Count("stream", {p})
    BY <1>7, <2>1, <2>3
  <2>7. ThreadBalance(p)
    BY <2>2, <2>3, <2>4, <2>5, <2>6 DEF ThreadBalance
  <2>8. StreamBalance(p)
    BY <2>2, <2>3, <2>4, <2>6 DEF StreamBalance
  <2> QED
    BY <2>7, <2>8
<1>11. BufferBalance
  <2>1. UserRef \in Int /\ Cardinality(BufferOps) \in Int /\ Cardinality(BufferTasks) \in Int /\ Count("buffer", Queue) \in Int
    BY <1>9 DEF PartsType
  <2>2. Cardinality(BufferOps') = Cardinality(BufferOps) - d
    <3>1. IsFiniteSet(BufferOps)
      BY OpsFinite
    <3>2. CASE ~Cuda /\ op[h].kind = "keepAlive"
      <4>1. Cardinality(BufferOps') = Cardinality(BufferOps) - 1
        BY <1>2, <3>1, <3>2, OneLess
      <4> QED
        BY <1>5, <3>2, <4>1
    <3>3. CASE ~(~Cuda /\ op[h].kind = "keepAlive")
      <4>1. BufferOps' = BufferOps
        BY <1>2, <3>3
      <4> QED
        BY <1>5, <2>1, <3>3, <4>1
    <3> QED
      BY <3>2, <3>3
  <2>3. UserRef' = UserRef /\ buffer'.refs = buffer.refs /\ buffer.refs \in Int
    BY <1>4 DEF UserRef, TodoInv, BufferType
  <2> QED
    BY <1>2, <1>7, <2>1, <2>2, <2>3 DEF BufferBalance
<1> QED
  BY <1>4, <1>8, <1>10, <1>11, CountsStep

\* The callback thread has the references of the task that it popped.
LEMMA WorkerPopCounts ==
    ASSUME IndInv, IndInv', RefsType, IdleInv, CountsInv, NEW q \in Queue, OneClosure(q), WorkerPop(q)
    PROVE  RefsType' /\ CountsInv'
<1> USE DEF IndInv
<1>1. PICK x : x = current[q]
  OBVIOUS
<1>2. /\ \A p \in Queue : ThreadOps(p)' = ThreadOps(p)
      /\ \A p \in Queue : IF p = q /\ x = FreeClosure THEN Closure(p) /\ ~Closure(p)'
                          ELSE Closure(p)' <=> Closure(p)
      /\ BufferOps' = BufferOps
      /\ BufferTasks' = BufferTasks \ {x}
      /\ x # FreeClosure => (op[x].kind = "keepAlive" <=> x \in BufferTasks)
  BY <1>1, HoldersPopped
<1>3. PICK a, s : a = Worker(q) /\ s = ClosureRefs(q)
  OBVIOUS
<1>4. /\ UNCHANGED <<program, threadRefs, streamRefs, buffer, held>>
      /\ todo' = With(todo, a, s) /\ todo[a] = <<>> /\ a \in Actor
  BY <1>3 DEF WorkerPop, nativeVars, userVars, With, IdleInv, Worker, Actor
<1>5. PICK d, e \in Nat : /\ d = (IF x # FreeClosure /\ op[x].kind = "keepAlive" THEN 1 ELSE 0)
                          /\ e = (IF x = FreeClosure THEN 1 ELSE 0)
  OBVIOUS
<1>6. Gives(s, q, 0, e, d)
  <2>1. CASE x = FreeClosure
    <3>1. s = <<Ref("stream", q)>> /\ d = 0 /\ e = 1
      BY <1>1, <1>3, <1>5, <2>1 DEF ClosureRefs
    <3> QED
      BY <3>1, GivesRefs
  <2>2. CASE x # FreeClosure /\ op[x].kind = "keepAlive"
    <3>1. s = <<Ref("buffer", q)>> /\ d = 1 /\ e = 0
      BY <1>1, <1>3, <1>5, <2>2 DEF ClosureRefs
    <3> QED
      BY <3>1, GivesRefs
  <2>3. CASE x # FreeClosure /\ op[x].kind # "keepAlive"
    <3>1. s = <<>> /\ d = 0 /\ e = 0
      BY <1>1, <1>3, <1>5, <2>3 DEF ClosureRefs
    <3> QED
      BY <3>1, GivesNone
  <2> QED
    BY <2>1, <2>2, <2>3
<1>7. /\ FiniteTokens(todo')
      /\ \A p \in Queue :
            /\ Count("thread", {p})' = Count("thread", {p}) + (IF p = q THEN 0 ELSE 0)
            /\ Count("stream", {p})' = Count("stream", {p}) + (IF p = q THEN e ELSE 0)
      /\ Count("buffer", Queue)' = Count("buffer", Queue) + d
  <2>1. TodoInv /\ FiniteTokens(todo)
    BY DEF RefsType
  <2>2. PICK z : z = 0 /\ Gives(s, q, z, e, d)
    BY <1>6
  <2> QED
    BY <1>4, <2>1, <2>2, Given
<1>8. RefsType'
  BY <1>4, <1>7 DEF RefsType
<1>9. PartsType
  BY PartsNat
<1>10. ASSUME NEW p \in Queue PROVE ThreadBalance(p) /\ StreamBalance(p)
  <2>1. PICK k \in Int : k = IF p = q THEN e ELSE 0
    OBVIOUS
  <2>2. /\ HandleRef(p)' = HandleRef(p) /\ OwnerRef(p)' = OwnerRef(p)
        /\ threadRefs'[p] = threadRefs[p] /\ streamRefs'[p] = streamRefs[p]
    BY <1>4 DEF HandleRef, OwnerRef, BufferOf
  <2>3. /\ HandleRef(p) \in Int /\ ClosureRef(p) \in Int /\ Cardinality(ThreadOps(p)) \in Int /\ OwnerRef(p) \in Int
        /\ Count("thread", {p}) \in Int /\ Count("stream", {p}) \in Int
    BY <1>9 DEF PartsType
  <2>4. threadRefs[p] \in Int /\ streamRefs[p] \in Int
    BY DEF RefsType
  <2>5. ClosureRef(p)' = ClosureRef(p) - k
    <3>1. CASE p = q /\ x = FreeClosure
      BY <1>2, <1>5, <2>1, <3>1 DEF ClosureRef
    <3>2. CASE ~(p = q /\ x = FreeClosure)
      <4>1. (Closure(p)' <=> Closure(p)) /\ k = 0
        BY <1>2, <1>5, <2>1, <3>2
      <4>2. ClosureRef(p)' = ClosureRef(p)
        BY <4>1 DEF ClosureRef
      <4> QED
        BY <2>3, <4>1, <4>2
    <3> QED
      BY <3>1, <3>2
  <2>6. /\ Count("thread", {p})' = Count("thread", {p}) /\ Count("stream", {p})' = Count("stream", {p}) + k
        /\ Cardinality(ThreadOps(p)') = Cardinality(ThreadOps(p))
    BY <1>2, <1>7, <2>1, <2>3
  <2>7. ThreadBalance(p)
    BY <2>2, <2>3, <2>4, <2>6 DEF ThreadBalance
  <2>8. StreamBalance(p)
    BY <2>1, <2>2, <2>3, <2>4, <2>5, <2>6 DEF StreamBalance
  <2> QED
    BY <2>7, <2>8
<1>11. BufferBalance
  <2>1. UserRef \in Int /\ Cardinality(BufferOps) \in Int /\ Cardinality(BufferTasks) \in Int /\ Count("buffer", Queue) \in Int
    BY <1>9 DEF PartsType
  <2>2. Cardinality(BufferTasks') = Cardinality(BufferTasks) - d
    <3>1. IsFiniteSet(BufferTasks)
      BY OpsFinite
    <3>2. CASE x # FreeClosure /\ op[x].kind = "keepAlive"
      <4>1. Cardinality(BufferTasks') = Cardinality(BufferTasks) - 1
        BY <1>2, <3>1, <3>2, OneLess
      <4> QED
        BY <1>5, <3>2, <4>1
    <3>3. CASE ~(x # FreeClosure /\ op[x].kind = "keepAlive")
      <4>1. x \notin BufferTasks
        BY <1>2, <3>3 DEF BufferTasks, FreeClosure, Op
      <4>2. BufferTasks' = BufferTasks
        BY <1>2, <4>1
      <4> QED
        BY <1>5, <2>1, <3>3, <4>2
    <3> QED
      BY <3>2, <3>3
  <2>3. UserRef' = UserRef /\ buffer'.refs = buffer.refs /\ buffer.refs \in Int
    BY <1>4 DEF UserRef, TodoInv, BufferType
  <2> QED
    BY <1>2, <1>7, <2>1, <2>2, <2>3 DEF BufferBalance
<1> QED
  BY <1>4, <1>8, <1>10, <1>11, CountsStep

\* Whoever drops the last handle has the references of the queue.
LEMMA HandleDropped ==
    ASSUME RefsType, NEW q \in Queue, NEW x, held' = [held EXCEPT ![q] = @ \ {x}],
           NEW s, s = QueueRefs(q, x)
    PROVE  \E d \in Nat : /\ Gives(s, q, d, d, 0)
                          /\ HandleRef(q)' = HandleRef(q) - d
                          /\ \A p \in Queue \ {q} : HandleRef(p)' = HandleRef(p)
                          /\ held' \in [Queue -> SUBSET (Thread \cup {None})]
<1>1. /\ held \in [Queue -> SUBSET (Thread \cup {None})]
      /\ held'[q] = held[q] \ {x} /\ \A p \in Queue \ {q} : held'[p] = held[p]
  BY DEF RefsType
<1>2. held' \in [Queue -> SUBSET (Thread \cup {None})] /\ \A p \in Queue \ {q} : HandleRef(p)' = HandleRef(p)
  BY <1>1 DEF HandleRef
<1>3. CASE held[q] = {x}
  <2>1. s = <<Ref("thread", q), Ref("stream", q)>>
    BY <1>3 DEF QueueRefs
  <2>2. Gives(s, q, 1, 1, 0)
    BY <2>1, GivesRefs
  <2>3. HandleRef(q)' = HandleRef(q) - 1
    <3>1. HandleRef(q)' = 0
      BY <1>1, <1>3 DEF HandleRef
    <3>2. HandleRef(q) = 1
      BY <1>3 DEF HandleRef
    <3> QED
      BY <3>1, <3>2
  <2> QED
    BY <1>2, <2>2, <2>3
<1>4. CASE held[q] # {x}
  <2>1. s = <<>>
    BY <1>4 DEF QueueRefs
  <2>2. Gives(s, q, 0, 0, 0)
    BY <2>1, GivesNone
  <2>3. HandleRef(q)' = HandleRef(q) - 0
    BY <1>1, <1>4 DEF HandleRef
  <2> QED
    BY <1>2, <2>2, <2>3
<1> QED
  BY <1>3, <1>4

\* The user's reference of the buffer.
LEMMA DropBufferCounts ==
    ASSUME IndInv, IndInv', RefsType, IdleInv, CountsInv, NEW t \in Thread, NEW c, DropBuffer(t, c)
    PROVE  RefsType' /\ CountsInv' /\ SameHolders
<1> USE DEF IndInv
<1>1. PICK a, q, s : a = User(t) /\ q = buffer.q /\ s = <<Ref("buffer", q)>>
  OBVIOUS
<1>2. /\ UNCHANGED <<program, op, stream, finished, host, tasks, threadRefs, streamRefs, held>>
      /\ buffer' = [buffer EXCEPT !.user = FALSE] /\ buffer.user
      /\ todo' = With(todo, a, s) /\ todo[a] = <<>> /\ a \in Actor
  BY <1>1 DEF DropBuffer, Begin, nativeVars, callbackVars, With, IdleInv, User, Actor
<1>3. /\ buffer'.q = buffer.q /\ buffer'.refs = buffer.refs /\ ~buffer'.user /\ buffer.refs \in Int
      /\ q \in Queue
  BY <1>1, <1>2 DEF TodoInv, BufferType
<1>4. SameHolders
  BY <1>2, SameAlways
<1>5. Gives(s, q, 0, 0, 1)
  BY <1>1, <1>3, GivesRefs
<1>6. /\ FiniteTokens(todo')
      /\ \A p \in Queue :
            /\ Count("thread", {p})' = Count("thread", {p}) + (IF p = q THEN 0 ELSE 0)
            /\ Count("stream", {p})' = Count("stream", {p}) + (IF p = q THEN 0 ELSE 0)
      /\ Count("buffer", Queue)' = Count("buffer", Queue) + 1
  <2>1. TodoInv /\ FiniteTokens(todo)
    BY DEF RefsType
  <2> QED
    BY <1>2, <1>5, <2>1, Given
<1>7. RefsType'
  BY <1>2, <1>6 DEF RefsType
<1>8. PartsType
  BY PartsNat
<1>9. ASSUME NEW p \in Queue PROVE ThreadBalance(p) /\ StreamBalance(p)
  <2>1. HandleRef(p)' = HandleRef(p) /\ ClosureRef(p)' = ClosureRef(p) /\ OwnerRef(p)' = OwnerRef(p)
    BY <1>2, <1>3, <1>4, OwnerSame DEF HandleRef, ClosureRef, SameHolders
  <2>2. Cardinality(ThreadOps(p)') = Cardinality(ThreadOps(p))
    BY <1>4 DEF SameHolders
  <2>3. /\ HandleRef(p) \in Int /\ ClosureRef(p) \in Int /\ Cardinality(ThreadOps(p)) \in Int /\ OwnerRef(p) \in Int
        /\ Count("thread", {p}) \in Int /\ Count("stream", {p}) \in Int
    BY <1>8 DEF PartsType
  <2>4. threadRefs[p] \in Int /\ streamRefs[p] \in Int
    BY DEF RefsType
  <2>5. Count("thread", {p})' = Count("thread", {p}) /\ Count("stream", {p})' = Count("stream", {p})
    <3>1. PICK k \in Int : k = (IF p = q THEN 0 ELSE 0) /\ k = 0
      OBVIOUS
    <3>2. Count("thread", {p})' = Count("thread", {p}) + k /\ Count("stream", {p})' = Count("stream", {p}) + k
      BY <1>6, <3>1
    <3> QED
      BY <2>3, <3>1, <3>2
  <2> QED
    BY <1>2, <2>1, <2>2, <2>3, <2>4, <2>5 DEF ThreadBalance, StreamBalance
<1>10. BufferBalance
  <2>1. UserRef = 1 /\ UserRef' = 0
    BY <1>2, <1>3 DEF UserRef
  <2>2. Cardinality(BufferOps) \in Int /\ Cardinality(BufferTasks) \in Int /\ Count("buffer", Queue) \in Int
    BY <1>8 DEF PartsType
  <2>3. BufferOps' = BufferOps /\ BufferTasks' = BufferTasks
    BY <1>4 DEF SameHolders
  <2> QED
    BY <1>3, <1>6, <2>1, <2>2, <2>3 DEF BufferBalance
<1> QED
  BY <1>2, <1>4, <1>7, <1>9, <1>10, CountsStep

\* A handle of a queue is dropped, by a user or by the buffer.
LEMMA HandleCounts ==
    ASSUME IndInv, IndInv', RefsType, CountsInv, SameHolders,
           UNCHANGED <<program, threadRefs, streamRefs, buffer>>,
           NEW q \in Queue, NEW d \in Nat, HandleRef(q)' = HandleRef(q) - d,
           \A p \in Queue \ {q} : HandleRef(p)' = HandleRef(p),
           held' \in [Queue -> SUBSET (Thread \cup {None})],
           FiniteTokens(todo'),
           \A p \in Queue :
              /\ Count("thread", {p})' = Count("thread", {p}) + (IF p = q THEN d ELSE 0)
              /\ Count("stream", {p})' = Count("stream", {p}) + (IF p = q THEN d ELSE 0),
           Count("buffer", Queue)' = Count("buffer", Queue)
    PROVE  RefsType' /\ CountsInv'
<1> USE DEF IndInv
<1>1. RefsType'
  BY DEF RefsType
<1>2. PartsType
  BY PartsNat
<1>3. ASSUME NEW p \in Queue PROVE ThreadBalance(p) /\ StreamBalance(p)
  <2>1. PICK k \in Int : k = IF p = q THEN d ELSE 0
    OBVIOUS
  <2>2. /\ HandleRef(p) \in Int /\ ClosureRef(p) \in Int /\ Cardinality(ThreadOps(p)) \in Int /\ OwnerRef(p) \in Int
        /\ Count("thread", {p}) \in Int /\ Count("stream", {p}) \in Int
    BY <1>2 DEF PartsType
  <2>3. HandleRef(p)' = HandleRef(p) - k
    BY <2>1, <2>2
  <2>4. ClosureRef(p)' = ClosureRef(p) /\ OwnerRef(p)' = OwnerRef(p)
    BY OwnerSame DEF ClosureRef, SameHolders
  <2>5. Cardinality(ThreadOps(p)') = Cardinality(ThreadOps(p))
    BY DEF SameHolders
  <2>6. threadRefs[p] \in Int /\ streamRefs[p] \in Int
    BY DEF RefsType
  <2>7. Count("thread", {p})' = Count("thread", {p}) + k /\ Count("stream", {p})' = Count("stream", {p}) + k
    BY <2>1
  <2> QED
    BY <2>2, <2>3, <2>4, <2>5, <2>6, <2>7 DEF ThreadBalance, StreamBalance
<1>4. BufferBalance
  <2>1. UserRef' = UserRef
    BY DEF UserRef
  <2>2. UserRef \in Int /\ Cardinality(BufferOps) \in Int /\ Cardinality(BufferTasks) \in Int /\ Count("buffer", Queue) \in Int
    BY <1>2 DEF PartsType
  <2>3. BufferOps' = BufferOps /\ BufferTasks' = BufferTasks /\ buffer.refs \in Int
    BY DEF SameHolders, TodoInv, BufferType
  <2> QED
    BY <2>1, <2>2, <2>3 DEF BufferBalance
<1> QED
  BY <1>1, <1>3, <1>4, CountsStep

\* The destructor of a queue's handle: the last one gives the queue's references to be dropped.
LEMMA DropQueueCounts ==
    ASSUME IndInv, IndInv', RefsType, IdleInv, CountsInv, NEW t \in Thread, NEW c, DropQueue(t, c)
    PROVE  RefsType' /\ CountsInv' /\ SameHolders
<1> USE DEF IndInv
<1>1. PICK a, q, s : a = User(t) /\ q = c.q /\ s = QueueRefs(q, t)
  OBVIOUS
<1>2. /\ UNCHANGED <<program, op, stream, finished, host, tasks, threadRefs, streamRefs, buffer>>
      /\ held' = [held EXCEPT ![q] = @ \ {t}]
      /\ todo' = With(todo, a, s) /\ todo[a] = <<>> /\ a \in Actor
      /\ Begin(t, c)
  BY <1>1 DEF DropQueue, Begin, nativeVars, callbackVars, With, IdleInv, User, Actor
<1>3. q \in Queue
  BY <1>1, <1>2, BeginFacts
<1>4. SameHolders
  BY <1>2, SameAlways
<1>5. PICK d \in Nat : /\ Gives(s, q, d, d, 0)
                       /\ HandleRef(q)' = HandleRef(q) - d
                       /\ \A p \in Queue \ {q} : HandleRef(p)' = HandleRef(p)
                       /\ held' \in [Queue -> SUBSET (Thread \cup {None})]
  BY <1>1, <1>2, <1>3, HandleDropped
<1>6. /\ FiniteTokens(todo')
      /\ \A p \in Queue :
            /\ Count("thread", {p})' = Count("thread", {p}) + (IF p = q THEN d ELSE 0)
            /\ Count("stream", {p})' = Count("stream", {p}) + (IF p = q THEN d ELSE 0)
      /\ Count("buffer", Queue)' = Count("buffer", Queue) + 0
  <2>1. TodoInv /\ FiniteTokens(todo)
    BY DEF RefsType
  <2> QED
    BY <1>2, <1>5, <2>1, Given
<1>7. Count("buffer", Queue)' = Count("buffer", Queue)
  BY <1>6, PartsNat DEF PartsType
<1> QED
  BY <1>2, <1>3, <1>4, <1>5, <1>6, <1>7, HandleCounts

-----------------------------------------------------------------------------
(* The use counts after a reference is dropped.                            *)

\* Actor a drops its next reference.
LEMMA TailGiven ==
    ASSUME TodoInv, NEW a \in Actor, todo[a] # <<>>, todo' = [todo EXCEPT ![a] = Tail(@)]
    PROVE  todo' = With(todo, a, <<>> \o Tail(todo[a]))
<1>1. PICK R : R = Refs
  OBVIOUS
<1>2. Tail(todo[a]) \in Seq(R)
  BY <1>1 DEF TodoInv
<1>3. <<>> \o Tail(todo[a]) = Tail(todo[a])
  BY <1>2
<1> QED
  BY <1>3 DEF With

\* A step in which an actor drops its next reference or does what is next, without the
\* native queues and the callback threads.
LEMMA QuietDrop ==
    ASSUME IndInv, RefsType, NEW a \in Actor, Due(a) # "none", NEW x, x = Head(todo[a]),
           NEW s, NEW q, NEW inThread, NEW inStream, Gives(s, q, inThread, inStream, 0),
           todo' = With(todo, a, s \o Tail(todo[a]))
    PROVE  /\ FiniteTokens(todo')
           /\ Changed(q, inThread, inStream, x)
           /\ Count("buffer", Queue)' = Count("buffer", Queue) - (IF x.what = "buffer" THEN 1 ELSE 0)
           /\ Count("buffer", Queue)' \in Nat
           /\ \A p \in Queue : Count("thread", {p})' \in Nat /\ Count("stream", {p})' \in Nat
<1>1. todo[a] # <<>> /\ TodoInv /\ FiniteTokens(todo)
  BY DEF Due, IndInv, RefsType
<1>2. PICK w : w = Count("buffer", Queue) /\ w \in Nat
  BY PartsNat DEF PartsType, IndInv
<1>3. /\ FiniteTokens(todo')
      /\ Changed(q, inThread, inStream, x)
      /\ Count("buffer", Queue)' = Count("buffer", Queue) + 0 - (IF x.what = "buffer" THEN 1 ELSE 0)
      /\ \A p \in Queue : Count("thread", {p})' \in Nat /\ Count("stream", {p})' \in Nat
      /\ Count("buffer", Queue)' \in Nat
  <2>1. PICK z : z = 0 /\ Gives(s, q, inThread, inStream, z)
    OBVIOUS
  <2>2. /\ FiniteTokens(todo')
        /\ Changed(q, inThread, inStream, x)
        /\ Count("buffer", Queue)' = Count("buffer", Queue) + z - (IF x.what = "buffer" THEN 1 ELSE 0)
        /\ \A p \in Queue : Count("thread", {p})' \in Nat /\ Count("stream", {p})' \in Nat
        /\ Count("buffer", Queue)' \in Nat
    BY <1>1, <2>1, Dropped
  <2> QED
    BY <2>1, <2>2
<1>4. Count("buffer", Queue)' = Count("buffer", Queue) - (IF x.what = "buffer" THEN 1 ELSE 0)
  BY <1>2, <1>3
<1> QED
  BY <1>3, <1>4

\* The steps that drop a handle.
LEMMA DropHandleCounts ==
    ASSUME IndInv, IndInv', RefsType, CountsInv, NEW a \in Actor, DropHandle(a)
    PROVE  RefsType' /\ CountsInv' /\ SameHolders
<1> USE DEF IndInv
<1>1. PICK x : x = Head(todo[a])
  OBVIOUS
<1>2. Due(a) = "handle" /\ x.what = "handle" /\ x.q \in Queue
  BY <1>1, DueFacts DEF DropHandle
<1>3. PICK q, s : q \in Queue /\ q = x.q /\ s = QueueRefs(q, None)
  BY <1>2
<1>11. q \in Queue
  BY <1>3
<1>4. /\ UNCHANGED <<program, op, stream, finished, host, tasks, threadRefs, streamRefs, buffer>>
      /\ held' = [held EXCEPT ![q] = @ \ {None}]
      /\ todo' = With(todo, a, s \o Tail(todo[a]))
  BY <1>1, <1>3 DEF DropHandle, nativeVars, callbackVars, With
<1>5. SameHolders
  BY <1>4, SameAlways
<1>6. PICK d \in Nat : /\ Gives(s, q, d, d, 0)
                       /\ HandleRef(q)' = HandleRef(q) - d
                       /\ \A p \in Queue \ {q} : HandleRef(p)' = HandleRef(p)
                       /\ held' \in [Queue -> SUBSET (Thread \cup {None})]
  BY <1>3, <1>4, HandleDropped
<1>7. /\ FiniteTokens(todo')
      /\ Changed(q, d, d, x)
      /\ Count("buffer", Queue)' = Count("buffer", Queue) - (IF x.what = "buffer" THEN 1 ELSE 0)
  BY <1>1, <1>2, <1>4, <1>6, QuietDrop
<1>8. PartsType
  BY PartsNat
<1>9. \A p \in Queue :
         /\ Count("thread", {p})' = Count("thread", {p}) + (IF p = q THEN d ELSE 0)
         /\ Count("stream", {p})' = Count("stream", {p}) + (IF p = q THEN d ELSE 0)
  <2>1. SUFFICES ASSUME NEW p \in Queue
                 PROVE  /\ Count("thread", {p})' = Count("thread", {p}) + (IF p = q THEN d ELSE 0)
                        /\ Count("stream", {p})' = Count("stream", {p}) + (IF p = q THEN d ELSE 0)
    OBVIOUS
  <2>2. Count("thread", {p}) \in Int /\ Count("stream", {p}) \in Int
    BY <1>8 DEF PartsType
  <2>3. PICK k \in Int : k = (IF p = q THEN d ELSE 0)
    OBVIOUS
  <2>4. Count("thread", {p})' = Count("thread", {p}) + k - 0 /\ Count("stream", {p})' = Count("stream", {p}) + k - 0
    BY <1>2, <1>7, <2>3 DEF Changed
  <2> QED
    BY <2>2, <2>3, <2>4
<1>10. Count("buffer", Queue)' = Count("buffer", Queue)
  <2>1. Count("buffer", Queue) \in Int
    BY <1>8 DEF PartsType
  <2>2. Count("buffer", Queue)' = Count("buffer", Queue) - 0
    BY <1>2, <1>7
  <2> QED
    BY <2>1, <2>2
<1> QED
  BY <1>4, <1>5, <1>6, <1>7, <1>9, <1>10, <1>11, HandleCounts

\* A reference of a queue's resources is dropped, or the buffer waits.
LEMMA DropQuietCounts ==
    ASSUME IndInv, IndInv', RefsType, CountsInv, NEW a \in Actor,
           DropThreadRef(a) \/ DropStreamRef(a) \/ BeginWait(a) \/ EndWait(a)
    PROVE  RefsType' /\ CountsInv' /\ SameHolders
<1> USE DEF IndInv
<1>1. PICK x : x = Head(todo[a])
  OBVIOUS
<1>2. /\ Due(a) # "none" /\ x.what = Due(a) /\ x.q \in Queue /\ todo[a] # <<>>
      /\ x.what \in {"thread", "stream", "wait", "await"}
  <2>1. Due(a) # "none" /\ Due(a) \in {"thread", "stream", "wait", "await"}
    BY DEF DropThreadRef, DropStreamRef, BeginWait, EndWait
  <2> QED
    BY <1>1, <2>1, DueFacts
<1>3. PICK q \in Queue : q = x.q
  BY <1>2
<1>4. PICK d, e \in Nat : /\ d = (IF x.what = "thread" THEN 1 ELSE 0) /\ e = (IF x.what = "stream" THEN 1 ELSE 0)
  OBVIOUS
<1>5. UNCHANGED <<program, op, stream, finished, host, tasks, held, buffer>>
  BY DEF DropThreadRef, DropStreamRef, BeginWait, EndWait, nativeVars, callbackVars, userVars
<1>6. /\ threadRefs' = [threadRefs EXCEPT ![q] = @ - d]
      /\ streamRefs' = [streamRefs EXCEPT ![q] = @ - e]
  <2>1. CASE DropThreadRef(a)
    BY <1>1, <1>2, <1>3, <1>4, <2>1 DEF DropThreadRef, RefsType
  <2>2. CASE DropStreamRef(a)
    BY <1>1, <1>2, <1>3, <1>4, <2>2 DEF DropStreamRef, RefsType
  <2>3. CASE BeginWait(a) \/ EndWait(a)
    BY <1>1, <1>2, <1>3, <1>4, <2>3 DEF BeginWait, EndWait, RefsType
  <2> QED
    BY <2>1, <2>2, <2>3
<1>7. \E s : Gives(s, q, 0, 0, 0) /\ todo' = With(todo, a, s \o Tail(todo[a]))
  <2>1. CASE todo' = [todo EXCEPT ![a] = Tail(@)]
    BY <1>2, <2>1, TailGiven, GivesNone
  <2>2. CASE BeginWait(a)
    <3>1. PICK y : y = [what |-> "await", q |-> q, goal |-> InStream(q)]
      OBVIOUS
    <3>2. y \in RefType /\ y.what = "await"
      <4>1. InStream(q) \in SUBSET Nat
        BY DEF InStream, CoreInv, CoreType
      <4> QED
        BY <3>1, <4>1 DEF RefType
    <3>3. Gives(<<y>>, q, 0, 0, 0)
      BY <3>2, GivesOne
    <3>4. todo' = With(todo, a, <<y>> \o Tail(todo[a]))
      BY <1>1, <1>3, <2>2, <3>1 DEF BeginWait, With
    <3> QED
      BY <3>3, <3>4
  <2> QED
    BY <2>1, <2>2 DEF DropThreadRef, DropStreamRef, EndWait
<1>8. PICK s : Gives(s, q, 0, 0, 0) /\ todo' = With(todo, a, s \o Tail(todo[a]))
  BY <1>7
<1>9. PICK z : /\ z = 0 /\ FiniteTokens(todo') /\ Changed(q, z, z, x)
               /\ Count("buffer", Queue)' = Count("buffer", Queue) - (IF x.what = "buffer" THEN 1 ELSE 0)
  <2>1. PICK z : z = 0 /\ Gives(s, q, z, z, 0)
    BY <1>8
  <2>2. /\ FiniteTokens(todo') /\ Changed(q, z, z, x)
        /\ Count("buffer", Queue)' = Count("buffer", Queue) - (IF x.what = "buffer" THEN 1 ELSE 0)
    BY <1>1, <1>2, <1>8, <2>1, QuietDrop
  <2> QED
    BY <2>1, <2>2
<1>10. PartsType
  BY PartsNat
<1>11. SameHolders
  BY <1>5, SameAlways
<1>12. RefsType'
  BY <1>5, <1>6, <1>9 DEF RefsType
<1>13. ASSUME NEW p \in Queue PROVE ThreadBalance(p) /\ StreamBalance(p)
  <2>1. PICK k, l \in Int : k = (IF p = q THEN d ELSE 0) /\ l = (IF p = q THEN e ELSE 0)
    OBVIOUS
  <2>2. /\ HandleRef(p) \in Int /\ ClosureRef(p) \in Int /\ Cardinality(ThreadOps(p)) \in Int /\ OwnerRef(p) \in Int
        /\ Count("thread", {p}) \in Int /\ Count("stream", {p}) \in Int
    BY <1>10 DEF PartsType
  <2>3. HandleRef(p)' = HandleRef(p) /\ ClosureRef(p)' = ClosureRef(p) /\ OwnerRef(p)' = OwnerRef(p)
    BY <1>5, <1>11 DEF HandleRef, ClosureRef, OwnerRef, BufferOf, SameHolders
  <2>4. Cardinality(ThreadOps(p)') = Cardinality(ThreadOps(p))
    BY <1>11 DEF SameHolders
  <2>5. /\ threadRefs[p] \in Int /\ streamRefs[p] \in Int
        /\ threadRefs'[p] = threadRefs[p] - k /\ streamRefs'[p] = streamRefs[p] - l
    BY <1>6, <2>1 DEF RefsType
  <2>6. Count("thread", {p})' = Count("thread", {p}) - k /\ Count("stream", {p})' = Count("stream", {p}) - l
    <3>1. PICK v \in Int : v = (IF p = q THEN z ELSE z) /\ v = 0
      BY <1>9
    <3>2. k = (IF x.what = "thread" /\ x.q = p THEN 1 ELSE 0) /\ l = (IF x.what = "stream" /\ x.q = p THEN 1 ELSE 0)
      BY <1>3, <1>4, <2>1
    <3>3. Count("thread", {p})' = Count("thread", {p}) + v - k /\ Count("stream", {p})' = Count("stream", {p}) + v - l
      BY <1>9, <3>1, <3>2 DEF Changed
    <3> QED
      BY <2>2, <3>1, <3>3
  <2> QED
    BY <2>2, <2>3, <2>4, <2>5, <2>6 DEF ThreadBalance, StreamBalance
<1>14. BufferBalance
  <2>1. UserRef \in Int /\ Cardinality(BufferOps) \in Int /\ Cardinality(BufferTasks) \in Int /\ Count("buffer", Queue) \in Int
    BY <1>10 DEF PartsType
  <2>2. Count("buffer", Queue)' = Count("buffer", Queue) - 0
    BY <1>2, <1>9
  <2>3. UserRef' = UserRef /\ BufferOps' = BufferOps /\ BufferTasks' = BufferTasks
    BY <1>5, <1>11 DEF UserRef, SameHolders
  <2>4. buffer.refs \in Int
    BY DEF TodoInv, BufferType
  <2> QED
    BY <1>5, <2>1, <2>2, <2>3, <2>4 DEF BufferBalance
<1> QED
  BY <1>5, <1>11, <1>12, <1>13, <1>14, CountsStep

-----------------------------------------------------------------------------
(* The use counts when the buffer is destroyed.                            *)

\* A sequence of two, and of three.
LEMMA Joined ==
    ASSUME NEW x \in RefType, NEW y \in RefType, NEW z \in RefType
    PROVE  <<x>> \o <<y>> = <<x, y>> /\ <<x, y>> \o <<z>> = <<x, y, z>>
<1>1. PICK R : R = RefType
  OBVIOUS
<1>2. PICK u, v, w : u = <<x>> \o <<y>> /\ v = <<x, y>> /\ w = <<x, y>> \o <<z>>
  OBVIOUS
<1>3. <<x>> \in Seq(R) /\ <<y>> \in Seq(R) /\ <<z>> \in Seq(R) /\ v \in Seq(R) /\ <<x, y, z>> \in Seq(R)
  BY <1>1, <1>2
<1>4. /\ u \in Seq(R) /\ Len(u) = 2 /\ u[1] = x /\ u[2] = y
      /\ Len(v) = 2 /\ v[1] = x /\ v[2] = y
  BY <1>2, <1>3
<1>5. w \in Seq(R) /\ Len(w) = 3 /\ w[1] = x /\ w[2] = y /\ w[3] = z
  BY <1>2, <1>3
<1>6. u = v
  <2>1. \A k \in 1..2 : u[k] = v[k]
    BY <1>4
  <2> QED
    BY <1>3, <1>4, <2>1, SeqEqual
<1>7. w = <<x, y, z>>
  <2>1. Len(<<x, y, z>>) = 3 /\ \A k \in 1..3 : w[k] = <<x, y, z>>[k]
    BY <1>5
  <2> QED
    BY <1>3, <1>5, <2>1, SeqEqual
<1> QED
  BY <1>2, <1>6, <1>7

\* The references that the deleter holds, and nothing that a use count stands for but them.
LEMMA DestructionGives ==
    ASSUME NEW q \in Queue, q = buffer.q, buffer.waits \in Queue \cup {None},
           NEW d, d = IF Cuda THEN 0 ELSE 1
    PROVE  Gives(Destruction, q, d, 1, 0)
<1>1. PICK r : r = DeleterRefs(q)
  OBVIOUS
<1>2. Gives(r, q, d, 1, 0)
  <2>1. CASE Cuda
    <3>1. r = <<Ref("stream", q)>> /\ d = 0
      BY <1>1, <2>1 DEF DeleterRefs
    <3> QED
      BY <3>1, GivesRefs
  <2>2. CASE ~Cuda
    <3>1. r = <<Ref("stream", q), Ref("thread", q)>> /\ d = 1
      BY <1>1, <2>2 DEF DeleterRefs
    <3> QED
      BY <3>1, GivesRefs
  <2> QED
    BY <2>1, <2>2
<1>3. PICK x : x = Ref("deleter", q)
  OBVIOUS
<1>4. x \in RefType /\ x.what = "deleter" /\ x.q = q
  BY <1>3 DEF Ref, RefType
<1>5. Gives(<<x>>, q, 0, 0, 0)
  BY <1>4, GivesOne
<1>6. d \in Nat
  OBVIOUS
<1>7. CASE buffer.waits = None
  <2>1. Gives(<<x>> \o r, q, 0 + d, 0 + 1, 0 + 0)
    BY <1>2, <1>5, GivesBoth
  <2>2. 0 + d = d /\ 0 + 1 = 1 /\ 0 + 0 = 0
    BY <1>6
  <2>3. Destruction = <<x>> \o r
    BY <1>1, <1>3, <1>7 DEF Destruction
  <2> QED
    BY <2>1, <2>2, <2>3, Zenon
<1>8. CASE buffer.waits # None
  <2>1. PICK w, h, p : w = Ref("wait", p) /\ h = Ref("handle", p) /\ p = buffer.waits
    OBVIOUS
  <2>2. w \in RefType /\ w.what = "wait" /\ h \in RefType /\ h.what = "handle"
    BY <1>8, <2>1 DEF Ref, RefType
  <2>3. Gives(<<w>>, q, 0, 0, 0) /\ Gives(<<h>>, q, 0, 0, 0)
    BY <2>2, GivesOne
  <2>4. 0 + d = d /\ 0 + 1 = 1 /\ 0 + 0 = 0
    BY <1>6
  <2>5. Gives(<<w>> \o <<x>>, q, 0, 0, 0)
    <3>1. Gives(<<w>> \o <<x>>, q, 0 + 0, 0 + 0, 0 + 0)
      BY <1>5, <2>3, GivesBoth
    <3> QED
      BY <2>4, <3>1, Zenon
  <2>6. <<w>> \o <<x>> = <<w, x>> /\ <<w, x>> \o <<h>> = <<w, x, h>>
    BY <1>4, <2>2, Joined
  <2>7. Gives(<<w, x, h>>, q, 0, 0, 0)
    <3>1. Gives(<<w, x>> \o <<h>>, q, 0 + 0, 0 + 0, 0 + 0)
      BY <2>3, <2>5, <2>6, GivesBoth
    <3> QED
      BY <2>4, <2>6, <3>1, Zenon
  <2>8. Gives(<<w, x, h>> \o r, q, 0 + d, 0 + 1, 0 + 0)
    BY <1>2, <2>7, GivesBoth
  <2>9. Destruction = <<w, x, h>> \o r
    BY <1>1, <1>3, <1>8, <2>1 DEF Destruction
  <2> QED
    BY <2>4, <2>8, <2>9, Zenon
<1> QED
  BY <1>7, <1>8

\* An actor drops its reference of the buffer.
LEMMA DropBufferRefCounts ==
    ASSUME IndInv, IndInv', RefsType, CountsInv, NEW a \in Actor, DropBufferRef(a)
    PROVE  RefsType' /\ CountsInv' /\ SameHolders /\ buffer.refs >= 1
<1> USE DEF IndInv
<1>1. PICK x : x = Head(todo[a])
  OBVIOUS
<1>2. Due(a) = "buffer" /\ x.what = "buffer" /\ x \in Refs /\ x.q \in Queue /\ todo[a] # <<>>
  BY <1>1, DueFacts DEF DropBufferRef
<1>3. PICK q \in Queue : q = buffer.q
  BY <1>2 DEF Refs, TodoInv, BufferType
<1>5. PICK c, d, e, s : /\ c = (IF Cuda THEN 0 ELSE 1)
                        /\ d = (IF buffer.refs = 1 THEN c ELSE 0)
                        /\ e = (IF buffer.refs = 1 THEN 1 ELSE 0)
                        /\ s = (IF buffer.refs = 1 THEN Destruction ELSE <<>>)
  OBVIOUS
<1> c \in Nat /\ d \in Nat /\ e \in Nat
  BY <1>5
<1>6. UNCHANGED <<program, op, stream, finished, host, tasks, held, threadRefs, streamRefs>>
  BY DEF DropBufferRef, nativeVars, callbackVars, userVars
<1>7. /\ buffer'.refs = buffer.refs - 1 /\ buffer'.q = buffer.q /\ buffer'.user = buffer.user
      /\ buffer.refs \in Int /\ buffer.waits \in Queue \cup {None}
  BY DEF DropBufferRef, TodoInv, BufferType
<1>8. todo' = With(todo, a, s \o Tail(todo[a]))
  <2>1. todo' = [todo EXCEPT ![a] = s \o Tail(@)]
    BY <1>5 DEF DropBufferRef
  <2> QED
    BY <2>1 DEF With
<1>9. Gives(s, q, d, e, 0)
  <2>1. CASE buffer.refs = 1
    <3>1. Gives(Destruction, q, c, 1, 0)
      BY <1>3, <1>5, <1>7, DestructionGives
    <3>2. s = Destruction /\ d = c /\ e = 1
      BY <1>5, <2>1
    <3> QED
      BY <3>1, <3>2
  <2>2. CASE buffer.refs # 1
    <3>1. s = <<>> /\ d = 0 /\ e = 0
      BY <1>5, <2>2
    <3> QED
      BY <3>1, GivesNone
  <2> QED
    BY <2>1, <2>2
<1>10. /\ FiniteTokens(todo') /\ Changed(q, d, e, x)
       /\ Count("buffer", Queue)' = Count("buffer", Queue) - (IF x.what = "buffer" THEN 1 ELSE 0)
       /\ Count("buffer", Queue)' \in Nat
  BY <1>1, <1>2, <1>8, <1>9, QuietDrop
<1>11. PartsType
  BY PartsNat
<1>12. Count("buffer", Queue)' = Count("buffer", Queue) - 1 /\ Count("buffer", Queue) # 0
  <2>1. PICK m, n : m = Count("buffer", Queue) /\ n = Count("buffer", Queue)'
    OBVIOUS
  <2>2. m \in Nat /\ n \in Nat /\ n = m - 1
    BY <1>2, <1>10, <1>11, <2>1 DEF PartsType
  <2> QED
    BY <2>1, <2>2
<1>13. buffer.refs >= 1
  BY <1>12, BufferAlive
<1>14. SameHolders
  BY <1>6, SameAlways
<1>15. RefsType'
  BY <1>6, <1>10 DEF RefsType
<1>16. ASSUME NEW p \in Queue PROVE ThreadBalance(p) /\ StreamBalance(p)
  <2>1. PICK k, l \in Int : k = (IF p = q THEN d ELSE 0) /\ l = (IF p = q THEN e ELSE 0)
    OBVIOUS
  <2>2. /\ HandleRef(p) \in Int /\ ClosureRef(p) \in Int /\ Cardinality(ThreadOps(p)) \in Int /\ OwnerRef(p) \in Int
        /\ Count("thread", {p}) \in Int /\ Count("stream", {p}) \in Int
    BY <1>11 DEF PartsType
  <2>3. HandleRef(p)' = HandleRef(p) /\ ClosureRef(p)' = ClosureRef(p)
    BY <1>6, <1>14 DEF HandleRef, ClosureRef, SameHolders
  <2>4. OwnerRef(p)' = OwnerRef(p) - l
    <3>1. CASE p = q
      <4>1. OwnerRef(p) = 1
        BY <1>3, <1>7, <1>13, <3>1 DEF OwnerRef, BufferOf
      <4>2. OwnerRef(p)' = IF buffer.refs = 1 THEN 0 ELSE 1
        <5>1. BufferOf(p)' <=> buffer.refs # 1
          BY <1>3, <1>7, <3>1 DEF BufferOf
        <5> QED
          BY <5>1 DEF OwnerRef
      <4> QED
        BY <1>5, <2>1, <3>1, <4>1, <4>2
    <3>2. CASE p # q
      <4>1. ~BufferOf(p) /\ ~BufferOf(p)'
        BY <1>3, <1>7, <3>2 DEF BufferOf
      <4> QED
        BY <2>1, <3>2, <4>1 DEF OwnerRef
    <3> QED
      BY <3>1, <3>2
  <2>5. Cardinality(ThreadOps(p)') = Cardinality(ThreadOps(p))
    BY <1>14 DEF SameHolders
  <2>6. threadRefs[p] \in Int /\ streamRefs[p] \in Int /\ threadRefs'[p] = threadRefs[p] /\ streamRefs'[p] = streamRefs[p]
    BY <1>6 DEF RefsType
  <2>7. Count("thread", {p})' = Count("thread", {p}) + k /\ Count("stream", {p})' = Count("stream", {p}) + l
    <3>1. Count("thread", {p})' = Count("thread", {p}) + k - 0 /\ Count("stream", {p})' = Count("stream", {p}) + l - 0
      BY <1>2, <1>10, <2>1 DEF Changed
    <3> QED
      BY <2>2, <3>1
  <2>8. k = IF Cuda THEN 0 ELSE l
    BY <1>5, <2>1
  <2>9. ThreadBalance(p)
    BY <2>2, <2>3, <2>4, <2>5, <2>6, <2>7, <2>8 DEF ThreadBalance
  <2>10. StreamBalance(p)
    BY <2>2, <2>3, <2>4, <2>6, <2>7 DEF StreamBalance
  <2> QED
    BY <2>9, <2>10
<1>17. BufferBalance
  <2>1. UserRef \in Int /\ Cardinality(BufferOps) \in Int /\ Cardinality(BufferTasks) \in Int /\ Count("buffer", Queue) \in Int
    BY <1>11 DEF PartsType
  <2>2. UserRef' = UserRef /\ BufferOps' = BufferOps /\ BufferTasks' = BufferTasks
    BY <1>7, <1>14 DEF UserRef, SameHolders
  <2> QED
    BY <1>7, <1>12, <2>1, <2>2 DEF BufferBalance
<1> QED
  BY <1>6, <1>13, <1>14, <1>15, <1>16, <1>17, CountsStep

\* The deleter frees the memory in the stream, or has the callback thread do so.
LEMMA DeleteCounts ==
    ASSUME IndInv, IndInv', RefsType, CountsInv, NEW a \in Actor, Delete(a), \A q \in Queue : ~Closure(q)
    PROVE  RefsType' /\ CountsInv'
<1> USE DEF IndInv
<1>1. PICK x : x = Head(todo[a])
  OBVIOUS
<1>2. Due(a) = "deleter" /\ x.what = "deleter" /\ x.q \in Queue /\ todo[a] # <<>>
  BY <1>1, DueFacts DEF Delete
<1>3. PICK q \in Queue : q = x.q
  BY <1>2
<1>4. /\ UNCHANGED <<program, finished, host, held, threadRefs, buffer>>
      /\ IF Cuda THEN Enqueue("free", q, 0, {}) /\ UNCHANGED <<tasks, streamRefs>>
         ELSE /\ tasks' = [tasks EXCEPT ![q] = Append(@, FreeClosure)]
              /\ streamRefs' = [streamRefs EXCEPT ![q] = @ + 1]
              /\ UNCHANGED <<op, stream>>
      /\ todo' = [todo EXCEPT ![a] = Tail(@)]
  BY <1>1, <1>3 DEF Delete, RunDeleter, nativeVars, callbackVars, userVars
<1>5. /\ \A p \in Queue : ThreadOps(p)' = ThreadOps(p)
      /\ \A p \in Queue : IF p = q /\ ~Cuda THEN Closure(p)' ELSE Closure(p)' <=> Closure(p)
      /\ BufferOps' = BufferOps /\ BufferTasks' = BufferTasks
  <2>1. CASE Cuda
    <3>1. Added("free", q, 0, {})
      <4>1. "free" \in OpKind /\ 0 \in Nat /\ {} \in SUBSET Nat /\ CoreType
        BY DEF OpKind, CoreInv
      <4> QED
        BY <1>4, <2>1, <4>1, EnqueueEffect
    <3>2. "free" \notin HostKind
      BY DEF HostKind
    <3>3. SameHolders
      BY <1>4, <2>1, <3>1, <3>2, AddedSame
    <3> QED
      BY <2>1, <3>3 DEF SameHolders
  <2>2. CASE ~Cuda
    <3>1. Appended(q, FreeClosure)
      <4>1. FreeClosure \in Nat /\ CoreType
        BY DEF FreeClosure, CoreInv
      <4> QED
        BY <1>4, <2>2, <4>1, AppendEffect
    <3> QED
      BY <1>4, <2>2, <3>1, HoldersClosure
  <2> QED
    BY <2>1, <2>2
<1>6. PICK e \in Nat : e = IF Cuda THEN 0 ELSE 1
  OBVIOUS
<1>7. streamRefs' = [streamRefs EXCEPT ![q] = @ + e]
  BY <1>4, <1>6 DEF RefsType
<1>8. PICK z : /\ z = 0 /\ FiniteTokens(todo') /\ Changed(q, z, z, x)
               /\ Count("buffer", Queue)' = Count("buffer", Queue) - (IF x.what = "buffer" THEN 1 ELSE 0)
  <2>1. PICK z, s : z = 0 /\ Gives(s, q, z, z, 0) /\ todo' = With(todo, a, s \o Tail(todo[a]))
    BY <1>2, <1>4, TailGiven, GivesNone
  <2>2. /\ FiniteTokens(todo') /\ Changed(q, z, z, x)
        /\ Count("buffer", Queue)' = Count("buffer", Queue) - (IF x.what = "buffer" THEN 1 ELSE 0)
    BY <1>1, <1>2, <2>1, QuietDrop
  <2> QED
    BY <2>1, <2>2
<1>9. PartsType
  BY PartsNat
<1>10. RefsType'
  BY <1>4, <1>7, <1>8 DEF RefsType
<1>11. ASSUME NEW p \in Queue PROVE ThreadBalance(p) /\ StreamBalance(p)
  <2>1. PICK k \in Int : k = (IF p = q THEN e ELSE 0)
    OBVIOUS
  <2>2. /\ HandleRef(p) \in Int /\ ClosureRef(p) \in Int /\ Cardinality(ThreadOps(p)) \in Int /\ OwnerRef(p) \in Int
        /\ Count("thread", {p}) \in Int /\ Count("stream", {p}) \in Int
    BY <1>9 DEF PartsType
  <2>3. HandleRef(p)' = HandleRef(p) /\ OwnerRef(p)' = OwnerRef(p)
    BY <1>4 DEF HandleRef, OwnerRef, BufferOf
  <2>4. ClosureRef(p)' = ClosureRef(p) + k
    <3>1. CASE p = q /\ ~Cuda
      BY <1>5, <1>6, <2>1, <3>1 DEF ClosureRef
    <3>2. CASE ~(p = q /\ ~Cuda)
      <4>1. (Closure(p)' <=> Closure(p)) /\ k = 0
        BY <1>5, <1>6, <2>1, <3>2
      <4>2. ClosureRef(p)' = ClosureRef(p)
        BY <4>1 DEF ClosureRef
      <4> QED
        BY <2>2, <4>1, <4>2
    <3> QED
      BY <3>1, <3>2
  <2>5. Cardinality(ThreadOps(p)') = Cardinality(ThreadOps(p))
    BY <1>5
  <2>6. /\ threadRefs[p] \in Int /\ streamRefs[p] \in Int
        /\ threadRefs'[p] = threadRefs[p] /\ streamRefs'[p] = streamRefs[p] + k
    BY <1>4, <1>7, <2>1 DEF RefsType
  <2>7. Count("thread", {p})' = Count("thread", {p}) /\ Count("stream", {p})' = Count("stream", {p})
    <3>1. PICK v \in Int : v = (IF p = q THEN z ELSE z) /\ v = 0
      BY <1>8
    <3>2. Count("thread", {p})' = Count("thread", {p}) + v - 0 /\ Count("stream", {p})' = Count("stream", {p}) + v - 0
      BY <1>2, <1>8, <3>1 DEF Changed
    <3> QED
      BY <2>2, <3>1, <3>2
  <2>8. ThreadBalance(p)
    BY <2>2, <2>3, <2>5, <2>6, <2>7 DEF ThreadBalance
  <2>9. StreamBalance(p)
    BY <2>2, <2>3, <2>4, <2>6, <2>7 DEF StreamBalance
  <2> QED
    BY <2>8, <2>9
<1>12. BufferBalance
  <2>1. UserRef \in Int /\ Cardinality(BufferOps) \in Int /\ Cardinality(BufferTasks) \in Int /\ Count("buffer", Queue) \in Int
    BY <1>9 DEF PartsType
  <2>2. UserRef' = UserRef /\ BufferOps' = BufferOps /\ BufferTasks' = BufferTasks /\ buffer' = buffer /\ buffer.refs \in Int
    BY <1>4, <1>5 DEF UserRef, TodoInv, BufferType
  <2>3. Count("buffer", Queue)' = Count("buffer", Queue) - 0
    BY <1>2, <1>8
  <2> QED
    BY <2>1, <2>2, <2>3 DEF BufferBalance
<1> QED
  BY <1>4, <1>10, <1>11, <1>12, CountsStep

-----------------------------------------------------------------------------
(* An actor has something to destroy only where its work says so.          *)

\* A step of user thread t.
LEMMA IdleUser ==
    ASSUME IdleInv, NEW t \in Thread, UNCHANGED <<host, worker>>,
           \A u \in Thread \ {t} : thread'[u] = thread[u],
           \A a \in Actor \ {User(t)} : todo'[a] = todo[a],
           todo'[User(t)] = <<>> \/ thread'[t].at = "return"
    PROVE  IdleInv'
<1>1. \A q \in Queue : Host(q) \in Actor \ {User(t)} /\ Worker(q) \in Actor \ {User(t)}
  BY DEF Host, Worker, User, Actor
<1>2. \A u \in Thread \ {t} : User(u) \in Actor \ {User(t)}
  BY DEF User, Actor
<1> QED
  BY <1>1, <1>2 DEF IdleInv

\* A step of the runtime or of the callback thread of q.
LEMMA IdleQueue ==
    ASSUME IdleInv, NEW q \in Queue, UNCHANGED thread,
           \A p \in Queue \ {q} : host'[p] = host[p] /\ worker'[p] = worker[p],
           \A a \in Actor \ {Host(q), Worker(q)} : todo'[a] = todo[a],
           host'[q] # "closing" => todo'[Host(q)] = <<>>,
           worker'[q] # "destroying" => todo'[Worker(q)] = <<>>
    PROVE  IdleInv'
<1>1. /\ \A t \in Thread : User(t) \in Actor \ {Host(q), Worker(q)}
      /\ \A p \in Queue \ {q} : /\ Host(p) \in Actor \ {Host(q), Worker(q)}
                                /\ Worker(p) \in Actor \ {Host(q), Worker(q)}
  BY DEF Host, Worker, User, Actor
<1> QED
  BY <1>1 DEF IdleInv

\* A step in which an actor drops what is next.
LEMMA IdleDrop ==
    ASSUME TodoInv, IdleInv, NEW a \in Actor, Drop(a) PROVE IdleInv'
<1>1. UNCHANGED <<host, worker, thread>>
  BY DEF Drop, DropBufferRef, BeginWait, EndWait, Delete, DropHandle, DropThreadRef, DropStreamRef,
         RunDeleter, Enqueue, nativeVars, callbackVars, userVars
<1>2. todo[a] # <<>>
  BY DEF Drop, DropBufferRef, BeginWait, EndWait, Delete, DropHandle, DropThreadRef, DropStreamRef, Due
<1>3. \A b \in Actor \ {a} : todo'[b] = todo[b]
  BY DEF TodoInv, Drop, DropBufferRef, BeginWait, EndWait, Delete, DropHandle, DropThreadRef, DropStreamRef
<1>4. \A b \in Actor : todo[b] = <<>> => todo'[b] = <<>>
  BY <1>2, <1>3
<1>5. \A q \in Queue : Host(q) \in Actor /\ Worker(q) \in Actor
  BY DEF Host, Worker, Actor
<1>6. \A t \in Thread : User(t) \in Actor
  BY DEF User, Actor
<1> QED
  BY <1>1, <1>4, <1>5, <1>6 DEF IdleInv

\* Every step.
LEMMA IdleNext ==
    ASSUME IndInv, IdleInv, [Next]_vars PROVE IdleInv'
<1> USE DEF IndInv
<1>1. ASSUME NEW t \in Thread, NEW c,
             \/ Submit(t, c) \/ Alloc(t, c) \/ EnqueueEvent(t, c) \/ WaitFor(t, c) \/ Wait(t, c)
             \/ DestructorWaitFor(t, c) \/ DropBuffer(t, c) \/ DropQueue(t, c)
      PROVE  IdleInv'
  <2>1. thread[t].at = "free" /\ thread \in [Thread -> ThreadType]
    BY <1>1 DEF Submit, Alloc, EnqueueEvent, WaitFor, Wait, DestructorWaitFor, DropBuffer, DropQueue, Begin,
                UserInv, UserType
  <2>2. todo[User(t)] = <<>>
    BY <2>1 DEF IdleInv
  <2>3. UNCHANGED <<host, worker>>
    BY <1>1 DEF Submit, Alloc, EnqueueEvent, WaitFor, Wait, DestructorWaitFor, DropBuffer, DropQueue, Enqueue,
                nativeVars, callbackVars
  <2>4. \A u \in Thread \ {t} : thread'[u] = thread[u]
    BY <1>1, <2>1 DEF Submit, Alloc, EnqueueEvent, WaitFor, Wait, DestructorWaitFor, DropBuffer, DropQueue, Place
  <2>5. CASE DropBuffer(t, c) \/ DropQueue(t, c)
    <3>1. thread'[t].at = "return"
      BY <2>1, <2>5 DEF DropBuffer, DropQueue, Place
    <3>2. \A a \in Actor \ {User(t)} : todo'[a] = todo[a]
      BY <2>5 DEF DropBuffer, DropQueue, TodoInv
    <3> QED
      BY <2>3, <2>4, <3>1, <3>2, IdleUser
  <2>6. CASE ~(DropBuffer(t, c) \/ DropQueue(t, c))
    <3>1. todo' = todo
      BY <1>1, <2>6 DEF Submit, Alloc, EnqueueEvent, WaitFor, Wait, DestructorWaitFor, refVars
    <3> QED
      BY <2>2, <2>3, <2>4, <3>1, IdleUser
  <2> QED
    BY <2>5, <2>6
<1>2. ASSUME NEW t \in Thread, SetEvent(t) \/ SetLast(t) \/ Sync(t) \/ Await(t) \/ Return(t)
      PROVE  IdleInv'
  <2>1. todo[User(t)] = <<>>
    BY <1>2 DEF SetEvent, SetLast, Sync, Await, Return, IdleInv
  <2>2. UNCHANGED <<host, worker, todo>>
    BY <1>2 DEF SetEvent, SetLast, Sync, Await, Return, nativeVars, callbackVars, refVars
  <2>3. \A u \in Thread \ {t} : thread'[u] = thread[u]
    BY <1>2 DEF SetEvent, SetLast, Sync, Await, Return, UserInv, UserType
  <2> QED
    BY <2>1, <2>2, <2>3, IdleUser
<1>3. ASSUME NEW q \in Queue,
             \/ NativeStep(q) \/ HostBegin(q) \/ HostReturn(q) \/ HostClosed(q)
             \/ WorkerRun(q) \/ WorkerPop(q) \/ WorkerSet(q)
      PROVE  IdleInv'
  <2>1. /\ host \in [Queue -> {"idle", "submitted", "closing"}]
        /\ worker \in [Queue -> {"idle", "ran", "destroying"}]
        /\ todo \in [Actor -> Seq(Refs)]
        /\ Host(q) \in Actor /\ Worker(q) \in Actor /\ Host(q) # Worker(q)
    BY DEF CoreInv, CoreType, TodoInv, Host, Worker, Actor
  <2>2. /\ host[q] # "closing" => todo[Host(q)] = <<>>
        /\ worker[q] # "destroying" => todo[Worker(q)] = <<>>
    BY DEF IdleInv
  <2>3. UNCHANGED thread
    BY <1>3 DEF NativeStep, HostBegin, HostReturn, HostClosed, WorkerRun, WorkerPop, WorkerSet, userVars
  <2>4. \A p \in Queue \ {q} : host'[p] = host[p] /\ worker'[p] = worker[p]
    BY <1>3, <2>1 DEF NativeStep, HostBegin, HostReturn, HostClosed, WorkerRun, WorkerPop, WorkerSet,
                      nativeVars, callbackVars
  <2>5. CASE HostReturn(q)
    BY <2>1, <2>2, <2>3, <2>4, <2>5, IdleQueue DEF HostReturn, callbackVars
  <2>6. CASE WorkerPop(q)
    BY <2>1, <2>2, <2>3, <2>4, <2>6, IdleQueue DEF WorkerPop, nativeVars
  <2>7. CASE ~HostReturn(q) /\ ~WorkerPop(q)
    <3>1. todo' = todo
      BY <1>3, <2>7 DEF NativeStep, HostBegin, HostClosed, WorkerRun, WorkerSet, refVars
    <3>2. /\ host'[q] # "closing" => todo[Host(q)] = <<>>
          /\ worker'[q] # "destroying" => todo[Worker(q)] = <<>>
      BY <1>3, <2>1, <2>2, <2>7 DEF NativeStep, HostBegin, HostClosed, WorkerRun, WorkerSet, nativeVars, callbackVars
    <3> QED
      BY <2>3, <2>4, <3>1, <3>2, IdleQueue
  <2> QED
    BY <2>5, <2>6, <2>7
<1>4. ASSUME NEW a \in Actor, Drop(a) PROVE IdleInv'
  BY <1>4, IdleDrop
<1>5. CASE UNCHANGED vars
  BY <1>5 DEF vars, nativeVars, callbackVars, refVars, userVars, IdleInv
<1>6. \A t \in Thread : User(t) \in Actor
  BY DEF User, Actor
<1>7. \A q \in Queue : Host(q) \in Actor /\ Worker(q) \in Actor
  BY DEF Host, Worker, Actor
<1>8. ASSUME NEW t \in Thread, CallBegins(t) \/ CallGoesOn(t) PROVE IdleInv'
  BY <1>1, <1>2, <1>4, <1>6, <1>8 DEF CallBegins, CallGoesOn
<1>9. ASSUME NEW q \in Queue, NativeRuntime(q) \/ CallbackThread(q) PROVE IdleInv'
  BY <1>3, <1>4, <1>7, <1>9 DEF NativeRuntime, CallbackThread
<1> QED
  BY <1>5, <1>8, <1>9 DEF Next

-----------------------------------------------------------------------------
(* A native queue that is destroyed is empty.                              *)

\* A reference that is to be dropped is counted.
LEMMA TokenCounted ==
    ASSUME TodoInv, NEW a \in Actor, NEW k \in 1..Len(todo[a]), NEW what, NEW Q,
           IsFiniteSet(Tokens(todo, what, Q)), IsRef(todo[a][k], what, Q)
    PROVE  Count(what, Q) # 0
<1>1. PICK s \in Seq(Refs) : s = todo[a]
  BY DEF TodoInv
<1>2. PICK n : n = Len(s) + 1 - k
  OBVIOUS
<1>3. n \in 1..Len(s) /\ Len(s) + 1 - n = k
  BY <1>1, <1>2
<1>4. n \in DueOf(todo[a], what, Q)
  BY <1>1, <1>3 DEF DueOf
<1>5. <<a, n>> \in Tokens(todo, what, Q)
  BY <1>4 DEF Tokens
<1> QED
  BY <1>5, FS_EmptySet DEF Count

\* Whoever holds a native queue keeps it from being destroyed.
LEMMA StreamAlive ==
    ASSUME IndInv, RefsType, CountsInv, NEW q \in Queue,
           held[q] # {} \/ Closure(q) \/ BufferOf(q) \/ Count("stream", {q}) # 0
    PROVE  streamRefs[q] >= 1
<1>1. PICK h, o, c, w : h = HandleRef(q) /\ o = OwnerRef(q) /\ c = ClosureRef(q) /\ w = Count("stream", {q})
  OBVIOUS
<1>2. h \in Nat /\ o \in Nat /\ c \in Nat /\ w \in Nat
  BY <1>1, PartsNat DEF PartsType, IndInv
<1>3. (held[q] # {} => h = 1) /\ (Closure(q) => c = 1) /\ (BufferOf(q) => o = 1)
  BY <1>1 DEF HandleRef, ClosureRef, OwnerRef
<1>4. streamRefs[q] = h + o + c + w
  BY <1>1 DEF CountsInv, StreamHolders
<1> QED
  BY <1>1, <1>2, <1>3, <1>4

\* A step that concerns the native queue of q, which is not destroyed.
LEMMA StreamKept ==
    ASSUME StreamEnd, NEW q \in Queue, streamRefs'[q] # 0,
           \A p \in Queue \ {q} : streamRefs'[p] = streamRefs[p] /\ stream'[p] = stream[p]
    PROVE  StreamEnd'
  BY DEF StreamEnd

\* Calls of user threads.
LEMMA StreamCall ==
    ASSUME IndInv, RefsType, CountsInv, StreamEnd, NEW t \in Thread, NEW c,
           \/ Submit(t, c) \/ Alloc(t, c) \/ EnqueueEvent(t, c) \/ WaitFor(t, c) \/ Wait(t, c)
           \/ DestructorWaitFor(t, c) \/ DropBuffer(t, c) \/ DropQueue(t, c)
    PROVE  StreamEnd'
<1> USE DEF IndInv
<1>1. CASE Wait(t, c) \/ DestructorWaitFor(t, c) \/ DropBuffer(t, c) \/ DropQueue(t, c)
  <2>1. UNCHANGED <<stream, streamRefs>>
    BY <1>1 DEF Wait, DestructorWaitFor, DropBuffer, DropQueue, nativeVars, refVars
  <2> QED
    BY <2>1 DEF StreamEnd
<1>2. CASE Submit(t, c) \/ Alloc(t, c) \/ EnqueueEvent(t, c) \/ WaitFor(t, c)
  <2>1. PICK q \in Queue : q = c.q
    BY <1>2, BeginFacts DEF Submit, Alloc, EnqueueEvent, WaitFor
  <2>2. t \in held[q]
    BY <1>2, <2>1 DEF Submit, Alloc, EnqueueEvent, WaitFor
  <2>3. streamRefs[q] >= 1 /\ streamRefs[q] \in Int
    BY <2>2, StreamAlive DEF RefsType
  <2>4. stream \in [Queue -> Seq(Nat)] /\ streamRefs \in [Queue -> Int]
    BY DEF CoreInv, CoreType, RefsType
  <2>5. \A p \in Queue \ {q} : streamRefs'[p] = streamRefs[p] /\ stream'[p] = stream[p]
    BY <1>2, <2>1, <2>4 DEF Submit, Alloc, EnqueueEvent, WaitFor, Enqueue, refVars
  <2>6. streamRefs'[q] = streamRefs[q] \/ streamRefs'[q] = streamRefs[q] + 1
    BY <1>2, <2>1, <2>4 DEF Submit, Alloc, EnqueueEvent, WaitFor, refVars
  <2>7. streamRefs'[q] # 0
    BY <2>3, <2>6
  <2> QED
    BY <2>5, <2>7, StreamKept
<1> QED
  BY <1>1, <1>2

\* Steps of the native queues and of the callback threads.
LEMMA StreamRuntime ==
    ASSUME IndInv, RefsType, CountsInv, StreamEnd, NEW q \in Queue,
           \/ NativeStep(q) \/ HostBegin(q) \/ HostReturn(q) \/ HostClosed(q)
           \/ WorkerRun(q) \/ WorkerPop(q) \/ WorkerSet(q)
    PROVE  StreamEnd'
<1> USE DEF IndInv
<1>1. UNCHANGED streamRefs
  BY DEF NativeStep, HostBegin, HostReturn, HostClosed, WorkerRun, WorkerPop, WorkerSet, refVars
<1>2. stream \in [Queue -> Seq(Nat)] /\ tasks \in [Queue -> Seq(Nat)]
  BY DEF CoreInv, CoreType
<1>3. \A p \in Queue \ {q} : stream'[p] = stream[p]
  BY <1>2 DEF NativeStep, HostBegin, HostReturn, HostClosed, WorkerRun, WorkerPop, WorkerSet,
              Completed, Enqueue, nativeVars
<1>4. CASE stream'[q] = stream[q]
  BY <1>1, <1>3, <1>4 DEF StreamEnd
<1>5. CASE stream[q] # <<>>
  BY <1>1, <1>3, <1>5 DEF StreamEnd
<1>6. CASE WorkerRun(q) /\ Closure(q)
  <2>1. streamRefs[q] >= 1 /\ streamRefs[q] \in Int
    BY <1>6, StreamAlive DEF RefsType
  <2> QED
    BY <1>1, <1>3, <2>1, StreamKept
<1>7. WorkerRun(q) /\ ~Closure(q) => stream' = stream
  <2>1. ASSUME WorkerRun(q), ~Closure(q) PROVE Head(tasks[q]) # FreeClosure
    <3>1. tasks[q] # <<>> /\ tasks[q] \in Seq(Nat)
      BY <1>2, <2>1 DEF WorkerRun
    <3>2. 1 \in 1..Len(tasks[q]) /\ Head(tasks[q]) = tasks[q][1]
      BY <3>1
    <3> QED
      BY <2>1, <3>2 DEF Closure, Queued
  <2> QED
    BY <2>1 DEF WorkerRun
<1>8. NativeStep(q) => stream[q] # <<>>
  BY DEF NativeStep
<1>9. HostReturn(q) \/ HostClosed(q) => stream'[q] = stream[q] \/ stream[q] # <<>>
  <2>1. HostReturn(q) => stream[q] # <<>>
    BY ClosingHead DEF HostReturn, InHost
  <2>2. HostClosed(q) /\ Cuda => stream[q] # <<>>
    BY ClosingHead DEF HostClosed, InHost
  <2>3. HostClosed(q) /\ ~Cuda => stream'[q] = stream[q]
    BY DEF HostClosed
  <2> QED
    BY <2>1, <2>2, <2>3
<1>10. HostBegin(q) \/ WorkerPop(q) \/ WorkerSet(q) => stream'[q] = stream[q]
  BY DEF HostBegin, WorkerPop, WorkerSet, nativeVars
<1> QED
  BY <1>4, <1>5, <1>6, <1>7, <1>8, <1>9, <1>10

\* Steps in which an actor drops what is next.
LEMMA StreamDrop ==
    ASSUME IndInv, RefsType, CountsInv, EndInv, StreamEnd, NEW a \in Actor, Drop(a)
    PROVE  StreamEnd'
<1> USE DEF IndInv
<1>1. CASE DropBufferRef(a) \/ BeginWait(a) \/ EndWait(a) \/ DropHandle(a) \/ DropThreadRef(a)
  <2>1. UNCHANGED <<stream, streamRefs>>
    BY <1>1 DEF DropBufferRef, BeginWait, EndWait, DropHandle, DropThreadRef, nativeVars
  <2> QED
    BY <2>1 DEF StreamEnd
<1>2. CASE DropStreamRef(a)
  <2>1. PICK q \in Queue : q = Head(todo[a]).q
    BY <1>2, DueFacts DEF DropStreamRef
  <2>2. /\ streamRefs[q] = 1 => stream[q] = <<>>
        /\ streamRefs' = [streamRefs EXCEPT ![q] = @ - 1] /\ UNCHANGED stream
        /\ streamRefs \in [Queue -> Int]
    BY <1>2, <2>1 DEF DropStreamRef, nativeVars, RefsType
  <2> QED
    BY <2>2 DEF StreamEnd
<1>3. CASE Delete(a)
  <2>1. PICK s \in Seq(Refs) : s = todo[a]
    BY DEF TodoInv
  <2>2. s # <<>> /\ Head(s).what = "deleter"
    BY <1>3, <2>1 DEF Delete, Due
  <2>3. Len(s) \in Nat /\ 1 \in 1..Len(s) /\ Head(s) = s[1]
    BY <2>1, <2>2
  <2>4. Deleting(a, 1)
    BY <2>1, <2>2, <2>3 DEF Deleting
  <2>5. PICK l \in 2..Len(s) : s[l].what = "stream" /\ s[l].q = s[1].q
    <3>1. DeleterOf(a, 1)
      BY <2>4 DEF EndInv
    <3>2. \E l \in 1 + 1..Len(s) : s[l].what = "stream" /\ s[l].q = s[1].q
      BY <2>1, <3>1 DEF DeleterOf
    <3> QED
      BY <2>3, <3>2
  <2>6. PICK q \in Queue : q = Head(s).q
    BY <1>3, <2>1, DueFacts DEF Delete
  <2>7. Count("stream", {q}) # 0
    <3>1. IsRef(todo[a][l], "stream", {q}) /\ l \in 1..Len(todo[a])
      BY <2>1, <2>3, <2>5, <2>6 DEF IsRef
    <3>2. IsFiniteSet(Tokens(todo, "stream", {q}))
      BY DEF RefsType, FiniteTokens
    <3> QED
      BY <3>1, <3>2, TokenCounted
  <2>8. streamRefs[q] >= 1
    BY <2>7, StreamAlive
  <2>9. stream \in [Queue -> Seq(Nat)] /\ streamRefs \in [Queue -> Int]
    BY DEF CoreInv, CoreType, RefsType
  <2>10. /\ \A p \in Queue \ {q} : streamRefs'[p] = streamRefs[p] /\ stream'[p] = stream[p]
         /\ streamRefs'[q] = streamRefs[q] \/ streamRefs'[q] = streamRefs[q] + 1
    BY <1>3, <2>1, <2>6, <2>9 DEF Delete, RunDeleter, Enqueue, nativeVars
  <2>11. streamRefs'[q] # 0
    BY <2>8, <2>9, <2>10
  <2> QED
    BY <2>10, <2>11, StreamKept
<1> QED
  BY <1>1, <1>2, <1>3 DEF Drop

-----------------------------------------------------------------------------
(* The buffer is freed once, after what must precede it.                   *)

\* A deleter is as before if operations are only added and done.
LEMMA DeleterKept ==
    ASSUME Grows, NEW a, NEW k, DeleterOf(a, k), todo'[a] = todo[a], buffer'.cover = buffer.cover
    PROVE  DeleterOf(a, k)'
<1>1. PICK s, cover : s = todo[a] /\ cover = buffer.cover
  OBVIOUS
<1>2. cover \subseteq executed => cover \subseteq executed'
  BY DEF Grows
<1>3. ASSUME NEW q, SubmittedTo(q, cover) PROVE SubmittedTo(q, cover)'
  BY <1>3 DEF SubmittedTo, Grows, Extends
<1>4. ASSUME NEW goal, Covered(finished \cup goal, cover) PROVE Covered(finished \cup goal, cover)'
  BY <1>4 DEF Covered, Grows, Extends
<1> QED
  BY <1>1, <1>2, <1>3, <1>4 DEF DeleterOf

\* Nobody frees the buffer with these references.
NoDeleter(s) == \A k \in 1..Len(s) : s[k].what # "deleter"

\* A step after which the buffer is freed as before, or in which it is still referenced.
LEMMA EndKept ==
    ASSUME EndInv, Grows, buffer'.cover = buffer.cover,
           (buffer'.q = buffer.q /\ buffer'.refs = buffer.refs) \/ buffer.refs # 0 \/ buffer.q = None,
           \A b \in Actor : todo'[b] = todo[b] \/ NoDeleter(todo'[b]),
           Freed' => Freed, \A q \in Queue : OneClosure(q)'
    PROVE  EndInv'
<1>1. ASSUME NEW b \in Actor, NEW k, Deleting(b, k)' PROVE todo'[b] = todo[b] /\ Deleting(b, k)
  BY <1>1 DEF Deleting, NoDeleter
<1>2. CASE buffer'.q = buffer.q /\ buffer'.refs = buffer.refs
  <2>1. ASSUME NEW b \in Actor, NEW k, Deleting(b, k)'
        PROVE  DeleterOf(b, k)' /\ (buffer.refs = 0 /\ buffer.q # None /\ ~Freed)'
    <3>1. todo'[b] = todo[b] /\ DeleterOf(b, k) /\ buffer.refs = 0 /\ buffer.q # None /\ ~Freed
      BY <1>1, <2>1 DEF EndInv
    <3> QED
      BY <1>2, <3>1, DeleterKept
  <2>2. \A b, c \in Actor : \A k, l : Deleting(b, k)' /\ Deleting(c, l)' => b = c /\ k = l
    BY <1>1 DEF EndInv
  <2>3. (Freed => buffer.refs = 0 /\ buffer.q # None /\ buffer.cover \subseteq executed)'
    BY <1>2 DEF EndInv, Grows
  <2>4. (buffer.cover # {} => buffer.refs = 0 /\ buffer.q # None)'
    BY <1>2 DEF EndInv
  <2> QED
    BY <2>1, <2>2, <2>3, <2>4 DEF EndInv
<1>3. CASE buffer.refs # 0 \/ buffer.q = None
  <2>1. ASSUME NEW b \in Actor, NEW k PROVE ~Deleting(b, k)'
    BY <1>1, <1>3 DEF EndInv
  <2>2. ~Freed' /\ buffer'.cover = {}
    BY <1>3 DEF EndInv
  <2> QED
    BY <2>1, <2>2 DEF EndInv
<1> QED
  BY <1>2, <1>3

\* The same operations and tasks.
LEMMA FreedSame ==
    ASSUME UNCHANGED <<op, tasks>>
    PROVE  (Freed' <=> Freed) /\ \A q \in Queue : OneClosure(q)' <=> OneClosure(q)
  BY DEF Freed, Closure, Queued, OneClosure, Op

\* A new operation that frees no memory.
LEMMA FreedAdded ==
    ASSUME NEW kind, NEW q, NEW target, NEW after, Added(kind, q, target, after), kind # "free", UNCHANGED tasks
    PROVE  (Freed' => Freed) /\ \A p \in Queue : OneClosure(p)' <=> OneClosure(p)
<1>1. Op' = Op \cup {NewOp} /\ (\A i \in Op : op'[i] = op[i]) /\ op'[NewOp].kind = kind
  BY DEF Added
<1> QED
  BY <1>1 DEF Freed, Closure, Queued, OneClosure

\* Only the first or the second reference that an actor drops can be the deleter.
LEMMA HeadNoDeleter ==
    ASSUME EndInv, NEW a \in Actor, NEW R, todo[a] \in Seq(R), todo[a] # <<>>,
           Head(todo[a]).what \notin {"deleter", "wait", "await"}
    PROVE  NoDeleter(todo[a])
<1>1. Head(todo[a]) = todo[a][1]
  OBVIOUS
<1>2. SUFFICES ASSUME NEW k \in 1..Len(todo[a]), todo[a][k].what = "deleter" PROVE FALSE
  BY DEF NoDeleter
<1>3. DeleterOf(a, k)
  BY <1>2 DEF EndInv, Deleting
<1> QED
  BY <1>1, <1>2, <1>3 DEF DeleterOf

\* What remains, and what is put before it.
LEMMA NoDeleterTail ==
    ASSUME NEW R, NEW s \in Seq(R), s # <<>>, NoDeleter(s) PROVE NoDeleter(Tail(s))
  BY TailElements DEF NoDeleter

\* The elements of two sequences, one after the other.
LEMMA JoinElements ==
    ASSUME NEW R, NEW s \in Seq(R), NEW t \in Seq(R), NEW u, u = s \o t
    PROVE  /\ Len(s) \in Nat /\ Len(t) \in Nat /\ Len(u) = Len(s) + Len(t)
           /\ \A k \in 1..Len(s) + Len(t) : u[k] = IF k <= Len(s) THEN s[k] ELSE t[k - Len(s)]
  OBVIOUS

\* Two sequences without a deleter have none together.
LEMMA NoDeleterJoin ==
    ASSUME NEW R, NEW s \in Seq(R), NEW t \in Seq(R), NoDeleter(s), NoDeleter(t) PROVE NoDeleter(s \o t)
<1>1. /\ Len(s) \in Nat /\ Len(t) \in Nat /\ Len(s \o t) = Len(s) + Len(t)
      /\ \A k \in 1..Len(s) + Len(t) : (s \o t)[k] = IF k <= Len(s) THEN s[k] ELSE t[k - Len(s)]
  BY JoinElements
<1>2. SUFFICES ASSUME NEW k \in 1..Len(s) + Len(t) PROVE (s \o t)[k].what # "deleter"
  BY <1>1 DEF NoDeleter
<1>3. CASE k <= Len(s)
  <2>1. k \in 1..Len(s)
    BY <1>1, <1>3
  <2> QED
    BY <1>1, <1>3, <2>1 DEF NoDeleter
<1>4. CASE ~(k <= Len(s))
  <2>1. k - Len(s) \in 1..Len(t)
    BY <1>1, <1>4
  <2> QED
    BY <1>1, <1>4, <2>1 DEF NoDeleter
<1> QED
  BY <1>3, <1>4

\* The references that stand for no deleter.
LEMMA NoDeleterRefs ==
    ASSUME NEW q
    PROVE  /\ NoDeleter(<<>>) /\ NoDeleter(<<Ref("buffer", q)>>) /\ NoDeleter(<<Ref("thread", q)>>)
           /\ NoDeleter(<<Ref("stream", q)>>) /\ NoDeleter(<<Ref("thread", q), Ref("stream", q)>>)
           /\ NoDeleter(<<Ref("stream", q), Ref("thread", q)>>)
           /\ NoDeleter(<<Ref("buffer", q), Ref("thread", q)>>)
  BY DEF NoDeleter, Ref

\* An operation is enqueued that frees no memory.
LEMMA FreedEnqueue ==
    ASSUME op \in Seq(OpType), NEW kind, NEW q, NEW target, NEW after, Enqueue(kind, q, target, after),
           kind # "free", UNCHANGED tasks
    PROVE  (Freed' => Freed) /\ \A p \in Queue : OneClosure(p)' <=> OneClosure(p)
<1>1. PICK x : x = [kind |-> kind, q |-> q, target |-> target, after |-> after]
  OBVIOUS
<1>2. PICK S : S = OpType \cup {x}
  OBVIOUS
<1>3. op \in Seq(S) /\ x \in S
  BY <1>2
<1>4. op' = Append(op, x)
  BY <1>1 DEF Enqueue
<1>5. Op' = Op \cup {Len(op) + 1} /\ (\A i \in Op : op'[i] = op[i]) /\ op'[Len(op) + 1] = x
  BY <1>3, <1>4, AppendElements DEF Op
<1> QED
  BY <1>1, <1>5 DEF Freed, Closure, Queued, OneClosure

\* Calls of user threads.
LEMMA EndCall ==
    ASSUME IndInv, RefsType, CountsInv, EndInv, NEW t \in Thread, NEW c,
           \/ Submit(t, c) \/ Alloc(t, c) \/ EnqueueEvent(t, c) \/ WaitFor(t, c) \/ Wait(t, c)
           \/ DestructorWaitFor(t, c) \/ DropBuffer(t, c) \/ DropQueue(t, c)
    PROVE  EndInv'
<1> USE DEF IndInv
<1>1. Grows
  BY CallKeeps
<1>2. op \in Seq(OpType) /\ todo \in [Actor -> Seq(Refs)] /\ buffer \in BufferType
  BY DEF CoreInv, CoreType, TodoInv
<1>3. \A q \in Queue : OneClosure(q)
  BY DEF EndInv
<1>4. CASE Submit(t, c)
  <2>1. c.call # "free" /\ UNCHANGED <<tasks, todo>>
    BY <1>4 DEF Submit, EnqueueKind, HostKind, callbackVars
  <2>2. (Freed' => Freed) /\ \A q \in Queue : OneClosure(q)'
    <3>1. PICK after : Enqueue(c.call, c.q, 0, after)
      BY <1>4 DEF Submit
    <3> QED
      BY <1>2, <1>3, <2>1, <3>1, FreedEnqueue
  <2>3. CASE c.call = "keepAlive"
    <3>1. buffer.user /\ buffer'.cover = buffer.cover
      BY <1>2, <1>4, <2>3 DEF Submit, BufferType
    <3>2. buffer.refs # 0
      BY <1>2, <3>1, BufferAlive DEF BufferType
    <3> QED
      BY <1>1, <2>1, <2>2, <3>1, <3>2, EndKept
  <2>4. CASE c.call # "keepAlive"
    <3>1. buffer' = buffer
      BY <1>4, <2>4 DEF Submit
    <3> QED
      BY <1>1, <2>1, <2>2, <3>1, EndKept
  <2> QED
    BY <2>3, <2>4
<1>5. CASE Alloc(t, c)
  <2>1. buffer.q = None /\ buffer'.cover = {} /\ UNCHANGED <<tasks, todo>>
    BY <1>5 DEF Alloc, callbackVars
  <2>2. buffer.cover = {}
    BY <2>1 DEF EndInv
  <2>3. (Freed' => Freed) /\ \A q \in Queue : OneClosure(q)'
    <3>1. CASE Cuda
      <4>1. PICK after : Enqueue("alloc", c.q, 0, after)
        BY <1>5, <3>1 DEF Alloc
      <4> QED
        BY <1>2, <1>3, <2>1, <4>1, FreedEnqueue
    <3>2. CASE ~Cuda
      BY <1>3, <1>5, <2>1, <3>2, FreedSame DEF Alloc
    <3> QED
      BY <3>1, <3>2
  <2> QED
    BY <1>1, <2>1, <2>2, <2>3, EndKept
<1>6. CASE EnqueueEvent(t, c) \/ WaitFor(t, c)
  <2>1. UNCHANGED <<tasks, todo, buffer>>
    BY <1>6 DEF EnqueueEvent, WaitFor, callbackVars, refVars
  <2>2. PICK kind, target, after : kind # "free" /\ Enqueue(kind, c.q, target, after)
    BY <1>6 DEF EnqueueEvent, WaitFor
  <2>3. (Freed' => Freed) /\ \A q \in Queue : OneClosure(q)'
    BY <1>2, <1>3, <2>1, <2>2, FreedEnqueue
  <2> QED
    BY <1>1, <2>1, <2>3, EndKept
<1>7. CASE Wait(t, c) \/ DestructorWaitFor(t, c) \/ DropBuffer(t, c) \/ DropQueue(t, c)
  <2>1. UNCHANGED <<op, tasks>>
    BY <1>7 DEF Wait, DestructorWaitFor, DropBuffer, DropQueue, nativeVars, callbackVars
  <2>2. (Freed' => Freed) /\ \A q \in Queue : OneClosure(q)'
    BY <1>3, <2>1, FreedSame
  <2>3. buffer'.cover = buffer.cover /\ buffer'.q = buffer.q /\ buffer'.refs = buffer.refs
    BY <1>2, <1>7 DEF Wait, DestructorWaitFor, DropBuffer, DropQueue, refVars, BufferType
  <2>4. \A b \in Actor : todo'[b] = todo[b] \/ NoDeleter(todo'[b])
    <3>1. CASE Wait(t, c) \/ DestructorWaitFor(t, c)
      BY <3>1 DEF Wait, DestructorWaitFor, refVars
    <3>2. CASE DropBuffer(t, c) \/ DropQueue(t, c)
      <4>1. PICK s : NoDeleter(s) /\ todo' = [todo EXCEPT ![User(t)] = s]
        BY <3>2, NoDeleterRefs DEF DropBuffer, DropQueue, QueueRefs
      <4> QED
        BY <1>2, <4>1
    <3> QED
      BY <1>7, <3>1, <3>2
  <2> QED
    BY <1>1, <2>2, <2>3, <2>4, EndKept
<1> QED
  BY <1>4, <1>5, <1>6, <1>7

\* Steps of the native queues and of the callback threads.
LEMMA EndRuntime ==
    ASSUME IndInv, RefsType, CountsInv, EndInv, NEW q \in Queue,
           \/ NativeStep(q) \/ HostBegin(q) \/ HostReturn(q) \/ HostClosed(q)
           \/ WorkerRun(q) \/ WorkerPop(q) \/ WorkerSet(q)
    PROVE  EndInv'
<1> USE DEF IndInv
<1>1. Grows
  BY RuntimeKeeps
<1>2. op \in Seq(OpType) /\ todo \in [Actor -> Seq(Refs)] /\ buffer \in BufferType /\ CoreType
  BY DEF CoreInv, CoreType, TodoInv
<1>3. \A p \in Queue : OneClosure(p)
  BY DEF EndInv
<1>4. CASE NativeStep(q) \/ HostClosed(q) \/ WorkerSet(q)
  <2>1. UNCHANGED <<op, tasks, todo, buffer>>
    BY <1>4 DEF NativeStep, HostClosed, WorkerSet, nativeVars, callbackVars, refVars
  <2> QED
    BY <1>1, <1>3, <2>1, FreedSame, EndKept
<1>5. CASE HostBegin(q)
  <2>1. PICK h : h = HeadOf(q)
    OBVIOUS
  <2>2. /\ UNCHANGED <<op, todo>> /\ op[h].kind \in HostKind
        /\ tasks' = [tasks EXCEPT ![q] = Append(@, h)]
        /\ buffer' = IF ~Cuda /\ op[h].kind = "keepAlive" THEN [buffer EXCEPT !.refs = @ + 1] ELSE buffer
    BY <1>5, <2>1 DEF HostBegin
  <2>3. /\ h \in Op /\ op[h].kind = "keepAlive" => h \in BufferOps
        /\ \A p \in Queue : Closure(p)' <=> Closure(p)
    BY <1>5, <2>1, HoldersBegun
  <2>4. h \in Op
    BY <1>5, <2>1, HoldersBegun
  <2>5. h \in Nat /\ h # FreeClosure
    BY <1>2, <2>4 DEF Op, FreeClosure
  <2>6. Appended(q, h)
    BY <1>2, <2>2, <2>5, AppendEffect
  <2>7. \A p \in Queue : OneClosure(p)'
    <3>1. ASSUME NEW p \in Queue \ {q} PROVE OneClosure(p)'
      BY <1>3, <2>6 DEF OneClosure, Appended
    <3>2. OneClosure(q)'
      BY <1>3, <2>5, <2>6 DEF OneClosure, Appended
    <3> QED
      BY <3>1, <3>2
  <2>8. Freed' <=> Freed
    BY <2>2, <2>3 DEF Freed, Op
  <2>9. CASE op[h].kind = "keepAlive"
    <3>1. buffer.refs # 0
      BY <1>2, <2>3, <2>4, <2>9, BufferAlive DEF BufferType
    <3>2. buffer'.cover = buffer.cover
      BY <1>2, <2>2 DEF BufferType
    <3> QED
      BY <1>1, <2>2, <2>7, <2>8, <3>1, <3>2, EndKept
  <2>10. CASE op[h].kind # "keepAlive"
    <3>1. buffer' = buffer
      BY <2>2, <2>10
    <3> QED
      BY <1>1, <2>2, <2>7, <2>8, <3>1, EndKept
  <2> QED
    BY <2>9, <2>10
<1>6. CASE HostReturn(q)
  <2>1. PICK s : s = HostRefs(q)
    OBVIOUS
  <2>2. UNCHANGED <<op, tasks, buffer>> /\ todo' = [todo EXCEPT ![Host(q)] = s]
    BY <1>6, <2>1 DEF HostReturn, callbackVars
  <2>3. NoDeleter(s)
    BY <2>1, NoDeleterRefs DEF HostRefs
  <2>4. \A b \in Actor : todo'[b] = todo[b] \/ NoDeleter(todo'[b])
    BY <1>2, <2>2, <2>3
  <2> QED
    BY <1>1, <1>3, <2>2, <2>4, FreedSame, EndKept
<1>7. CASE WorkerRun(q)
  <2>1. UNCHANGED <<tasks, todo, buffer>>
    BY <1>7 DEF WorkerRun, refVars
  <2>2. Freed' => Freed
    <3>1. CASE Head(tasks[q]) = FreeClosure
      <4>1. PICK s \in Seq(Nat) : s = tasks[q] /\ s # <<>>
        BY <1>2, <1>7 DEF CoreType, WorkerRun
      <4>2. 1 \in 1..Len(s) /\ s[1] = Head(s)
        BY <4>1
      <4>3. Closure(q)
        BY <3>1, <4>1, <4>2 DEF Closure, Queued
      <4> QED
        BY <4>3 DEF Freed
    <3>2. CASE Head(tasks[q]) # FreeClosure
      <4>1. UNCHANGED op
        BY <1>7, <3>2 DEF WorkerRun
      <4> QED
        BY <2>1, <4>1, FreedSame
    <3> QED
      BY <3>1, <3>2
  <2>3. \A p \in Queue : OneClosure(p)'
    BY <1>3, <2>1 DEF OneClosure
  <2> QED
    BY <1>1, <2>1, <2>2, <2>3, EndKept
<1>8. CASE WorkerPop(q)
  <2>1. PICK s : s = ClosureRefs(q)
    OBVIOUS
  <2>2. UNCHANGED <<op, buffer>> /\ todo' = [todo EXCEPT ![Worker(q)] = s]
    BY <1>8, <2>1 DEF WorkerPop, nativeVars
  <2>3. NoDeleter(s)
    BY <2>1, NoDeleterRefs DEF ClosureRefs
  <2>4. \A b \in Actor : todo'[b] = todo[b] \/ NoDeleter(todo'[b])
    BY <1>2, <2>2, <2>3
  <2>5. PICK x : x = current[q]
    OBVIOUS
  <2>6. /\ \A p \in Queue : IF p = q /\ x = FreeClosure THEN Closure(p) /\ ~Closure(p)'
                            ELSE Closure(p)' <=> Closure(p)
        /\ OneClosure(q)' /\ \A p \in Queue \ {q} : tasks'[p] = tasks[p]
    BY <1>3, <1>8, <2>5, HoldersPopped
  <2>7. \A p \in Queue : OneClosure(p)'
    BY <1>3, <2>6 DEF OneClosure
  <2>8. Freed' => Freed
    BY <2>2, <2>6 DEF Freed, Op
  <2> QED
    BY <1>1, <2>2, <2>4, <2>7, <2>8, EndKept
<1> QED
  BY <1>4, <1>5, <1>6, <1>7, <1>8

\* Dropping a handle or a reference of a queue's resources.
LEMMA EndDropQueue ==
    ASSUME IndInv, EndInv, NEW a \in Actor, DropHandle(a) \/ DropThreadRef(a) \/ DropStreamRef(a)
    PROVE  EndInv'
<1> USE DEF IndInv
<1>1. Grows
  BY DropCore DEF Drop
<1>2. UNCHANGED <<op, tasks, buffer>>
  BY DEF DropHandle, DropThreadRef, DropStreamRef, nativeVars, callbackVars
<1>3. Due(a) \in {"handle", "thread", "stream"}
  BY DEF DropHandle, DropThreadRef, DropStreamRef
<1>4. PICK R : R = Refs
  OBVIOUS
<1>5. /\ todo \in [Actor -> Seq(R)] /\ todo[a] # <<>> /\ todo[a] \in Seq(R)
      /\ Head(todo[a]).what = Due(a) /\ Tail(todo[a]) \in Seq(R)
  BY <1>3, <1>4, DueFacts DEF TodoInv
<1>6. NoDeleter(Tail(todo[a]))
  <2>1. NoDeleter(todo[a])
    BY <1>3, <1>5, HeadNoDeleter
  <2> QED
    BY <1>5, <2>1, NoDeleterTail
<1>7. NoDeleter(todo'[a]) /\ \A b \in Actor \ {a} : todo'[b] = todo[b]
  <2>1. CASE DropHandle(a)
    <3>1. PICK q \in Queue : q = Head(todo[a]).q
      BY <2>1, DueFacts DEF DropHandle
    <3>2. PICK s : s = QueueRefs(q, None)
      OBVIOUS
    <3>3. todo' = [todo EXCEPT ![a] = s \o Tail(@)]
      BY <2>1, <3>1, <3>2 DEF DropHandle
    <3>4. NoDeleter(s)
      BY <3>2, NoDeleterRefs DEF QueueRefs
    <3>5. s \in Seq(RefType)
      <4>1. CASE held[q] = {None}
        <5>1. PICK x, y \in RefType : x = Ref("thread", q) /\ y = Ref("stream", q)
          BY RefTyped
        <5> QED
          BY <3>2, <4>1, <5>1 DEF QueueRefs
      <4>2. CASE held[q] # {None}
        BY <3>2, <4>2 DEF QueueRefs
      <4> QED
        BY <4>1, <4>2
    <3>6. NoDeleter(s \o Tail(todo[a]))
      <4>1. PICK T : T = RefType
        OBVIOUS
      <4>2. PICK t : t = Tail(todo[a])
        OBVIOUS
      <4>3. R \subseteq T
        BY <1>4, <4>1 DEF Refs
      <4>4. t \in Seq(T) /\ s \in Seq(T)
        BY <1>5, <3>5, <4>1, <4>2, <4>3
      <4> QED
        BY <1>6, <3>4, <4>2, <4>4, NoDeleterJoin
    <3> QED
      BY <1>5, <3>3, <3>6
  <2>2. CASE DropThreadRef(a) \/ DropStreamRef(a)
    <3>1. todo' = [todo EXCEPT ![a] = Tail(@)]
      BY <2>2 DEF DropThreadRef, DropStreamRef
    <3> QED
      BY <1>5, <1>6, <3>1
  <2> QED
    BY <2>1, <2>2
<1>8. \A b \in Actor : todo'[b] = todo[b] \/ NoDeleter(todo'[b])
  BY <1>7
<1>9. \A q \in Queue : OneClosure(q)
  BY DEF EndInv
<1> QED
  BY <1>1, <1>2, <1>8, <1>9, FreedSame, EndKept

\* The first reference, if it is no deleter, is done and another put in its place or none;
\* the buffer is freed as before if its deleter still knows what precedes.
LEMMA EndWaits ==
    ASSUME EndInv, Grows, UNCHANGED <<op, tasks, buffer>>, NEW a \in Actor,
           \A b \in Actor \ {a} : todo'[b] = todo[b],
           NEW m \in {0, 1},
           \A k : Deleting(a, k)' => Deleting(a, k + m) /\ DeleterOf(a, k)'
    PROVE  EndInv'
<1>1. ASSUME NEW b \in Actor, NEW k, Deleting(b, k)'
      PROVE  DeleterOf(b, k)' /\ (buffer.refs = 0 /\ buffer.q # None /\ ~Freed)'
  <2>1. CASE b = a
    <3>1. buffer.refs = 0 /\ buffer.q # None /\ ~Freed
      BY <1>1, <2>1 DEF EndInv
    <3> QED
      BY <1>1, <2>1, <3>1, FreedSame
  <2>2. CASE b # a
    <3>1. Deleting(b, k) /\ todo'[b] = todo[b]
      BY <1>1, <2>2 DEF Deleting
    <3>2. DeleterOf(b, k) /\ buffer.refs = 0 /\ buffer.q # None /\ ~Freed
      BY <3>1 DEF EndInv
    <3> QED
      BY <3>1, <3>2, DeleterKept, FreedSame
  <2> QED
    BY <2>1, <2>2
<1>2. ASSUME NEW b \in Actor, NEW c \in Actor, NEW k, NEW l, Deleting(b, k)', Deleting(c, l)'
      PROVE  b = c /\ k = l
  <2>1. \A d \in Actor \ {a} : \A n : Deleting(d, n)' => Deleting(d, n)
    BY DEF Deleting
  <2>2. k \in Int /\ l \in Int
    BY <1>2 DEF Deleting
  <2>3. \A d, e \in Actor : \A i, j : Deleting(d, i) /\ Deleting(e, j) => d = e /\ i = j
    BY DEF EndInv
  <2>4. CASE b = a /\ c = a
    <3>1. k + m = l + m
      BY <1>2, <2>3, <2>4
    <3> QED
      BY <2>2, <2>4, <3>1
  <2>5. CASE b # a /\ c # a
    BY <1>2, <2>1, <2>3, <2>5
  <2>6. CASE b = a /\ c # a
    BY <1>2, <2>1, <2>3, <2>6
  <2>7. CASE b # a /\ c = a
    BY <1>2, <2>1, <2>3, <2>7
  <2> QED
    BY <2>4, <2>5, <2>6, <2>7
<1>3. \A q \in Queue : OneClosure(q)'
  BY FreedSame DEF EndInv
<1>4. (Freed => buffer.refs = 0 /\ buffer.q # None /\ buffer.cover \subseteq executed)'
  BY FreedSame DEF EndInv, Grows
<1>5. (buffer.cover # {} => buffer.refs = 0 /\ buffer.q # None)'
  BY DEF EndInv
<1> QED
  BY <1>1, <1>2, <1>3, <1>4, <1>5 DEF EndInv

\* A deleter that is waited for is the second reference.
LEMMA SecondDeleter ==
    ASSUME EndInv, NEW a \in Actor, NEW k, Deleting(a, k), todo[a][1].what # "deleter"
    PROVE  k = 2 /\ DeleterOf(a, 2)
<1>1. DeleterOf(a, k)
  BY DEF EndInv
<1> QED
  BY <1>1 DEF DeleterOf, Deleting

\* destructorWaitFor waits for all that is in the queue: what precedes the free is done
\* when all of that is complete.
LEMMA EndBeginWait ==
    ASSUME IndInv, EndInv, NEW a \in Actor, BeginWait(a) PROVE EndInv'
<1> USE DEF IndInv
<1>1. Grows
  BY DropCore DEF Drop
<1>2. UNCHANGED <<op, stream, finished, tasks, buffer>>
  BY DEF BeginWait, nativeVars, callbackVars
<1>3. PICK R : R = RefType
  OBVIOUS
<1>4. PICK s : s = todo[a]
  OBVIOUS
<1>5. /\ s # <<>> /\ s \in Seq(R) /\ Head(s).what = "wait" /\ Head(s).q \in Queue
  <2>1. PICK T : T = Refs
    OBVIOUS
  <2>2. s \in Seq(T) /\ T \subseteq R
    BY <1>3, <1>4, <2>1 DEF TodoInv, Refs
  <2> QED
    BY <1>4, <2>2, DueFacts DEF BeginWait
<1>6. PICK q \in Queue : q = Head(s).q
  BY <1>5
<1>7. PICK y : y = [what |-> "await", q |-> q, goal |-> InStream(q)]
  OBVIOUS
<1>8. PICK t : t = <<y>> \o Tail(s)
  OBVIOUS
<1>9. todo' = [todo EXCEPT ![a] = t]
  BY <1>4, <1>6, <1>7, <1>8 DEF BeginWait
<1>10. todo'[a] = t /\ \A b \in Actor \ {a} : todo'[b] = todo[b]
  BY <1>9 DEF TodoInv
<1>11. /\ Len(s) \in Nat \ {0} /\ Len(t) = Len(s) /\ t[1] = y
       /\ \A k \in 2..Len(s) : t[k] = s[k]
       /\ s[1] = Head(s)
  <2>1. y \in RefType
    <3>1. InStream(q) \in SUBSET Nat
      BY DEF InStream, CoreInv, CoreType
    <3> QED
      BY <1>7, <3>1 DEF RefType
  <2>2. y \in R /\ Tail(s) \in Seq(R)
    BY <1>3, <1>5, <2>1
  <2>3. PICK r \in Seq(R) : r = Tail(s)
    BY <2>2
  <2>4. /\ Len(s) \in Nat \ {0} /\ Len(r) = Len(s) - 1 /\ s[1] = Head(s)
        /\ \A k \in 2..Len(s) : s[k] = r[k - 1]
    BY <1>5, <2>3
  <2>5. /\ Len(t) = Len(r) + 1 /\ t[1] = y /\ \A k \in 2..Len(r) + 1 : t[k] = r[k - 1]
    BY <1>8, <2>2, <2>3
  <2> QED
    BY <2>4, <2>5
<1>12. ASSUME NEW k, Deleting(a, k)' PROVE Deleting(a, k + 0) /\ DeleterOf(a, k)'
  <2>1. k \in 1..Len(t) /\ t[k].what = "deleter"
    BY <1>10, <1>12 DEF Deleting
  <2>2. k # 1
    BY <1>7, <1>11, <2>1
  <2>3. k \in 2..Len(s) /\ s[k] = t[k] /\ k + 0 = k
    BY <1>11, <2>1, <2>2
  <2>4. Deleting(a, k)
    BY <1>4, <1>11, <2>1, <2>3 DEF Deleting
  <2>5. k = 2 /\ DeleterOf(a, 2)
    BY <1>4, <1>5, <1>11, <2>4, SecondDeleter
  <2>6. SubmittedTo(q, buffer.cover) /\ \E l \in 3..Len(s) : s[l].what = "stream" /\ s[l].q = s[2].q
    <3>1. todo[a][1].what = "wait" /\ todo[a][1].q = q
      BY <1>4, <1>5, <1>6, <1>11
    <3>2. SubmittedTo(q, buffer.cover)
      BY <2>5, <3>1 DEF DeleterOf
    <3>3. \E l \in 2 + 1..Len(s) : s[l].what = "stream" /\ s[l].q = s[2].q
      BY <1>4, <2>5 DEF DeleterOf
    <3> QED
      BY <3>2, <3>3
  <2>7. Covered(finished \cup InStream(q), buffer.cover)
    <3>1. SUFFICES ASSUME NEW j \in buffer.cover
                   PROVE  \E g \in (finished \cup InStream(q)) \cap Op :
                             op[g].kind \notin DeferredKind /\ (j = g \/ j \in op[g].after)
      BY DEF Covered
    <3>2. PICK g \in Op : op[g].q = q /\ op[g].kind \notin DeferredKind /\ (j = g \/ j \in op[g].after)
      BY <2>6 DEF SubmittedTo
    <3> QED
      BY <3>2, InStreamOrDone
  <2>8. Covered(finished \cup y.goal, buffer.cover)'
    <3>1. y.goal = InStream(q)
      BY <1>7
    <3> QED
      BY <1>2, <2>7, <3>1 DEF Covered, Op
  <2>9. \E l \in 2 + 1..Len(t) : t[l].what = "stream" /\ t[l].q = t[2].q
    BY <1>11, <2>3, <2>5, <2>6
  <2>10. DeleterOf(a, 2)'
    <3>1. todo'[a][1].what = "await" /\ todo'[a][1].goal = y.goal
      BY <1>7, <1>10, <1>11
    <3> QED
      BY <1>10, <2>8, <2>9, <3>1 DEF DeleterOf
  <2> QED
    BY <2>3, <2>4, <2>5, <2>10
<1>13. PICK m \in {0, 1} : m = 0
  OBVIOUS
<1>14. \A k : Deleting(a, k)' => Deleting(a, k + m) /\ DeleterOf(a, k)'
  BY <1>12, <1>13
<1> QED
  BY <1>1, <1>2, <1>10, <1>13, <1>14, EndWaits

\* The wait is over: what precedes the free is done.
LEMMA EndEndWait ==
    ASSUME IndInv, EndInv, NEW a \in Actor, EndWait(a) PROVE EndInv'
<1> USE DEF IndInv
<1>1. Grows
  BY DropCore DEF Drop
<1>2. UNCHANGED <<op, finished, executed, tasks, buffer>>
  BY DEF EndWait, nativeVars, callbackVars
<1>3. PICK s, R : s = todo[a] /\ R = Refs
  OBVIOUS
<1>4. s # <<>> /\ s \in Seq(R) /\ Head(s).what = "await" /\ Head(s).goal \subseteq finished
  BY <1>3, DueFacts DEF EndWait, TodoInv
<1>5. PICK t : t = Tail(s)
  OBVIOUS
<1>6. todo'[a] = t /\ \A b \in Actor \ {a} : todo'[b] = todo[b]
  BY <1>3, <1>5 DEF EndWait, TodoInv
<1>7. /\ Len(s) \in Nat \ {0} /\ Len(t) = Len(s) - 1 /\ s[1] = Head(s)
      /\ \A k \in 1..Len(t) : t[k] = s[k + 1]
  BY <1>4, <1>5, TailElements
<1>8. ASSUME NEW k, Deleting(a, k)' PROVE Deleting(a, k + 1) /\ DeleterOf(a, k)'
  <2>1. k \in 1..Len(t) /\ t[k].what = "deleter"
    BY <1>6, <1>8 DEF Deleting
  <2>2. k + 1 \in 1..Len(s) /\ s[k + 1].what = "deleter"
    BY <1>7, <2>1
  <2>3. Deleting(a, k + 1)
    BY <1>3, <2>2 DEF Deleting
  <2>4. k + 1 = 2 /\ DeleterOf(a, 2)
    BY <1>3, <1>4, <1>7, <2>3, SecondDeleter
  <2>5. k = 1
    BY <2>1, <2>4
  <2>6. /\ Covered(finished \cup s[1].goal, buffer.cover)
        /\ \E l \in 3..Len(s) : s[l].what = "stream" /\ s[l].q = s[2].q
    <3>1. s[1].what = "await"
      BY <1>4, <1>7
    <3>2. \E l \in 2 + 1..Len(s) : s[l].what = "stream" /\ s[l].q = s[2].q
      BY <1>3, <2>4 DEF DeleterOf
    <3> QED
      BY <1>3, <2>4, <3>1, <3>2 DEF DeleterOf
  <2>7. Covered(finished, buffer.cover)
    <3>1. finished \cup s[1].goal = finished
      BY <1>4, <1>7
    <3> QED
      BY <2>6, <3>1
  <2>8. buffer'.cover \subseteq executed'
    BY <1>2, <2>7, CoveredDone
  <2>9. \E l \in 1 + 1..Len(t) : t[l].what = "stream" /\ t[l].q = t[1].q
    <3>1. PICK l \in 3..Len(s) : s[l].what = "stream" /\ s[l].q = s[2].q
      BY <2>6
    <3>2. l - 1 \in 1 + 1..Len(t) /\ l - 1 \in 1..Len(t) /\ (l - 1) + 1 = l /\ 1 \in 1..Len(t) /\ 1 + 1 = 2
      BY <1>7, <3>1
    <3>3. t[l - 1] = s[l] /\ t[1] = s[2]
      BY <1>7, <3>2
    <3> QED
      BY <3>1, <3>2, <3>3
  <2>10. DeleterOf(a, 1)'
    BY <1>6, <2>8, <2>9 DEF DeleterOf
  <2> QED
    BY <2>3, <2>5, <2>10
<1>9. PICK m \in {0, 1} : m = 1
  OBVIOUS
<1>10. \A k : Deleting(a, k)' => Deleting(a, k + m) /\ DeleterOf(a, k)'
  BY <1>8, <1>9
<1> QED
  BY <1>1, <1>2, <1>6, <1>9, <1>10, EndWaits

\* The deleter runs once, and after what must precede.
LEMMA EndDelete ==
    ASSUME IndInv, EndInv, NEW a \in Actor, Delete(a)
    PROVE  EndInv' /\ \A q \in Queue : ~Closure(q)
<1> USE DEF IndInv
<1>1. Grows
  BY DropCore DEF Drop
<1>2. PICK s, R : s = todo[a] /\ R = Refs
  OBVIOUS
<1>3. s # <<>> /\ s \in Seq(R) /\ Head(s).what = "deleter" /\ Head(s).q \in Queue
  BY <1>2, DueFacts DEF Delete, TodoInv
<1>4. PICK t : t = Tail(s)
  OBVIOUS
<1>5. todo'[a] = t /\ (\A b \in Actor \ {a} : todo'[b] = todo[b]) /\ buffer' = buffer
  BY <1>2, <1>4 DEF Delete, TodoInv
<1>6. /\ Len(s) \in Nat \ {0} /\ Len(t) = Len(s) - 1 /\ s[1] = Head(s) /\ 1 \in 1..Len(s)
      /\ \A k \in 1..Len(t) : t[k] = s[k + 1]
  BY <1>3, <1>4, TailElements
<1>7. Deleting(a, 1)
  BY <1>2, <1>3, <1>6 DEF Deleting
<1>8. DeleterOf(a, 1) /\ buffer.refs = 0 /\ buffer.q # None /\ ~Freed
  BY <1>7 DEF EndInv
<1>9. buffer.cover \subseteq executed
  BY <1>8 DEF DeleterOf
<1>10. \A b \in Actor : \A k : Deleting(b, k) => b = a /\ k = 1
  BY <1>7 DEF EndInv
<1>11. ASSUME NEW b \in Actor, NEW k PROVE ~Deleting(b, k)'
  <2>1. CASE b = a
    <3>1. SUFFICES ASSUME k \in 1..Len(t), t[k].what = "deleter" PROVE FALSE
      BY <1>5, <2>1 DEF Deleting
    <3>2. k + 1 \in 1..Len(s) /\ s[k + 1].what = "deleter" /\ k + 1 # 1
      BY <1>6, <3>1
    <3>3. Deleting(a, k + 1)
      BY <1>2, <3>2 DEF Deleting
    <3> QED
      BY <1>10, <3>2, <3>3
  <2>2. CASE b # a
    BY <1>5, <1>10, <2>2 DEF Deleting
  <2> QED
    BY <2>1, <2>2
<1>12. \A q \in Queue : ~Closure(q)
  BY <1>8 DEF Freed
<1>13. \A p \in Queue : OneClosure(p)
  BY DEF EndInv
<1>14. ASSUME NEW p \in Queue PROVE OneClosure(p)'
  <2>1. CASE Cuda
    <3>1. UNCHANGED tasks
      BY <2>1 DEF Delete, RunDeleter, callbackVars
    <3> QED
      BY <1>13, <3>1 DEF OneClosure
  <2>2. CASE ~Cuda
    <3>1. PICK q \in Queue : q = Head(s).q
      BY <1>3
    <3>2. /\ tasks' = [tasks EXCEPT ![q] = Append(@, FreeClosure)]
          /\ UNCHANGED <<program, op, stream, finished, host>>
      BY <1>2, <2>2, <3>1 DEF Delete, RunDeleter, nativeVars
    <3>3. Appended(q, FreeClosure)
      <4>1. FreeClosure \in Nat /\ CoreType
        BY DEF FreeClosure, CoreInv
      <4> QED
        BY <3>2, <4>1, AppendEffect
    <3>4. OneClosure(q)' /\ \A r \in Queue \ {q} : tasks'[r] = tasks[r]
      BY <1>12, <3>2, <3>3, HoldersClosure
    <3> QED
      BY <1>13, <3>4 DEF OneClosure
  <2> QED
    BY <2>1, <2>2
<1>15. buffer'.cover \subseteq executed'
  BY <1>1, <1>5, <1>9 DEF Grows
<1> QED
  BY <1>5, <1>8, <1>11, <1>12, <1>14, <1>15 DEF EndInv

\* The only deleter in t is the k-th, the deleter's reference of q's native queue behind it,
\* and the wait for queue p before it if it is the second.
DeleterAt(t, k, q, p) ==
    /\ k \in 1..Len(t) /\ t[k].what = "deleter" /\ t[k].q = q
    /\ \A l \in 1..Len(t) : t[l].what = "deleter" => l = k
    /\ k = 2 => t[1].what = "wait" /\ t[1].q = p
    /\ \E l \in k + 1..Len(t) : t[l].what = "stream" /\ t[l].q = q

\* What is to be destroyed with the buffer.
LEMMA DestructionOrder ==
    ASSUME NEW q \in Queue, q = buffer.q, buffer.waits \in Queue \cup {None}, NEW r \in Seq(RefType), NoDeleter(r),
           NEW t, t = Destruction \o r, NEW k, k = IF buffer.waits = None THEN 1 ELSE 2
    PROVE  DeleterAt(t, k, q, buffer.waits)
<1>1. PICK R : R = RefType
  OBVIOUS
<1>2. PICK x, st, th : x = Ref("deleter", q) /\ st = Ref("stream", q) /\ th = Ref("thread", q)
  OBVIOUS
<1>3. /\ x \in R /\ st \in R /\ th \in R
      /\ x.what = "deleter" /\ x.q = q /\ st.what = "stream" /\ st.q = q /\ th.what = "thread"
  BY <1>1, <1>2 DEF Ref, RefType
<1>31. PICK u : u = DeleterRefs(q)
  OBVIOUS
<1>41. u \in Seq(R) /\ Len(u) \in Nat \ {0} /\ u[1] = st /\ \A n \in 1..Len(u) : u[n].what # "deleter"
  <2>1. CASE Cuda
    <3>1. u = <<st>>
      BY <1>2, <1>31, <2>1 DEF DeleterRefs
    <3> QED
      BY <1>3, <3>1
  <2>2. CASE ~Cuda
    <3>1. u = <<st, th>>
      BY <1>2, <1>31, <2>2 DEF DeleterRefs
    <3>2. Len(u) = 2 /\ u[1] = st /\ u[2] = th /\ u \in Seq(R)
      BY <1>3, <3>1
    <3> QED
      BY <1>3, <3>2
  <2> QED
    BY <2>1, <2>2
<1>4. r \in Seq(R) /\ Len(r) \in Nat /\ \A n \in 1..Len(r) : r[n].what # "deleter"
  BY <1>1 DEF NoDeleter
<1>42. PICK v : v = u \o r
  OBVIOUS
<1>5. v \in Seq(R) /\ Len(v) = Len(u) + Len(r) /\ v[1] = st /\ \A n \in 1..Len(v) : v[n].what # "deleter"
  <2>1. v \in Seq(R)
    BY <1>4, <1>41, <1>42
  <2>2. /\ Len(v) = Len(u) + Len(r)
        /\ \A n \in 1..Len(v) : v[n] = IF n <= Len(u) THEN u[n] ELSE r[n - Len(u)]
    BY <1>4, <1>41, <1>42
  <2>3. v[1] = st
    BY <1>4, <1>41, <2>2
  <2>4. ASSUME NEW n \in 1..Len(v) PROVE v[n].what # "deleter"
    <3>1. CASE n <= Len(u)
      <4>1. n \in 1..Len(u) /\ v[n] = u[n]
        BY <1>4, <1>41, <2>2, <3>1
      <4> QED
        BY <1>41, <4>1
    <3>2. CASE ~(n <= Len(u))
      <4>1. n - Len(u) \in 1..Len(r) /\ v[n] = r[n - Len(u)]
        BY <1>4, <1>41, <2>2, <3>2
      <4> QED
        BY <1>4, <4>1
    <3> QED
      BY <3>1, <3>2
  <2> QED
    BY <2>1, <2>2, <2>3, <2>4
<1>6. CASE buffer.waits = None
  <2>1. t = (<<x>> \o u) \o r
    BY <1>2, <1>31, <1>6 DEF Destruction
  <2>2. t = <<x>> \o v
    BY <1>3, <1>4, <1>41, <1>42, <2>1
  <2>3. Len(t) = Len(v) + 1 /\ t[1] = x /\ \A n \in 2..Len(t) : t[n] = v[n - 1] /\ n - 1 \in 1..Len(v)
    <3>1. PICK y : y = <<x>>
      OBVIOUS
    <3>2. y \in Seq(R) /\ Len(y) = 1 /\ y[1] = x
      BY <1>3, <3>1
    <3>3. t = y \o v /\ v \in Seq(R) /\ Len(v) \in Nat
      BY <1>4, <1>41, <1>5, <2>2, <3>1
    <3>4. Len(t) = Len(y) + Len(v) /\ \A n \in 1..Len(y) + Len(v) : t[n] = IF n <= Len(y) THEN y[n] ELSE v[n - Len(y)]
      BY <3>2, <3>3, JoinElements
    <3> QED
      BY <3>2, <3>3, <3>4
  <2>4. k = 1 /\ Len(v) \in Nat \ {0}
    BY <1>4, <1>41, <1>5, <1>6
  <2>5. \A l \in 1..Len(t) : t[l].what = "deleter" => l = k
    <3>1. SUFFICES ASSUME NEW l \in 1..Len(t), t[l].what = "deleter" PROVE l = 1
      BY <2>4
    <3>2. l \notin 2..Len(t)
      BY <1>5, <2>3, <3>1
    <3> QED
      BY <2>3, <2>4, <3>1, <3>2
  <2>6. 2 \in k + 1..Len(t) /\ t[2] = st
    BY <1>5, <2>3, <2>4
  <2> QED
    BY <1>3, <1>6, <2>3, <2>4, <2>5, <2>6 DEF DeleterAt
<1>7. CASE buffer.waits # None
  <2>1. PICK w, h, y : w = Ref("wait", buffer.waits) /\ h = Ref("handle", buffer.waits) /\ y = <<w, x, h>>
    OBVIOUS
  <2>2. t = (y \o u) \o r
    BY <1>2, <1>31, <1>7, <2>1 DEF Destruction
  <2>21. /\ w \in R /\ h \in R
        /\ w.what = "wait" /\ w.q = buffer.waits /\ h.what = "handle"
    BY <1>1, <1>7, <2>1 DEF Ref, RefType
  <2>3. y \in Seq(R) /\ Len(y) = 3 /\ y[1] = w /\ y[2] = x /\ y[3] = h
    BY <1>3, <2>1, <2>21
  <2>4. t = y \o v
    BY <1>4, <1>41, <1>42, <2>2, <2>3
  <2>5. /\ Len(t) = Len(v) + 3 /\ t[1] = w /\ t[2] = x /\ t[3] = h
        /\ \A n \in 4..Len(t) : t[n] = v[n - 3] /\ n - 3 \in 1..Len(v)
    <3>1. v \in Seq(R) /\ Len(v) \in Nat
      BY <1>4, <1>41, <1>5
    <3>2. Len(t) = Len(y) + Len(v) /\ \A n \in 1..Len(y) + Len(v) : t[n] = IF n <= Len(y) THEN y[n] ELSE v[n - Len(y)]
      BY <2>3, <2>4, <3>1, JoinElements
    <3> QED
      BY <2>3, <3>1, <3>2
  <2>6. k = 2 /\ Len(v) \in Nat \ {0}
    BY <1>4, <1>41, <1>5, <1>7
  <2>7. \A l \in 1..Len(t) : t[l].what = "deleter" => l = k
    <3>1. SUFFICES ASSUME NEW l \in 1..Len(t), t[l].what = "deleter" PROVE l = 2
      BY <2>6
    <3>2. l \notin 4..Len(t)
      BY <1>5, <2>5, <3>1
    <3>3. l \in {1, 2, 3}
      BY <1>4, <1>41, <1>5, <2>5, <3>1, <3>2
    <3> QED
      BY <2>5, <2>21, <3>1, <3>3
  <2>8. 4 \in k + 1..Len(t) /\ t[4] = st
    BY <1>5, <2>5, <2>6
  <2> QED
    BY <1>3, <1>7, <2>5, <2>6, <2>7, <2>8, <2>21 DEF DeleterAt
<1> QED
  BY <1>6, <1>7

\* The last reference of the buffer is dropped: its deleter waits for what precedes.
LEMMA EndDropBuffer ==
    ASSUME IndInv, IndInv', RefsType, CountsInv, EndInv, NEW a \in Actor, DropBufferRef(a) PROVE EndInv'
<1> USE DEF IndInv
<1>1. Grows
  BY DropCore DEF Drop
<1>2. UNCHANGED <<op, returned, need, executed, tasks>>
  BY DEF DropBufferRef, nativeVars, callbackVars, userVars
<1>3. buffer.refs >= 1 /\ buffer \in BufferType
  BY DropBufferRefCounts DEF TodoInv
<1>4. buffer.refs # 0
  BY <1>3 DEF BufferType
<1>5. (\A b \in Actor : \A k : ~Deleting(b, k)) /\ ~Freed /\ buffer.cover = {}
  BY <1>4 DEF EndInv
<1>6. (Freed' <=> Freed) /\ \A p \in Queue : OneClosure(p)'
  BY <1>2, FreedSame DEF EndInv
<1>7. PICK s, R : s = todo[a] /\ R = Refs
  OBVIOUS
<1>8. s # <<>> /\ s \in Seq(R) /\ Head(s).what = "buffer" /\ Head(s) \in Refs
  BY <1>7, DueFacts DEF DropBufferRef, TodoInv
<1>9. PICK r : r = Tail(s)
  OBVIOUS
<1>10. r \in Seq(RefType) /\ NoDeleter(r)
  <2>1. NoDeleter(s)
    BY <1>5, <1>7 DEF NoDeleter, Deleting
  <2>2. r \in Seq(R) /\ NoDeleter(r)
    BY <1>8, <1>9, <2>1, NoDeleterTail
  <2>3. R \subseteq RefType
    BY <1>7 DEF Refs
  <2> QED
    BY <2>2, <2>3
<1>11. \A b \in Actor \ {a} : todo'[b] = todo[b]
  BY DEF DropBufferRef, TodoInv
<1>12. CASE buffer.refs # 1
  <2>1. buffer'.cover = buffer.cover
    BY <1>3, <1>12 DEF DropBufferRef, BufferType
  <2>2. todo'[a] = <<>> \o r
    BY <1>7, <1>9, <1>12 DEF DropBufferRef, TodoInv
  <2>3. todo'[a] = r
    BY <1>10, <2>2
  <2>4. \A b \in Actor : todo'[b] = todo[b] \/ NoDeleter(todo'[b])
    BY <1>10, <1>11, <2>3
  <2> QED
    BY <1>1, <1>4, <1>6, <2>1, <2>4, EndKept
<1>13. CASE buffer.refs = 1
  <2>1. PICK q, p, d : q = buffer.q /\ p = buffer.waits /\ d = Destruction
    OBVIOUS
  <2>2. q \in Queue /\ p \in Queue \cup {None}
    BY <1>3, <1>8, <2>1 DEF Refs, BufferType
  <2>3. buffer'.refs = 0 /\ buffer'.q = q /\ buffer'.cover = IF p # None THEN Before(p, "wait") ELSE {}
    BY <1>3, <1>5, <1>13, <2>1 DEF DropBufferRef, BufferType
  <2>4. PICK t : t = d \o r
    OBVIOUS
  <2>5. todo'[a] = t
    BY <1>7, <1>9, <1>13, <2>1, <2>4 DEF DropBufferRef, TodoInv
  <2>6. PICK k : k = IF p = None THEN 1 ELSE 2
    OBVIOUS
  <2>7. /\ k \in 1..Len(t) /\ t[k].what = "deleter" /\ t[k].q = q
        /\ \A l \in 1..Len(t) : t[l].what = "deleter" => l = k
        /\ k = 2 => t[1].what = "wait" /\ t[1].q = p
        /\ \E l \in k + 1..Len(t) : t[l].what = "stream" /\ t[l].q = q
    <3>1. /\ q = buffer.q /\ buffer.waits \in Queue \cup {None} /\ t = Destruction \o r
          /\ k = IF buffer.waits = None THEN 1 ELSE 2
      BY <2>1, <2>2, <2>4, <2>6
    <3>2. DeleterAt(t, k, q, buffer.waits)
      BY <1>10, <2>2, <3>1, DestructionOrder
    <3> QED
      BY <2>1, <3>2 DEF DeleterAt
  <2>8. p # None => SubmittedTo(p, Before(p, "wait"))'
    <3>1. SUFFICES ASSUME p # None, NEW j \in Before(p, "wait")
                   PROVE  \E g \in Op : op[g].q = p /\ op[g].kind \notin DeferredKind /\ (j = g \/ j \in op[g].after)
      <4>1. Before(p, "wait")' = Before(p, "wait")
        BY <1>2 DEF Before
      <4> QED
        BY <1>2, <4>1 DEF SubmittedTo, Op
    <3>2. CASE j \in need[p]
      <4>1. NeedOf(p)
        BY <2>2, <3>1 DEF UserInv
      <4>2. "waitFor" \notin DeferredKind
        BY DEF DeferredKind
      <4> QED
        BY <3>2, <4>1, <4>2 DEF NeedOf
    <3>3. CASE j \notin need[p]
      <4>1. j \in returned /\ op[j].q = p /\ op[j].kind \notin DeferredKind
        BY <3>1, <3>3 DEF Before, HostKind
      <4>2. j \in Op
        BY <4>1 DEF UserInv, UserType
      <4> QED
        BY <4>1, <4>2
    <3> QED
      BY <3>2, <3>3
  <2>9. DeleterOf(a, k)'
    <3>1. CASE p = None
      <4>1. k = 1 /\ buffer'.cover = {}
        BY <2>3, <2>6, <3>1
      <4> QED
        BY <2>5, <2>7, <4>1 DEF DeleterOf
    <3>2. CASE p # None
      <4>1. k = 2
        BY <2>6, <3>2
      <4>2. SubmittedTo(p, buffer.cover)'
        <5>1. buffer'.cover = Before(p, "wait")'
          BY <1>2, <2>3, <3>2 DEF Before
        <5> QED
          BY <2>8, <3>2, <5>1 DEF SubmittedTo
      <4>3. todo'[a][1].what = "wait" /\ todo'[a][1].q = p
        BY <2>5, <2>7, <4>1
      <4> QED
        BY <2>5, <2>7, <4>1, <4>2, <4>3 DEF DeleterOf
    <3> QED
      BY <3>1, <3>2
  <2>10. \A b \in Actor : \A l : Deleting(b, l)' => b = a /\ l = k
    BY <1>5, <1>11, <2>5, <2>7 DEF Deleting
  <2>11. buffer'.refs = 0 /\ buffer'.q # None /\ ~Freed'
    BY <1>5, <1>6, <2>2, <2>3, NativeQueueAssumption
  <2> QED
    BY <1>6, <2>9, <2>10, <2>11 DEF EndInv
<1> QED
  BY <1>12, <1>13

-----------------------------------------------------------------------------
(* The inductive invariant of the reference counts.                        *)

\* A step of a user thread that begins a call.
LEMMA RefsCall ==
    ASSUME IndInv, IndInv', RefsInv, NEW t \in Thread, NEW c \in program.calls,
           \/ Submit(t, c) \/ Alloc(t, c) \/ EnqueueEvent(t, c) \/ WaitFor(t, c) \/ Wait(t, c)
           \/ DestructorWaitFor(t, c) \/ DropBuffer(t, c) \/ DropQueue(t, c)
    PROVE  RefsType' /\ CountsInv' /\ EndInv' /\ StreamEnd'
<1> USE DEF RefsInv
<1>1. RefsType' /\ CountsInv'
  <2>1. CASE EnqueueEvent(t, c) \/ WaitFor(t, c) \/ Wait(t, c) \/ DestructorWaitFor(t, c)
    <3>1. QuietStep
      BY <2>1 DEF QuietStep
    <3> QED
      BY <3>1, QuietCounts
  <2>2. CASE Submit(t, c) \/ Alloc(t, c) \/ DropBuffer(t, c) \/ DropQueue(t, c)
    BY <2>2, SubmitCounts, AllocCounts, DropBufferCounts, DropQueueCounts
  <2> QED
    BY <2>1, <2>2
<1> QED
  BY <1>1, EndCall, StreamCall

\* A step of a native queue or of a callback thread.
LEMMA RefsRuntime ==
    ASSUME IndInv, IndInv', RefsInv, NEW q \in Queue,
           \/ NativeStep(q) \/ HostBegin(q) \/ HostReturn(q) \/ HostClosed(q)
           \/ WorkerRun(q) \/ WorkerPop(q) \/ WorkerSet(q)
    PROVE  RefsType' /\ CountsInv' /\ EndInv' /\ StreamEnd'
<1> USE DEF RefsInv
<1>1. RefsType' /\ CountsInv'
  <2>1. CASE NativeStep(q) \/ HostClosed(q) \/ WorkerRun(q) \/ WorkerSet(q)
    <3>1. QuietStep
      BY <2>1 DEF QuietStep
    <3> QED
      BY <3>1, QuietCounts
  <2>2. CASE HostBegin(q) \/ HostReturn(q) \/ WorkerPop(q)
    <3>1. OneClosure(q)
      BY DEF EndInv
    <3> QED
      BY <2>2, <3>1, HostBeginCounts, HostReturnCounts, WorkerPopCounts
  <2> QED
    BY <2>1, <2>2
<1> QED
  BY <1>1, EndRuntime, StreamRuntime

\* A step in which an actor drops what is next.
LEMMA RefsDrop ==
    ASSUME IndInv, IndInv', RefsInv, NEW a \in Actor, Drop(a)
    PROVE  RefsType' /\ CountsInv' /\ EndInv' /\ StreamEnd'
<1> USE DEF RefsInv
<1>1. StreamEnd'
  BY StreamDrop
<1>2. CASE DropBufferRef(a)
  BY <1>1, <1>2, DropBufferRefCounts, EndDropBuffer
<1>3. CASE BeginWait(a) \/ EndWait(a)
  BY <1>1, <1>3, DropQuietCounts, EndBeginWait, EndEndWait
<1>4. CASE Delete(a)
  BY <1>1, <1>4, DeleteCounts, EndDelete
<1>5. CASE DropHandle(a) \/ DropThreadRef(a) \/ DropStreamRef(a)
  BY <1>1, <1>5, DropHandleCounts, DropQuietCounts, EndDropQueue
<1> QED
  BY <1>2, <1>3, <1>4, <1>5 DEF Drop

\* A step of a user thread that goes on with its call.
LEMMA RefsThread ==
    ASSUME IndInv, RefsInv, NEW t \in Thread, SetEvent(t) \/ SetLast(t) \/ Sync(t) \/ Await(t) \/ Return(t)
    PROVE  RefsType' /\ CountsInv' /\ EndInv' /\ StreamEnd'
<1> USE DEF RefsInv
<1>1. QuietStep
  BY DEF QuietStep
<1>2. RefsType' /\ CountsInv'
  BY <1>1, QuietCounts
<1>3. UNCHANGED <<program, op, stream, finished, host, tasks, executed, buffer, todo, streamRefs>>
  BY DEF SetEvent, SetLast, Sync, Await, Return, nativeVars, callbackVars, refVars
<1>4. StreamEnd'
  BY <1>3 DEF StreamEnd
<1>5. Grows
  BY <1>3 DEF Grows, Extends, Op
<1>6. \A q \in Queue : OneClosure(q)
  BY DEF EndInv
<1>7. EndInv'
  BY <1>3, <1>5, <1>6, FreedSame, EndKept
<1> QED
  BY <1>2, <1>4, <1>7

\* Every step keeps it.
LEMMA RefsKept ==
    ASSUME IndInv, RefsInv, [Next]_vars PROVE RefsInv'
<1>1. IndInv' /\ IdleInv'
  BY NextKeeps, IdleNext DEF RefsInv
<1>2. ASSUME RefsType' /\ CountsInv' /\ EndInv' /\ StreamEnd' PROVE RefsInv'
  BY <1>1, <1>2 DEF RefsInv
<1>3. \A t \in Thread : User(t) \in Actor
  BY DEF User, Actor
<1>4. \A q \in Queue : Host(q) \in Actor /\ Worker(q) \in Actor
  BY DEF Host, Worker, Actor
<1>5. ASSUME NEW t \in Thread, CallBegins(t) PROVE RefsInv'
  <2>1. PICK c \in program.calls :
           \/ Submit(t, c) \/ Alloc(t, c) \/ EnqueueEvent(t, c) \/ WaitFor(t, c) \/ Wait(t, c)
           \/ DestructorWaitFor(t, c) \/ DropBuffer(t, c) \/ DropQueue(t, c)
    BY <1>5 DEF CallBegins
  <2> QED
    BY <1>1, <1>2, <2>1, RefsCall
<1>6. ASSUME NEW t \in Thread, CallGoesOn(t) PROVE RefsInv'
  BY <1>1, <1>2, <1>3, <1>6, RefsThread, RefsDrop DEF CallGoesOn
<1>7. ASSUME NEW q \in Queue, NativeRuntime(q) \/ CallbackThread(q) PROVE RefsInv'
  BY <1>1, <1>2, <1>4, <1>7, RefsRuntime, RefsDrop DEF NativeRuntime, CallbackThread
<1>8. CASE UNCHANGED vars
  <2>1. QuietStep
    BY <1>8 DEF QuietStep
  <2>2. RefsType' /\ CountsInv'
    BY <2>1, QuietCounts DEF RefsInv
  <2>3. UNCHANGED <<program, op, stream, finished, tasks, executed, buffer, todo, streamRefs>>
    BY <1>8 DEF vars, nativeVars, callbackVars, refVars
  <2>4. StreamEnd'
    BY <2>3 DEF StreamEnd, RefsInv
  <2>5. Grows
    BY <2>3 DEF Grows, Extends, Op
  <2>6. \A q \in Queue : OneClosure(q)
    BY DEF EndInv, RefsInv
  <2>7. EndInv'
    BY <2>3, <2>5, <2>6, FreedSame, EndKept DEF RefsInv
  <2> QED
    BY <1>2, <2>2, <2>4, <2>7
<1> QED
  BY <1>5, <1>6, <1>7, <1>8 DEF Next

\* At the start the threads hold the handles, and there is nothing else.
LEMMA RefsStart ==
    ASSUME Init PROVE RefsInv
<1> USE DEF Init
<1>1. Op = {}
  BY DEF Op
<1>2. \A what, Q : Tokens(todo, what, Q) = {}
  <2>1. SUFFICES ASSUME NEW what, NEW Q, NEW p \in Tokens(todo, what, Q) PROVE FALSE
    OBVIOUS
  <2>2. PICK a \in Actor : \E n \in DueOf(todo[a], what, Q) : p = <<a, n>>
    BY <2>1, TokenOf
  <2>3. DueOf(todo[a], what, Q) = {}
    BY DEF DueOf
  <2> QED
    BY <2>2, <2>3
<1>3. \A what, Q : IsFiniteSet(Tokens(todo, what, Q)) /\ Count(what, Q) = 0
  BY <1>2, FS_EmptySet DEF Count
<1>4. RefsType
  BY <1>3 DEF RefsType, FiniteTokens
<1>5. IdleInv
  BY DEF IdleInv, Host, Worker, User, Actor
<1>6. \A q \in Queue : Len(tasks[q]) = 0 /\ ~Closure(q) /\ OneClosure(q)
  <2>1. \A q \in Queue : Len(tasks[q]) = 0
    OBVIOUS
  <2> QED
    BY <2>1 DEF Closure, Queued, OneClosure
<1>7. CountsInv
  <2>1. ASSUME NEW q \in Queue
        PROVE  HandleRef(q) = 1 /\ OwnerRef(q) = 0 /\ ClosureRef(q) = 0 /\ Cardinality(ThreadOps(q)) = 0
    <3>1. held[q] # {} /\ ~BufferOf(q)
      BY NativeQueueAssumption DEF BufferOf
    <3>2. ThreadOps(q) = {}
      BY <1>1 DEF ThreadOps
    <3> QED
      BY <1>6, <3>1, <3>2, FS_EmptySet DEF HandleRef, OwnerRef, ClosureRef
  <2>2. UserRef = 0 /\ Cardinality(BufferOps) = 0 /\ Cardinality(BufferTasks) = 0
    <3>1. BufferOps = {} /\ BufferTasks = {}
      BY <1>1 DEF BufferOps, BufferTasks
    <3> QED
      BY <3>1, FS_EmptySet DEF UserRef
  <2>3. ASSUME NEW q \in Queue PROVE threadRefs[q] = ThreadHolders(q) /\ streamRefs[q] = StreamHolders(q)
    BY <1>3, <2>1 DEF ThreadHolders, StreamHolders
  <2>4. buffer.refs = BufferHolders
    BY <1>3, <2>2 DEF BufferHolders
  <2> QED
    BY <2>3, <2>4 DEF CountsInv
<1>8. EndInv
  <2>1. \A a \in Actor : \A k : ~Deleting(a, k)
    BY DEF Deleting
  <2>2. ~Freed
    BY <1>1, <1>6 DEF Freed
  <2> QED
    BY <1>6, <2>1, <2>2 DEF EndInv
<1>9. StreamEnd
  BY DEF StreamEnd
<1> QED
  BY <1>4, <1>5, <1>7, <1>8, <1>9 DEF RefsInv

\* Each use count is at any time the number of those who hold a reference: handles, host
\* functions under way, the deleter of the buffer, the closure that frees it and what is
\* about to be destroyed; the buffer is freed once, after all that must precede.
THEOREM RefsInvariance == Spec => [](IndInv /\ RefsInv)
<1>1. Init => IndInv /\ RefsInv
  BY InitHolds, RefsStart
<1>2. IndInv /\ RefsInv /\ [Next]_vars => (IndInv /\ RefsInv)'
  BY NextKeeps, RefsKept
<1> QED
  BY <1>1, <1>2, PTL DEF Spec

-----------------------------------------------------------------------------
(* What follows from it.                                                   *)

\* Whoever needs a callback thread keeps it from being destroyed.
LEMMA ThreadAlive ==
    ASSUME IndInv, RefsType, CountsInv, NEW q \in Queue, ThreadOps(q) # {} \/ (~Cuda /\ BufferOf(q))
    PROVE  threadRefs[q] >= 1
<1>1. PICK h, o, c, w : /\ h = HandleRef(q) /\ o = (IF Cuda THEN 0 ELSE OwnerRef(q))
                        /\ c = Cardinality(ThreadOps(q)) /\ w = Count("thread", {q})
  OBVIOUS
<1>2. h \in Nat /\ o \in Nat /\ c \in Nat /\ w \in Nat
  BY <1>1, PartsNat DEF PartsType, IndInv
<1>3. (ThreadOps(q) # {} => c # 0) /\ (~Cuda /\ BufferOf(q) => o = 1)
  <2>1. IsFiniteSet(ThreadOps(q))
    BY OpsFinite DEF IndInv
  <2> QED
    BY <1>1, <2>1, FS_EmptySet DEF OwnerRef
<1>4. threadRefs[q] = h + o + c + w
  BY <1>1 DEF CountsInv, ThreadHolders
<1> QED
  BY <1>1, <1>2, <1>3, <1>4

\* ~CallbackThread joins and ~Stream, ~NativeQueue synchronize: whoever still needs a
\* queue's callback thread or native queue, a host function that is pending or under way,
\* the buffer's deleter, the closure that frees, an operation, has kept it from being
\* destroyed.
THEOREM UsersAreOutlived == Spec => []ResourcesOutliveUsers
<1>1. ASSUME IndInv, RefsInv PROVE ResourcesOutliveUsers
  <2> USE <1>1 DEF IndInv, RefsInv
  <2>1. ASSUME NEW q \in Queue, threadRefs[q] = 0
        PROVE  /\ host[q] # "submitted"
               /\ \A i \in InStream(q) : op[i].kind \in HostKind => host[q] = "closing"
               /\ buffer.q = q /\ ~Cuda => buffer.refs = 0
    <3>1. ThreadOps(q) = {} /\ (Cuda \/ ~BufferOf(q))
      BY <2>1, ThreadAlive
    <3>2. host[q] # "submitted"
      <4>1. SUFFICES ASSUME host[q] = "submitted" PROVE FALSE
        OBVIOUS
      <4>2. HeadOf(q) \in Op \ finished /\ op[HeadOf(q)].q = q /\ op[HeadOf(q)].kind \in HostKind
        BY <4>1, ClosingHead DEF InHost
      <4>3. HeadOf(q) \in ThreadOps(q)
        BY <4>1, <4>2 DEF ThreadOps
      <4> QED
        BY <3>1, <4>3
    <3>3. ASSUME NEW i \in InStream(q), op[i].kind \in HostKind PROVE host[q] = "closing"
      <4>1. stream[q] \in Seq(Nat) /\ StreamInv(q)
        BY DEF CoreInv, CoreType, QueueInv
      <4>2. i \in Op \ finished /\ op[i].q = q
        BY <3>3, <4>1 DEF InStream, StreamInv
      <4>3. i \notin ThreadOps(q)
        BY <3>1
      <4> QED
        BY <3>3, <4>2, <4>3 DEF ThreadOps
    <3>4. buffer.q = q /\ ~Cuda => buffer.refs = 0
      BY <3>1 DEF BufferOf
    <3> QED
      BY <3>2, <3>3, <3>4
  <2>2. ASSUME NEW q \in Queue, streamRefs[q] = 0
        PROVE  /\ stream[q] = <<>>
               /\ \A k \in DOMAIN tasks[q] : tasks[q][k] # FreeClosure
               /\ buffer.q = q => buffer.refs = 0
               /\ \A a \in Actor : \A k \in DOMAIN todo[a] :
                     todo[a][k].q = q => todo[a][k].what # "deleter"
    <3>1. ~Closure(q) /\ ~BufferOf(q) /\ Count("stream", {q}) = 0
      BY <2>2, StreamAlive
    <3>2. stream[q] = <<>>
      BY <2>2 DEF StreamEnd
    <3>3. \A k \in DOMAIN tasks[q] : tasks[q][k] # FreeClosure
      <4>1. tasks[q] \in Seq(Nat)
        BY DEF CoreInv, CoreType
      <4> QED
        BY <3>1, <4>1 DEF Closure, Queued
    <3>4. ASSUME NEW a \in Actor, NEW k \in DOMAIN todo[a], todo[a][k].q = q, todo[a][k].what = "deleter"
          PROVE  FALSE
      <4>1. PICK s, R : s = todo[a] /\ R = Refs
        OBVIOUS
      <4>2. s \in Seq(R)
        BY <4>1 DEF TodoInv
      <4>3. k \in 1..Len(s) /\ Len(s) \in Nat
        BY <3>4, <4>1, <4>2
      <4>4. Deleting(a, k)
        BY <3>4, <4>1, <4>3 DEF Deleting
      <4>5. DeleterOf(a, k)
        BY <4>4 DEF EndInv
      <4>6. PICK l \in k + 1..Len(todo[a]) : todo[a][l].what = "stream" /\ todo[a][l].q = todo[a][k].q
        BY <4>5 DEF DeleterOf
      <4>7. l \in 1..Len(todo[a]) /\ IsRef(todo[a][l], "stream", {q})
        BY <3>4, <4>1, <4>3, <4>6 DEF IsRef
      <4>8. IsFiniteSet(Tokens(todo, "stream", {q}))
        BY DEF RefsType, FiniteTokens
      <4> QED
        BY <3>1, <4>7, <4>8, TokenCounted
    <3> QED
      BY <3>1, <3>2, <3>3, <3>4 DEF BufferOf
  <2> QED
    BY <2>1, <2>2 DEF ResourcesOutliveUsers
<1> QED
  BY <1>1, RefsInvariance, PTL

\* keepAlive, "Keep the buffer alive until at least the current spot in the queue", and
\* destructorWaitFor: the memory is freed after everything that was enqueued before that
\* spot is done, on the callback thread as well, and after all that was in the queue that
\* the buffer waits for when its last reference was dropped.
THEOREM MemoryIsFreedLast == Spec => []BufferOutlivesUse
<1>1. ASSUME IndInv, RefsInv PROVE BufferOutlivesUse
  <2> USE <1>1 DEF IndInv, RefsInv
  <2>1. SUFFICES ASSUME NEW f \in finished, op[f].kind = "free"
                 PROVE  /\ \A i \in Op : op[i].kind = "keepAlive" => op[i].after \subseteq executed
                        /\ buffer.cover \subseteq executed
    BY DEF BufferOutlivesUse
  <2>2. Freed
    BY <2>1 DEF Freed, CoreInv, CoreType
  <2>3. buffer.refs = 0 /\ buffer.cover \subseteq executed
    BY <2>2 DEF EndInv
  <2>4. BufferOps = {} /\ BufferTasks = {}
    BY <2>3, BufferAlive
  <2>5. ASSUME NEW i \in Op, op[i].kind = "keepAlive" PROVE op[i].after \subseteq executed
    <3>1. i \notin BufferOps /\ i \notin BufferTasks
      BY <2>4
    <3>2. Handed(i)
      BY <2>5, <3>1 DEF BufferOps, Handed
    <3>0. op \in Seq(OpType)
      BY DEF CoreInv, CoreType
    <3>00. op[i] \in OpType
      BY <3>0 DEF Op
    <3>3. PICK q \in Queue : q = op[i].q
      BY <3>00 DEF OpType
    <3>4. ~Queued(q, i)
      BY <2>5, <3>1, <3>3 DEF BufferTasks
    <3>5. TaskInv(q) /\ op[i].kind \in HostKind
      BY <2>5 DEF CoreInv, QueueInv, HostKind
    <3>6. i \in executed
      BY <3>2, <3>3, <3>4, <3>5 DEF TaskInv, Queued
    <3> QED
      BY <3>6 DEF CoreInv, ExecInv, OperationsInOrder
  <2> QED
    BY <2>3, <2>5
<1> QED
  BY <1>1, RefsInvariance, PTL

\* The last event of a SYCL queue is that of an operation.
LastType == last \in [Queue -> Op \cup {0}]

\* Every step keeps it.
LEMMA LastTypeKept ==
    ASSUME IndInv, LastType, [Next]_vars PROVE LastType'
<1> USE DEF IndInv
<1>1. ASSUME Grows, UNCHANGED last PROVE LastType'
  BY <1>1 DEF LastType, Grows, Extends
<1>2. ASSUME NEW t \in Thread, CallBegins(t) PROVE LastType'
  <2>1. PICK c \in program.calls :
           \/ Submit(t, c) \/ Alloc(t, c) \/ EnqueueEvent(t, c) \/ WaitFor(t, c) \/ Wait(t, c)
           \/ DestructorWaitFor(t, c) \/ DropBuffer(t, c) \/ DropQueue(t, c)
    BY <1>2 DEF CallBegins
  <2>2. UNCHANGED last
    BY <2>1 DEF Submit, Alloc, EnqueueEvent, WaitFor, Wait, DestructorWaitFor, DropBuffer, DropQueue
  <2> QED
    BY <1>1, <2>1, <2>2, CallKeeps
<1>3. ASSUME NEW a \in Actor, Drop(a) PROVE LastType'
  <2>1. UNCHANGED last
    BY <1>3 DEF Drop, DropBufferRef, BeginWait, EndWait, Delete, DropHandle, DropThreadRef, DropStreamRef, userVars
  <2> QED
    BY <1>1, <1>3, <2>1, DropCore
<1>4. ASSUME NEW t \in Thread, CallGoesOn(t) PROVE LastType'
  <2>1. CASE Drop(User(t))
    <3>1. User(t) \in Actor
      BY DEF User, Actor
    <3> QED
      BY <1>3, <2>1, <3>1
  <2>2. CASE SetLast(t)
    <3>1. PICK q, i : q = thread[t].q /\ i = thread[t].op
      OBVIOUS
    <3>2. q \in Queue /\ i \in Op \cup {0}
      BY <2>2, <3>1 DEF SetLast, UserInv, ThreadOf
    <3>3. last' = [last EXCEPT ![q] = i] /\ UNCHANGED op
      BY <2>2, <3>1 DEF SetLast, nativeVars
    <3> QED
      BY <3>2, <3>3 DEF LastType, Op
  <2>3. CASE SetEvent(t) \/ Sync(t) \/ Await(t) \/ Return(t)
    <3>1. UNCHANGED <<last, op>>
      BY <2>3 DEF SetEvent, Sync, Await, Return, nativeVars
    <3> QED
      BY <3>1 DEF LastType, Op
  <2> QED
    BY <1>4, <2>1, <2>2, <2>3 DEF CallGoesOn
<1>5. ASSUME NEW q \in Queue, NativeRuntime(q) \/ CallbackThread(q) PROVE LastType'
  <2>1. CASE Drop(Host(q)) \/ Drop(Worker(q))
    <3>1. Host(q) \in Actor /\ Worker(q) \in Actor
      BY DEF Host, Worker, Actor
    <3> QED
      BY <1>3, <2>1, <3>1
  <2>2. CASE \/ NativeStep(q) \/ HostBegin(q) \/ HostReturn(q) \/ HostClosed(q)
             \/ WorkerRun(q) \/ WorkerPop(q) \/ WorkerSet(q)
    <3>1. UNCHANGED last
      BY <2>2 DEF NativeStep, HostBegin, HostReturn, HostClosed, WorkerRun, WorkerPop, WorkerSet, userVars
    <3> QED
      BY <1>1, <2>2, <3>1, RuntimeKeeps
  <2> QED
    BY <1>5, <2>1, <2>2 DEF NativeRuntime, CallbackThread
<1>6. CASE UNCHANGED vars
  BY <1>6 DEF vars, nativeVars, userVars, LastType, Op
<1> QED
  BY <1>2, <1>4, <1>5, <1>6 DEF Next

\* The types of the state; no use count falls below zero, whatever is dropped and by whom.
THEOREM TypesHold == Spec => []TypeOK
<1>1. Init => LastType
  BY DEF Init, LastType
<1>2. IndInv /\ LastType /\ [Next]_vars => LastType'
  BY LastTypeKept
<1>3. ASSUME IndInv, RefsInv, LastType PROVE TypeOK
  <2> USE <1>3 DEF IndInv, RefsInv
  <2>1. PartsType
    BY PartsNat
  <2>2. ASSUME NEW q \in Queue PROVE threadRefs[q] \in Nat /\ streamRefs[q] \in Nat
    <3>1. PICK h, o, c, r, w, v : /\ h = HandleRef(q) /\ o = OwnerRef(q) /\ c = ClosureRef(q)
                                  /\ r = Cardinality(ThreadOps(q)) /\ w = Count("thread", {q}) /\ v = Count("stream", {q})
      OBVIOUS
    <3>2. h \in Nat /\ o \in Nat /\ c \in Nat /\ r \in Nat /\ w \in Nat /\ v \in Nat
      BY <2>1, <3>1 DEF PartsType
    <3>3. threadRefs[q] = h + (IF Cuda THEN 0 ELSE o) + r + w /\ streamRefs[q] = h + o + c + v
      BY <3>1 DEF CountsInv, ThreadHolders, StreamHolders
    <3> QED
      BY <3>2, <3>3
  <2>3. threadRefs \in [Queue -> Nat] /\ streamRefs \in [Queue -> Nat]
    BY <2>2 DEF RefsType
  <2>4. buffer.refs \in Nat
    <3>1. PICK u, b, s, w : /\ u = UserRef /\ b = Cardinality(BufferOps) /\ s = Cardinality(BufferTasks)
                            /\ w = Count("buffer", Queue)
      OBVIOUS
    <3>2. u \in Nat /\ b \in Nat /\ s \in Nat /\ w \in Nat
      BY <2>1, <3>1 DEF PartsType
    <3>3. buffer.refs = u + b + s + w
      BY <3>1 DEF CountsInv, BufferHolders
    <3> QED
      BY <3>2, <3>3
  <2>5. ASSUME NEW q \in Queue
        PROVE  /\ InStream(q) \subseteq Op
               /\ \A k \in DOMAIN tasks[q] : tasks[q][k] \in Op \cup {FreeClosure}
    <3>1. stream[q] \in Seq(Nat) /\ StreamInv(q)
      BY DEF CoreInv, CoreType, QueueInv
    <3>2. tasks[q] \in Seq(Nat) /\ TaskInv(q)
      BY DEF CoreInv, CoreType, QueueInv
    <3>3. \A k \in 1..Len(stream[q]) : stream[q][k] \in Op
      BY <3>1 DEF StreamInv
    <3>4. \A k \in 1..Len(tasks[q]) : tasks[q][k] \in Op \cup {FreeClosure}
      BY <3>2 DEF TaskInv
    <3>5. InStream(q) \subseteq Op
      BY <3>1, <3>3 DEF InStream
    <3>6. DOMAIN tasks[q] = 1..Len(tasks[q])
      BY <3>2
    <3> QED
      BY <3>4, <3>5, <3>6
  <2>6. /\ program \in Programs
        /\ host \in [Queue -> {"idle", "submitted", "closing"}]
        /\ worker \in [Queue -> {"idle", "ran", "destroying"}]
        /\ finished \subseteq Op /\ executed \subseteq Op /\ future \subseteq Op
    BY DEF CoreInv, CoreType, ExecInv
  <2>7. /\ returned \subseteq Op /\ promised \subseteq Op
        /\ \A t \in Thread : thread[t].at \in {"free", "setEvent", "setLast", "sync", "await", "return"}
    BY <2>6 DEF UserInv, UserType, ThreadType
  <2> QED
    BY <2>3, <2>4, <2>5, <2>6, <2>7 DEF TypeOK, LastType
<1> QED
  BY <1>1, <1>2, <1>3, RefsInvariance, PTL DEF Spec

===============================================================================
