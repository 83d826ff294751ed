--------------------------- MODULE HostQueueProofs ---------------------------
(***************************************************************************)
(* Proofs about HostQueue, for any number of threads, queues and events    *)
(* and any programs.  First the inductive invariant and the types and      *)
(* locks; then the order of execution, step by step; then what events      *)
(* promise, and the theorems.                                              *)
(***************************************************************************)
EXTENDS HostQueue, SequenceTheorems, TLAPS

-----------------------------------------------------------------------------
(* The inductive invariant.                                                *)

Places == {"idle", "running", "eventLocked", "futureCopied", "waitForLocked", "waitForFuture",
           "waitEvent", "waitQueues", "marker", "join"}

ThreadType == [at : Places, q : Queue \cup {None}, e : Event \cup {None}, future : Nat,
               count : Nat, goal : SUBSET Nat, rest : SUBSET Queue]

TypeInv ==
    /\ TypeOK
    /\ program \in Programs
    /\ thread \in [Thread -> ThreadType]
    /\ \A i \in Ids : /\ op[i].before \subseteq Ids
                      /\ op[i].kind = "keep" => op[i].e \in Queue
                      /\ op[i].kind = "event" => op[i].e \in Event
    /\ \A e \in Event : event[e].covers \subseteq Ids
    /\ \A t \in Thread : thread[t].goal \subseteq Ids

\* Who owns a mutex, and what runs under it.
LockInv ==
    /\ \A t \in Thread :
          /\ thread[t].at \in {"running", "waitForFuture"} =>
                thread[t].q \in Blocking /\ qLock[thread[t].q] = t
          /\ thread[t].at = "running" => running[thread[t].q] # <<>>
          /\ thread[t].at = "waitForFuture" => running[thread[t].q] = <<>>
          /\ thread[t].at \in {"eventLocked", "waitForLocked"} =>
                /\ thread[t].q \in Blocking /\ thread[t].e \in Event
                /\ eLock[thread[t].e] = t
    /\ \A q \in Queue :
          /\ qLock[q] = None => running[q] = <<>>
          /\ depth[q] = Len(running[q])
          /\ \A m \in 1..Len(running[q]) : running[q][m] \in Ids

\* What a callback thread is about to do with its task.
WorkerInv ==
    \A q \in Queue :
        /\ \A n \in 1..Len(tasks[q]) : tasks[q][n] \in Ids
        /\ worker[q] = "pop" => tasks[q] # <<>> /\ current[q] = Head(tasks[q])
        /\ worker[q] # "idle" => current[q] \in executed
        /\ worker[q] = "destroy" => op[current[q]].kind = "keep"

\* j is one of the first n tasks of q or comes before one of them.
Ahead(q, n, j) == \E m \in 1..n : j = tasks[q][m] \/ j \in op[tasks[q][m]].before

\* j comes before what a waitFor awaits, the future of operation i.
Awaited(i, j) ==
    op[i].kind = "waitFor" /\ op[i].number \in Ids /\ j \in op[op[i].number].before

\* What a queued task comes after is executed, ahead of it or awaited by it.
TaskOrder(q) ==
    \A n \in 1..Len(tasks[q]) : \A j \in op[tasks[q][n]].before :
        j \in executed \/ Ahead(q, n - 1, j) \/ Awaited(tasks[q][n], j)

\* What the next operation of q comes after is executed or under way in q.
NeedOrder(q) ==
    \A j \in need[q] :
        \/ j \in executed
        \/ q \notin Blocking /\ Ahead(q, Len(tasks[q]), j)
        \/ q \in Blocking /\ \E m \in 1..Len(running[q]) : j = running[q][m]

\* What runs in the caller comes after executed operations only.
RunningOrder(q) ==
    \A m \in 1..Len(running[q]) : op[running[q][m]].before \subseteq executed

OrderInv ==
    /\ OperationsInOrder
    /\ \A q \in Queue : TaskOrder(q) /\ NeedOrder(q) /\ RunningOrder(q)

\* Once the future is set, the operations of S are executed.
Covered(future, S) ==
    S \subseteq executed \/ (future \in Ids /\ S \subseteq op[future].before)

\* What an event, or a copy of its future, says of the work it covers.
EventInv ==
    /\ \A e \in Event :
          /\ event[e].last <= event[e].count
          /\ Covered(event[e].future, event[e].covers)
          /\ IsReady(e) => event[e].covers \subseteq executed
    /\ \A i \in Ids : op[i].kind = "event" =>
          /\ op[i].number <= event[op[i].e].count
          /\ op[i].number = event[op[i].e].count => event[op[i].e].future = i
    /\ \A t \in Thread :
          /\ thread[t].at = "futureCopied" => thread[t].q \in Queue \ Blocking
          /\ thread[t].at = "waitEvent" => thread[t].e \in Event
          /\ thread[t].at \in {"futureCopied", "waitForFuture", "waitEvent"} =>
                Covered(thread[t].future, thread[t].goal)
          /\ thread[t].at = "eventLocked" =>
                \A i \in Ids : op[i].kind = "event" /\ op[i].e = thread[t].e =>
                    op[i].number < event[thread[t].e].count

\* An event that is not ready is being enqueued or has its last task queued.
PendingInv ==
    \A e \in Event : ~IsReady(e) =>
        \/ \E t \in Thread : thread[t].at = "eventLocked" /\ thread[t].e = e
        \/ \E q \in Queue : \E n \in 1..Len(tasks[q]) :
              /\ op[tasks[q][n]].kind = "event" /\ op[tasks[q][n]].e = e
              /\ op[tasks[q][n]].number = event[e].count
              /\ n = 1 => worker[q] # "pop"

\* The invariant behind everything but the waits.
IndInv == TypeInv /\ LockInv /\ WorkerInv /\ OrderInv /\ EventInv /\ PendingInv

Calls(call) == \E c \in program.calls : c.call = call

\* The queues that a wait still has to visit have their handles.
HeldInv ==
    /\ ~Calls("drop") => held = Queue
    /\ \A t \in Thread :
          /\ thread[t].at = "waitQueues" /\ thread[t].rest # {} =>
                \/ Calls("waitDevice")
                \/ thread[t].q \in held /\ thread[t].rest = {thread[t].q}
          /\ thread[t].at = "marker" => thread[t].q \in Queue
          /\ thread[t].at = "marker" /\ thread[t].rest # {} => Calls("waitDevice")

\* What a wait will report is executed, needed by a queue it still visits or
\* covered by the marker it waits for.
WaitInv ==
    /\ promised \subseteq executed
    /\ \A t \in Thread : thread[t].at \in {"waitQueues", "marker"} =>
          \A j \in thread[t].goal :
              \/ j \in executed
              \/ \E q \in thread[t].rest : j \in need[q]
              \/ /\ thread[t].at = "marker"
                 /\ IF thread[t].q \in Blocking THEN j \in need[thread[t].q]
                    ELSE thread[t].future \in Ids /\ j \in op[thread[t].future].before

-----------------------------------------------------------------------------
(* What the helpers of the model do.                                       *)

Kinds == {"task", "keep", "event", "waitFor", "marker"}

OpType == [kind : Kinds, q : Queue, e : Event \cup Queue \cup {None}, number : Nat,
           before : SUBSET Nat]

\* The elements of a sequence after Append.
LEMMA AppendElements ==
    ASSUME NEW S, NEW s \in Seq(S), NEW x \in S
    PROVE  /\ Append(s, x) \in Seq(S)
           /\ Len(s) \in Nat
           /\ Len(Append(s, x)) = Len(s) + 1
           /\ \A i \in 1..Len(s) : Append(s, x)[i] = s[i]
           /\ Append(s, x)[Len(s) + 1] = x
           /\ 1..Len(Append(s, x)) = 1..Len(s) \cup {Len(s) + 1}
  BY AppendProperties

\* The elements of a sequence after its front is dropped.
LEMMA TailElements ==
    ASSUME NEW S, NEW s \in Seq(S), s # <<>>
    PROVE  /\ Tail(s) \in Seq(S)
           /\ Len(s) \in Nat \ {0}
           /\ Len(Tail(s)) = Len(s) - 1
           /\ \A i \in 1..Len(Tail(s)) : Tail(s)[i] = s[i + 1] /\ i + 1 \in 1..Len(s)
           /\ Head(s) = s[1] /\ 1 \in 1..Len(s)
  OBVIOUS

\* The elements of a sequence after its last one is dropped.
LEMMA FrontElements ==
    ASSUME NEW S, NEW s \in Seq(S), s # <<>>
    PROVE  /\ SubSeq(s, 1, Len(s) - 1) \in Seq(S)
           /\ Len(s) \in Nat \ {0}
           /\ Len(SubSeq(s, 1, Len(s) - 1)) = Len(s) - 1
           /\ \A i \in 1..Len(s) - 1 : SubSeq(s, 1, Len(s) - 1)[i] = s[i]
           /\ Len(s) = 1 => SubSeq(s, 1, Len(s) - 1) = <<>>
           /\ Len(s) # 1 => SubSeq(s, 1, Len(s) - 1) # <<>>
<1> DEFINE n == Len(s) - 1
           f == SubSeq(s, 1, n)
<1>1. Len(s) \in Nat \ {0} /\ n \in Nat /\ \A i \in 1..n : s[i] \in S
  OBVIOUS
<1> HIDE DEF n
<1>2. f \in Seq(S) /\ Len(f) = n /\ \A i \in 1..n : f[i] = s[i]
  <2>1. 1 \in Int /\ n \in Int
    BY <1>1
  <2>2. /\ f \in Seq(S)
        /\ Len(f) = IF 1 <= n THEN n - 1 + 1 ELSE 0
        /\ \A i \in 1..n - 1 + 1 : f[i] = s[1 + i - 1]
    BY <1>1, <2>1, SubSeqProperties
  <2> QED
    BY <1>1, <2>2
<1> HIDE DEF f
<1>3. Len(f) = 0 <=> f = <<>>
  BY <1>2
<1> QED
  BY <1>1, <1>2, <1>3 DEF f, n

\* A step adds operations and executes some; it takes none of it back.
Grows ==
    /\ Len(op) <= Len(op')
    /\ Ids \subseteq Ids'
    /\ \A i \in Ids : op'[i] = op[i]
    /\ executed \subseteq executed'

\* A new operation, posted or started at once.
LEMMA NewOperation ==
    ASSUME TypeInv, NEW x \in OpType, op' = Append(op, x)
    PROVE  /\ op' \in Seq(OpType)
           /\ Len(op) \in Nat
           /\ Len(op') = Len(op) + 1
           /\ Ids' = Ids \cup {NewId}
           /\ NewId \notin Ids
           /\ \A i \in Ids : op'[i] = op[i]
           /\ op'[NewId] = x
<1>1. op \in Seq(OpType)
  BY DEF TypeInv, TypeOK, OpType, Kinds
<1>2. /\ op' \in Seq(OpType) /\ Len(op) \in Nat /\ Len(op') = Len(op) + 1
      /\ \A i \in 1..Len(op) : op'[i] = op[i]
      /\ op'[Len(op) + 1] = x
      /\ 1..Len(op') = 1..Len(op) \cup {Len(op) + 1}
  BY <1>1, AppendElements
<1> QED
  BY <1>2 DEF Ids, NewId

\* What Post does: a new operation is the last of q's tasks and is needed there.
Posted(kind, q, e, number, after) ==
    /\ op' \in Seq(OpType)
    /\ Len(op) \in Nat
    /\ Len(op') = Len(op) + 1
    /\ Ids' = Ids \cup {NewId}
    /\ NewId \notin Ids
    /\ \A i \in Ids : op'[i] = op[i]
    /\ op'[NewId] = [kind |-> kind, q |-> q, e |-> e, number |-> number,
                     before |-> need[q] \cup after]
    /\ need[q] \subseteq Ids
    /\ tasks' \in [Queue -> Seq(Nat)]
    /\ Len(tasks[q]) \in Nat
    /\ Len(tasks'[q]) = Len(tasks[q]) + 1
    /\ 1..Len(tasks'[q]) = 1..Len(tasks[q]) \cup {Len(tasks[q]) + 1}
    /\ \A n \in 1..Len(tasks[q]) : tasks'[q][n] = tasks[q][n]
    /\ tasks'[q][Len(tasks[q]) + 1] = NewId
    /\ \A p \in Queue \ {q} : tasks'[p] = tasks[p]
    /\ need' \in [Queue -> SUBSET Ids']
    /\ \A p \in Queue : need[p] \subseteq need'[p]
    /\ \A p \in Queue \ {q} : need'[p] = need[p]
    /\ need'[q] = IF q \in Blocking THEN need[q] ELSE need[q] \cup after \cup {NewId}

\* CallbackThread::submit adds an operation at the end of q's tasks.
LEMMA PostEffect ==
    ASSUME TypeInv, NEW kind \in Kinds, NEW q \in Queue, NEW e \in Event \cup Queue \cup {None},
           NEW number \in Nat, NEW after \in SUBSET Ids, Post(kind, q, e, number, after)
    PROVE  Posted(kind, q, e, number, after)
<1>1. /\ need \in [Queue -> SUBSET Ids] /\ tasks \in [Queue -> Seq(Nat)]
      /\ op \in Seq(OpType)
  BY DEF TypeInv, TypeOK, OpType, Kinds
<1>2. Len(op) \in Nat /\ NewId \in Nat /\ Ids \subseteq Nat
  BY <1>1 DEF NewId, Ids
<1> DEFINE x == [kind |-> kind, q |-> q, e |-> e, number |-> number,
                 before |-> need[q] \cup after]
<1>3. x \in OpType
  BY <1>1, <1>2 DEF OpType
<1>4. /\ op' = Append(op, x)
      /\ tasks' = [tasks EXCEPT ![q] = Append(tasks[q], NewId)]
      /\ need' = IF q \in Blocking THEN need
                 ELSE [need EXCEPT ![q] = need[q] \cup after \cup {NewId}]
  BY DEF Post, Operation
<1> HIDE DEF x
<1>5. /\ op' \in Seq(OpType) /\ Len(op') = Len(op) + 1
      /\ Ids' = Ids \cup {NewId} /\ NewId \notin Ids
      /\ \A i \in Ids : op'[i] = op[i]
      /\ op'[NewId] = x
  BY <1>3, <1>4, NewOperation
<1>6. /\ tasks'[q] = Append(tasks[q], NewId) /\ tasks[q] \in Seq(Nat)
      /\ \A p \in Queue \ {q} : tasks'[p] = tasks[p]
  BY <1>1, <1>4
<1>7. /\ Append(tasks[q], NewId) \in Seq(Nat)
      /\ Len(tasks[q]) \in Nat
      /\ Len(tasks'[q]) = Len(tasks[q]) + 1
      /\ 1..Len(tasks'[q]) = 1..Len(tasks[q]) \cup {Len(tasks[q]) + 1}
      /\ \A n \in 1..Len(tasks[q]) : tasks'[q][n] = tasks[q][n]
      /\ tasks'[q][Len(tasks[q]) + 1] = NewId
  BY <1>2, <1>6, AppendElements
<1>8. tasks' \in [Queue -> Seq(Nat)]
  BY <1>1, <1>4, <1>7
<1>9. /\ need' \in [Queue -> SUBSET Ids']
      /\ \A p \in Queue : need[p] \subseteq need'[p]
      /\ \A p \in Queue \ {q} : need'[p] = need[p]
      /\ need'[q] = IF q \in Blocking THEN need[q] ELSE need[q] \cup after \cup {NewId}
  <2>1. need \in [Queue -> SUBSET Ids']
    BY <1>1, <1>5
  <2>2. need[q] \cup after \cup {NewId} \in SUBSET Ids'
    BY <1>1, <1>5
  <2> QED
    BY <1>4, <2>1, <2>2
<1> QED
  BY <1>1, <1>2, <1>5, <1>6, <1>7, <1>8, <1>9 DEF x, Posted

\* What StartBlocking does: a new operation runs inside those that run in q.
Started(q) ==
    /\ op' \in Seq(OpType)
    /\ Len(op) \in Nat
    /\ Len(op') = Len(op) + 1
    /\ Ids' = Ids \cup {NewId}
    /\ NewId \notin Ids
    /\ \A i \in Ids : op'[i] = op[i]
    /\ op'[NewId] = [kind |-> "task", q |-> q, e |-> None, number |-> 0,
                     before |-> need[q] \ {running[q][i] : i \in 1..Len(running[q])}]
    /\ need[q] \subseteq Ids
    /\ need' \in [Queue -> SUBSET Ids']
    /\ \A p \in Queue : need[p] \subseteq need'[p]
    /\ \A p \in Queue \ {q} : need'[p] = need[p]
    /\ need'[q] = need[q] \cup {NewId}
    /\ running' \in [Queue -> Seq(Nat)]
    /\ \A p \in Queue \ {q} : running'[p] = running[p]
    /\ Len(running[q]) \in Nat
    /\ Len(running'[q]) = Len(running[q]) + 1
    /\ 1..Len(running'[q]) = 1..Len(running[q]) \cup {Len(running[q]) + 1}
    /\ \A n \in 1..Len(running[q]) : running'[q][n] = running[q][n]
    /\ running'[q][Len(running[q]) + 1] = NewId

\* A blocking queue starts an operation in the calling thread, under its mutex.
LEMMA StartEffect ==
    ASSUME TypeInv, NEW t \in Thread, NEW q \in Queue, StartBlocking(t, q)
    PROVE  Started(q)
<1>1. /\ need \in [Queue -> SUBSET Ids] /\ running \in [Queue -> Seq(Nat)]
      /\ op \in Seq(OpType)
  BY DEF TypeInv, TypeOK, OpType, Kinds
<1>2. Len(op) \in Nat /\ NewId \in Nat /\ Ids \subseteq Nat
  BY <1>1 DEF NewId, Ids
<1> DEFINE R == {running[q][i] : i \in 1..Len(running[q])}
           x == [kind |-> "task", q |-> q, e |-> None, number |-> 0, before |-> need[q] \ R]
<1> HIDE DEF R
<1>3. x \in OpType
  BY <1>1, <1>2 DEF OpType, Kinds
<1>4. /\ op' = Append(op, x)
      /\ running' = [running EXCEPT ![q] = Append(running[q], NewId)]
      /\ need' = [need EXCEPT ![q] = need[q] \cup {NewId}]
  <2>1. [[kind |-> "task", q |-> q, e |-> None, number |-> 0, before |-> need[q] \cup {}]
            EXCEPT !.before = @ \ R] = x
    OBVIOUS
  <2> QED
    BY <2>1 DEF StartBlocking, Operation, R
<1> HIDE DEF x
<1>5. /\ op' \in Seq(OpType) /\ Len(op') = Len(op) + 1
      /\ Ids' = Ids \cup {NewId} /\ NewId \notin Ids
      /\ \A i \in Ids : op'[i] = op[i]
      /\ op'[NewId] = x
  BY <1>3, <1>4, NewOperation
<1>6. /\ running'[q] = Append(running[q], NewId) /\ running[q] \in Seq(Nat)
      /\ \A p \in Queue \ {q} : running'[p] = running[p]
  BY <1>1, <1>4
<1>7. /\ Append(running[q], NewId) \in Seq(Nat)
      /\ Len(running[q]) \in Nat
      /\ Len(running'[q]) = Len(running[q]) + 1
      /\ 1..Len(running'[q]) = 1..Len(running[q]) \cup {Len(running[q]) + 1}
      /\ \A n \in 1..Len(running[q]) : running'[q][n] = running[q][n]
      /\ running'[q][Len(running[q]) + 1] = NewId
  BY <1>2, <1>6, AppendElements
<1>8. running' \in [Queue -> Seq(Nat)]
  BY <1>1, <1>4, <1>7
<1>9. /\ need' \in [Queue -> SUBSET Ids']
      /\ \A p \in Queue : need[p] \subseteq need'[p]
      /\ \A p \in Queue \ {q} : need'[p] = need[p]
      /\ need'[q] = need[q] \cup {NewId}
  <2>1. need \in [Queue -> SUBSET Ids'] /\ need[q] \cup {NewId} \in SUBSET Ids'
    BY <1>1, <1>5
  <2> QED
    BY <1>4, <2>1
<1> QED
  BY <1>1, <1>2, <1>5, <1>6, <1>7, <1>8, <1>9 DEF x, R, Started
-----------------------------------------------------------------------------
(* The type invariant.                                                     *)

\* The initial state is of the type.
LEMMA InitType == Init => TypeInv
<1> SUFFICES ASSUME Init PROVE TypeInv
  OBVIOUS
<1>1. Ids = {}
  BY DEF Init, Ids
<1>2. Idle \in ThreadType
  BY DEF Idle, ThreadType, Places
<1>3. op \in Seq(OpType)
  BY DEF Init
<1>4. left \in [Thread -> Nat]
  BY HostQueueAssumption DEF Init
<1>5. /\ tasks \in [Queue -> Seq(Nat)] /\ running \in [Queue -> Seq(Nat)]
      /\ event \in [Event -> [count : Nat, last : Nat, future : Nat, covers : SUBSET Nat]]
  BY DEF Init
<1>6. TypeOK
  BY <1>1, <1>3, <1>4, <1>5 DEF Init, TypeOK, OpType, Kinds
<1>7. thread \in [Thread -> ThreadType] /\ \A t \in Thread : thread[t].goal = {}
  BY <1>2 DEF Init, Idle
<1> QED
  BY <1>1, <1>6, <1>7 DEF Init, TypeInv

\* Steps that post an operation.
LEMMA PostType ==
    ASSUME TypeInv, NEW kind \in Kinds, NEW q \in Queue, NEW e \in Event \cup Queue \cup {None},
           NEW number \in Nat, NEW after \in SUBSET Ids, Post(kind, q, e, number, after),
           kind = "keep" => e \in Queue, kind = "event" => e \in Event,
           UNCHANGED <<program, current, executed, ready, eLock, qLock, depth, running, held,
                       promised>>,
           worker' \in [Queue -> {"idle", "pop", "destroy", "set"}],
           event' \in [Event -> [count : Nat, last : Nat, future : Nat, covers : SUBSET Nat]],
           \A x \in Event : event'[x].covers \subseteq Ids,
           left' \in [Thread -> Nat],
           thread' \in [Thread -> ThreadType],
           \A t \in Thread : thread'[t].goal \subseteq Ids
    PROVE  TypeInv'
<1>0. Posted(kind, q, e, number, after)
  BY PostEffect
<1>1. /\ op' \in Seq(OpType)
      /\ Ids \subseteq Ids'
      /\ tasks' \in [Queue -> Seq(Nat)]
      /\ need' \in [Queue -> SUBSET Ids']
  BY <1>0 DEF Posted
<1>2. \A i \in Ids' : /\ op'[i].before \subseteq Ids'
                      /\ op'[i].kind = "keep" => op'[i].e \in Queue
                      /\ op'[i].kind = "event" => op'[i].e \in Event
  <2>1. /\ Ids' = Ids \cup {NewId}
        /\ \A i \in Ids : op'[i] = op[i]
        /\ op'[NewId] = [kind |-> kind, q |-> q, e |-> e, number |-> number,
                         before |-> need[q] \cup after]
        /\ need[q] \subseteq Ids
    BY <1>0 DEF Posted
  <2>2. \A i \in Ids : /\ op[i].before \subseteq Ids
                       /\ op[i].kind = "keep" => op[i].e \in Queue
                       /\ op[i].kind = "event" => op[i].e \in Event
    BY DEF TypeInv
  <2> QED
    BY <2>1, <2>2
<1>3. TypeOK'
  BY <1>1 DEF TypeInv, TypeOK, OpType, Kinds
<1> QED
  BY <1>1, <1>2, <1>3 DEF TypeInv

\* Steps that add no operation.
LEMMA SameOpType ==
    ASSUME TypeInv,
           UNCHANGED <<program, op>>,
           tasks' \in [Queue -> Seq(Nat)],
           worker' \in [Queue -> {"idle", "pop", "destroy", "set"}],
           current' \in [Queue -> Nat],
           executed' \subseteq Ids, ready' \subseteq executed',
           event' \in [Event -> [count : Nat, last : Nat, future : Nat, covers : SUBSET Nat]],
           \A x \in Event : event'[x].covers \subseteq Ids,
           eLock' \in [Event -> Thread \cup {None}],
           qLock' \in [Queue -> Thread \cup {None}],
           depth' \in [Queue -> Nat],
           running' \in [Queue -> Seq(Nat)],
           held' \subseteq Queue,
           left' \in [Thread -> Nat],
           need' \in [Queue -> SUBSET Ids],
           promised' \subseteq Ids,
           thread' \in [Thread -> ThreadType],
           \A t \in Thread : thread'[t].goal \subseteq Ids
    PROVE  TypeInv'
<1>1. Ids' = Ids
  BY DEF Ids
<1>2. TypeOK'
  BY <1>1 DEF TypeInv, TypeOK
<1> QED
  BY <1>1, <1>2 DEF TypeInv

\* What a call does to the thread that makes it.
LEMMA CallEffect ==
    ASSUME TypeInv, NEW t \in Thread, NEW call, NEW q, NEW e, MayCall(t, call, q, e),
           NEW state \in ThreadType, Called(t, state)
    PROVE  /\ thread[t] = Idle
           /\ left' \in [Thread -> Nat]
           /\ thread' = [thread EXCEPT ![t] = state]
           /\ thread' \in [Thread -> ThreadType]
           /\ state.goal \subseteq Ids => \A u \in Thread : thread'[u].goal \subseteq Ids
<1>1. left \in [Thread -> Nat] /\ thread \in [Thread -> ThreadType]
  BY DEF TypeInv, TypeOK
<1>2. /\ thread[t] = Idle /\ left[t] > 0
      /\ left' = [left EXCEPT ![t] = @ - 1]
      /\ thread' = [thread EXCEPT ![t] = state]
  BY DEF MayCall, Called
<1>3. left' \in [Thread -> Nat]
  BY <1>1, <1>2
<1>4. thread' \in [Thread -> ThreadType]
  BY <1>1, <1>2
<1>5. state.goal \subseteq Ids => \A u \in Thread : thread'[u].goal \subseteq Ids
  BY <1>1, <1>2 DEF TypeInv
<1> QED
  BY <1>2, <1>3, <1>4, <1>5

\* The states a thread can be put in.
LEMMA ThreadStates ==
    /\ Idle \in ThreadType
    /\ Idle.goal = {} /\ Idle.at = "idle" /\ Idle.q = None /\ Idle.e = None /\ Idle.rest = {}
    /\ \A x \in ThreadType :
          /\ x.at \in Places /\ x.q \in Queue \cup {None} /\ x.e \in Event \cup {None}
          /\ x.future \in Nat /\ x.count \in Nat /\ x.goal \in SUBSET Nat
          /\ x.rest \in SUBSET Queue
  BY DEF Idle, ThreadType, Places

\* Calls that return at once with an operation posted.
LEMMA PostCallsType ==
    ASSUME TypeInv, NEW t \in Thread, NEW q \in Queue, UNCHANGED program,
           \/ SubmitAsync(t, q)
           \/ EnqueueDeferred(t, q)
           \/ \E to \in Queue : KeepAlive(t, q, to)
           \/ \E e \in Event : EnqueueEventAsync(t, q, e)
    PROVE  TypeInv'
<1> USE ThreadStates
<1>0. /\ worker \in [Queue -> {"idle", "pop", "destroy", "set"}]
      /\ event \in [Event -> [count : Nat, last : Nat, future : Nat, covers : SUBSET Nat]]
      /\ \A x \in Event : event[x].covers \subseteq Ids
      /\ {} \subseteq Ids /\ None \in Event \cup Queue \cup {None}
  BY DEF TypeInv, TypeOK
<1>1. CASE SubmitAsync(t, q)
  <2>1. Post("task", q, None, 0, {}) /\ MayCall(t, "submit", q, None) /\ Called(t, Idle)
    BY <1>1 DEF SubmitAsync
  <2>2. /\ left' \in [Thread -> Nat] /\ thread' \in [Thread -> ThreadType]
        /\ \A u \in Thread : thread'[u].goal \subseteq Ids
    BY <2>1, CallEffect, <1>0
  <2>3. UNCHANGED <<worker, current, executed, ready, event, eLock, qLock, depth, running,
                    held, promised>>
    BY <1>1 DEF SubmitAsync
  <2> QED
    BY <1>0, <2>1, <2>2, <2>3, PostType DEF Kinds
<1>2. ASSUME NEW to \in Queue \cup {None}, NEW kind \in {"task", "keep"}, NEW call,
             kind = "keep" => to \in Queue, Deferred(t, q, to, call, kind)
      PROVE  TypeInv'
  <2>1. Post(kind, q, to, 0, {}) /\ MayCall(t, call, q, to) /\ Called(t, Idle)
    BY <1>2 DEF Deferred
  <2>2. /\ left' \in [Thread -> Nat] /\ thread' \in [Thread -> ThreadType]
        /\ \A u \in Thread : thread'[u].goal \subseteq Ids
    BY <2>1, CallEffect, <1>0
  <2>3. UNCHANGED <<worker, current, executed, ready, event, eLock, qLock, depth, running,
                    held, promised>>
    BY <1>2 DEF Deferred
  <2>4. kind \in Kinds /\ kind # "event" /\ to \in Event \cup Queue \cup {None}
    BY DEF Kinds
  <2> QED
    BY <1>0, <1>2, <2>1, <2>2, <2>3, <2>4, PostType
<1>3. ASSUME NEW e \in Event, EnqueueEventAsync(t, q, e)
      PROVE  TypeInv'
  <2>1. /\ Post("event", q, e, event[e].count + 1, {}) /\ MayCall(t, "event", q, e)
        /\ Called(t, Idle)
    BY <1>3 DEF EnqueueEventAsync
  <2>2. /\ left' \in [Thread -> Nat] /\ thread' \in [Thread -> ThreadType]
        /\ \A u \in Thread : thread'[u].goal \subseteq Ids
    BY <2>1, CallEffect, <1>0
  <2>3. /\ UNCHANGED <<worker, current, executed, ready, eLock, qLock, depth, running, held,
                       promised>>
        /\ event' = [event EXCEPT ![e] = [count |-> @.count + 1, last |-> @.last,
                                          future |-> NewId, covers |-> need[q]]]
    BY <1>3 DEF EnqueueEventAsync
  <2>4. need[q] \subseteq Ids /\ Ids \subseteq Nat /\ NewId \in Nat
    BY DEF TypeInv, TypeOK, Ids, NewId
  <2>5. /\ event' \in [Event -> [count : Nat, last : Nat, future : Nat, covers : SUBSET Nat]]
        /\ \A x \in Event : event'[x].covers \subseteq Ids
    <3> DEFINE y == [count |-> event[e].count + 1, last |-> event[e].last, future |-> NewId,
                     covers |-> need[q]]
    <3>1. /\ y \in [count : Nat, last : Nat, future : Nat, covers : SUBSET Nat]
          /\ y.covers \subseteq Ids
      <4>1. need[q] \in SUBSET Nat
        BY <2>4
      <4>2. event[e].count + 1 \in Nat /\ event[e].last \in Nat
        BY <1>0
      <4> QED
        BY <2>4, <4>1, <4>2
    <3>2. event' = [event EXCEPT ![e] = y]
      BY <2>3
    <3> HIDE DEF y
    <3> QED
      BY <1>0, <3>1, <3>2
  <2>6. event[e].count + 1 \in Nat /\ "event" \in Kinds /\ e \in Event \cup Queue \cup {None}
    BY <1>0 DEF Kinds
  <2> QED
    BY <1>0, <2>1, <2>2, <2>3, <2>5, <2>6, PostType
<1> QED
  BY <1>1, <1>2, <1>3 DEF EnqueueDeferred, KeepAlive

\* Operations that were under way and post now: a waitFor that copied the
\* future and a marker.
LEMMA PostStepsType ==
    ASSUME TypeInv, NEW t \in Thread, NEW q \in Queue, UNCHANGED program,
           \/ WaitForSubmit(t) /\ thread[t].q \in Queue
           \/ SubmitMarker(t, q) /\ q \notin Blocking
    PROVE  TypeInv'
<1> USE ThreadStates
<1>0. /\ worker \in [Queue -> {"idle", "pop", "destroy", "set"}]
      /\ event \in [Event -> [count : Nat, last : Nat, future : Nat, covers : SUBSET Nat]]
      /\ thread \in [Thread -> ThreadType] /\ left \in [Thread -> Nat]
      /\ \A x \in Event : event[x].covers \subseteq Ids
      /\ \A u \in Thread : thread[u].goal \subseteq Ids
      /\ {} \subseteq Ids /\ None \in Event \cup Queue \cup {None}
      /\ NewId \in Nat
      /\ {"task", "marker", "waitFor"} \subseteq Kinds
  BY DEF TypeInv, TypeOK, NewId, Kinds
<1>1. CASE WaitForSubmit(t) /\ thread[t].q \in Queue
  <2>1. /\ Post("waitFor", thread[t].q, thread[t].e, thread[t].future, thread[t].goal)
        /\ thread' = [thread EXCEPT ![t] = Idle]
        /\ UNCHANGED <<worker, current, executed, ready, event, eLock, qLock, depth, running,
                       held, left, promised>>
    BY <1>1 DEF WaitForSubmit
  <2>2. /\ thread' \in [Thread -> ThreadType]
        /\ \A u \in Thread : thread'[u].goal \subseteq Ids
    BY <1>0, <2>1
  <2>3. thread[t].e \in Event \cup Queue \cup {None} /\ thread[t].future \in Nat
    BY <1>0
  <2> QED
    BY <1>0, <1>1, <2>1, <2>2, <2>3, PostType
<1>2. CASE SubmitMarker(t, q) /\ q \notin Blocking
  <2>1. /\ Post("marker", q, None, 0, {})
        /\ thread' = [thread EXCEPT ![t].at = "marker", ![t].q = q, ![t].rest = @ \ {q},
                                    ![t].future = NewId]
        /\ UNCHANGED <<worker, current, executed, ready, event, eLock, qLock, depth, running,
                       held, left, promised>>
    BY <1>2 DEF SubmitMarker
  <2>2. /\ thread' \in [Thread -> ThreadType]
        /\ \A u \in Thread : thread'[u].goal = thread[u].goal
    <3> DEFINE y == [thread[t] EXCEPT !.at = "marker", !.q = q, !.rest = @ \ {q},
                                      !.future = NewId]
    <3>1. y \in ThreadType /\ y.goal = thread[t].goal
      BY <1>0 DEF ThreadType, Places
    <3>2. thread' = [thread EXCEPT ![t] = y]
      BY <2>1
    <3> HIDE DEF y
    <3> QED
      BY <1>0, <3>1, <3>2
  <2> QED
    BY <1>0, <2>1, <2>2, PostType
<1> QED
  BY <1>1, <1>2

\* The free of a deferred buffer is posted to the buffer's queue.
LEMMA FreeAsyncType ==
    ASSUME TypeInv, WorkerInv, NEW q \in Queue, UNCHANGED program, WorkerFreeAsync(q)
    PROVE  TypeInv'
<1> USE ThreadStates
<1>0. /\ worker \in [Queue -> {"idle", "pop", "destroy", "set"}]
      /\ event \in [Event -> [count : Nat, last : Nat, future : Nat, covers : SUBSET Nat]]
      /\ thread \in [Thread -> ThreadType] /\ left \in [Thread -> Nat]
      /\ \A x \in Event : event[x].covers \subseteq Ids
      /\ \A u \in Thread : thread[u].goal \subseteq Ids
      /\ {} \subseteq Ids /\ None \in Event \cup Queue \cup {None}
      /\ NewId \in Nat
      /\ {"task", "marker", "waitFor"} \subseteq Kinds
  BY DEF TypeInv, TypeOK, NewId, Kinds
<1> DEFINE k == op[current[q]]
<1>1. /\ Post("task", k.e, None, 0, k.before)
      /\ worker' = [worker EXCEPT ![q] = "set"]
      /\ UNCHANGED <<current, executed, ready, event, eLock, qLock, depth, running, thread,
                     held, left, promised>>
      /\ worker[q] = "destroy"
  BY DEF WorkerFreeAsync
<1>2. k.e \in Queue /\ k.before \in SUBSET Ids
  BY <1>1 DEF WorkerInv, TypeInv, TypeOK
<1>3. worker' \in [Queue -> {"idle", "pop", "destroy", "set"}]
  BY <1>0, <1>1
<1> QED
  BY <1>0, <1>1, <1>2, <1>3, PostType

\* A step that puts a thread in another state.
LEMMA ThreadUpdate ==
    ASSUME TypeInv, NEW t \in Thread, NEW y \in ThreadType, y.goal \subseteq Ids,
           thread' = [thread EXCEPT ![t] = y]
    PROVE  /\ thread' \in [Thread -> ThreadType]
           /\ \A u \in Thread : thread'[u].goal \subseteq Ids
           /\ thread'[t] = y
           /\ \A u \in Thread \ {t} : thread'[u] = thread[u]
  BY DEF TypeInv

\* Operations that run in the caller.
LEMMA StartType ==
    ASSUME TypeInv, NEW t \in Thread, NEW q \in Queue, UNCHANGED program,
           SubmitBlocking(t, q) \/ (SubmitNested(t) /\ thread[t].q = q)
    PROVE  TypeInv'
<1> USE ThreadStates
<1>0. /\ worker \in [Queue -> {"idle", "pop", "destroy", "set"}]
      /\ thread \in [Thread -> ThreadType] /\ left \in [Thread -> Nat]
      /\ qLock \in [Queue -> Thread \cup {None}] /\ depth \in [Queue -> Nat]
      /\ \A u \in Thread : thread[u].goal \subseteq Ids
      /\ \A i \in Ids : /\ op[i].before \subseteq Ids
                        /\ op[i].kind = "keep" => op[i].e \in Queue
                        /\ op[i].kind = "event" => op[i].e \in Event
      /\ \A e \in Event : event[e].covers \subseteq Ids
  BY DEF TypeInv, TypeOK
<1>1. /\ StartBlocking(t, q)
      /\ UNCHANGED <<callbackVars, executed, ready, event, eLock, held, promised>>
  BY DEF SubmitBlocking, SubmitNested
<1>2. Started(q)
  BY <1>1, StartEffect
<1>3. /\ qLock' = [qLock EXCEPT ![q] = t] /\ depth' = [depth EXCEPT ![q] = @ + 1]
  BY <1>1 DEF StartBlocking
<1>4. qLock' \in [Queue -> Thread \cup {None}] /\ depth' \in [Queue -> Nat]
  BY <1>0, <1>3
<1>5. /\ left' \in [Thread -> Nat]
      /\ thread' \in [Thread -> ThreadType]
      /\ \A u \in Thread : thread'[u].goal \subseteq Ids
  <2>1. CASE SubmitBlocking(t, q)
    <3> DEFINE y == [Idle EXCEPT !.at = "running", !.q = q]
    <3>1. y \in ThreadType /\ y.goal = {}
      BY DEF ThreadType, Places, Idle
    <3>2. MayCall(t, "submit", q, None) /\ Called(t, y)
      BY <2>1 DEF SubmitBlocking
    <3> HIDE DEF y
    <3> QED
      BY <3>1, <3>2, CallEffect
  <2>2. CASE SubmitNested(t)
    BY <1>0, <2>2 DEF SubmitNested
  <2> QED
    BY <2>1, <2>2
<1>6. /\ op' \in Seq(OpType)
      /\ Ids \subseteq Ids'
      /\ need' \in [Queue -> SUBSET Ids']
      /\ running' \in [Queue -> Seq(Nat)]
  BY <1>2 DEF Started
<1>7. \A i \in Ids' : /\ op'[i].before \subseteq Ids'
                      /\ op'[i].kind = "keep" => op'[i].e \in Queue
                      /\ op'[i].kind = "event" => op'[i].e \in Event
  <2>1. /\ Ids' = Ids \cup {NewId}
        /\ \A i \in Ids : op'[i] = op[i]
        /\ op'[NewId].before \subseteq need[q] /\ op'[NewId].kind = "task"
        /\ need[q] \subseteq Ids
    BY <1>2 DEF Started
  <2> QED
    BY <1>0, <2>1
<1>8. TypeOK'
  BY <1>1, <1>4, <1>5, <1>6 DEF TypeInv, TypeOK, OpType, Kinds, callbackVars
<1> QED
  BY <1>0, <1>1, <1>5, <1>6, <1>7, <1>8 DEF TypeInv

\* What WorkerFreeBlocking does: the free is executed at once.
FreedAtOnce(q, k) ==
    /\ op' \in Seq(OpType)
    /\ Len(op) \in Nat
    /\ Len(op') = Len(op) + 1
    /\ Ids' = Ids \cup {NewId}
    /\ NewId \notin Ids
    /\ \A i \in Ids : op'[i] = op[i]
    /\ op'[NewId] = [kind |-> "task", q |-> k.e, e |-> None, number |-> 0,
                     before |-> need[k.e] \cup k.before]
    /\ k.e \in Blocking /\ k.e \in Queue
    /\ qLock[k.e] = None
    /\ k.before \subseteq Ids
    /\ need' \in [Queue -> SUBSET Ids']
    /\ \A p \in Queue \ {k.e} : need'[p] = need[p]
    /\ need'[k.e] = need[k.e] \cup {NewId}
    /\ executed' = executed \cup {NewId}
    /\ ready' = ready \cup {NewId}
    /\ worker[q] = "destroy"
    /\ worker' = [worker EXCEPT ![q] = "set"]
    /\ UNCHANGED <<tasks, current, event, eLock, qLock, depth, running, thread, held, left,
                   promised>>

\* The free of a deferred buffer in a blocking queue is executed and set at once.
LEMMA FreeBlockingEffect ==
    ASSUME TypeInv, WorkerInv, NEW q \in Queue, WorkerFreeBlocking(q)
    PROVE  FreedAtOnce(q, op[current[q]])
<1> DEFINE k == op[current[q]]
           x == [kind |-> "task", q |-> k.e, e |-> None, number |-> 0,
                 before |-> need[k.e] \cup k.before]
<1>1. /\ worker[q] = "destroy" /\ k.e \in Blocking /\ qLock[k.e] = None
      /\ op' = Append(op, x)
      /\ need' = [need EXCEPT ![k.e] = @ \cup {NewId}]
      /\ executed' = executed \cup {NewId}
      /\ ready' = ready \cup {NewId}
      /\ worker' = [worker EXCEPT ![q] = "set"]
      /\ UNCHANGED <<tasks, current, event, eLock, qLock, depth, running, thread, held, left,
                     promised>>
  BY DEF WorkerFreeBlocking, Operation
<1>2. current[q] \in Ids /\ k.kind = "keep" /\ k.e \in Queue /\ k.before \subseteq Ids
  BY <1>1 DEF WorkerInv, TypeInv, TypeOK
<1>3. need \in [Queue -> SUBSET Ids] /\ Ids \subseteq Nat
  BY DEF TypeInv, TypeOK, Ids
<1>4. x \in OpType
  <2>1. need[k.e] \cup k.before \in SUBSET Nat
    BY <1>2, <1>3
  <2> QED
    BY <1>2, <2>1 DEF OpType, Kinds
<1>5. /\ op' \in Seq(OpType) /\ Len(op) \in Nat /\ Len(op') = Len(op) + 1
      /\ Ids' = Ids \cup {NewId} /\ NewId \notin Ids
      /\ \A i \in Ids : op'[i] = op[i]
      /\ op'[NewId] = x
  <2> HIDE DEF x
  <2> QED
    BY <1>1, <1>4, NewOperation
<1>6. /\ need' \in [Queue -> SUBSET Ids']
      /\ \A p \in Queue \ {k.e} : need'[p] = need[p]
      /\ need'[k.e] = need[k.e] \cup {NewId}
  <2> HIDE DEF k
  <2>1. need \in [Queue -> SUBSET Ids'] /\ need[k.e] \cup {NewId} \in SUBSET Ids'
    BY <1>2, <1>3, <1>5
  <2> QED
    BY <1>1, <1>2, <2>1
<1> QED
  BY <1>1, <1>2, <1>5, <1>6 DEF FreedAtOnce

\* The free of a deferred buffer into a blocking queue.
LEMMA FreeBlockingType ==
    ASSUME TypeInv, WorkerInv, NEW q \in Queue, WorkerFreeBlocking(q), UNCHANGED program
    PROVE  TypeInv'
<1>1. FreedAtOnce(q, op[current[q]])
  BY FreeBlockingEffect
<1>2. /\ op' \in Seq(OpType)
      /\ Ids \subseteq Ids'
      /\ need' \in [Queue -> SUBSET Ids']
      /\ executed' = executed \cup {NewId} /\ ready' = ready \cup {NewId} /\ NewId \in Ids'
      /\ worker' = [worker EXCEPT ![q] = "set"]
      /\ UNCHANGED <<tasks, current, event, eLock, qLock, depth, running, thread, held, left,
                     promised>>
  BY <1>1 DEF FreedAtOnce
<1>3. \A i \in Ids' : /\ op'[i].before \subseteq Ids'
                      /\ op'[i].kind = "keep" => op'[i].e \in Queue
                      /\ op'[i].kind = "event" => op'[i].e \in Event
  <2>1. /\ Ids' = Ids \cup {NewId}
        /\ \A i \in Ids : op'[i] = op[i]
        /\ op'[NewId].kind = "task" /\ op'[NewId].before \subseteq Ids
    <3> DEFINE k == op[current[q]]
    <3>1. /\ k.e \in Queue /\ k.before \subseteq Ids
          /\ Ids' = Ids \cup {NewId}
          /\ \A i \in Ids : op'[i] = op[i]
          /\ op'[NewId].kind = "task" /\ op'[NewId].before = need[k.e] \cup k.before
      BY <1>1 DEF FreedAtOnce
    <3> HIDE DEF k
    <3>2. need[k.e] \subseteq Ids
      BY <3>1 DEF TypeInv, TypeOK
    <3> QED
      BY <3>1, <3>2
  <2> QED
    BY <2>1 DEF TypeInv
<1>4. TypeOK'
  BY <1>2 DEF TypeInv, TypeOK, OpType, Kinds
<1> QED
  BY <1>2, <1>3, <1>4 DEF TypeInv

\* What the type invariant says of each variable.
LEMMA TypeFacts ==
    ASSUME TypeInv
    PROVE  /\ tasks \in [Queue -> Seq(Nat)]
           /\ worker \in [Queue -> {"idle", "pop", "destroy", "set"}]
           /\ current \in [Queue -> Nat] /\ executed \subseteq Ids /\ ready \subseteq executed
           /\ event \in [Event -> [count : Nat, last : Nat, future : Nat, covers : SUBSET Nat]]
           /\ \A x \in Event : event[x].covers \subseteq Ids
           /\ eLock \in [Event -> Thread \cup {None}] /\ qLock \in [Queue -> Thread \cup {None}]
           /\ depth \in [Queue -> Nat] /\ running \in [Queue -> Seq(Nat)] /\ held \subseteq Queue
           /\ need \in [Queue -> SUBSET Ids] /\ promised \subseteq Ids
           /\ left \in [Thread -> Nat] /\ thread \in [Thread -> ThreadType]
           /\ \A u \in Thread : thread[u].goal \subseteq Ids
           /\ Ids \subseteq Nat
<1>1. Ids \subseteq Nat
  BY DEF Ids
<1> QED
  BY <1>1 DEF TypeInv, TypeOK

\* A state a thread may be put in.
Typed(y) == y \in ThreadType /\ y.goal \subseteq Ids

\* A call that has returned leaves its thread idle.
LEMMA IdleTyped == Typed(Idle)
  BY ThreadStates DEF Typed

\* A call leaves its thread in a state of the type.
LEMMA CallTyped ==
    ASSUME TypeInv, NEW t \in Thread, NEW call, NEW p, NEW x, MayCall(t, call, p, x),
           NEW y, Typed(y), Called(t, y)
    PROVE  /\ left' \in [Thread -> Nat]
           /\ thread' \in [Thread -> ThreadType]
           /\ \A u \in Thread : thread'[u].goal \subseteq Ids
<1>1. y \in ThreadType /\ y.goal \subseteq Ids
  BY DEF Typed
<1> QED
  BY <1>1, CallEffect

\* So does a step inside a call.
LEMMA ThreadTyped ==
    ASSUME TypeInv, NEW t \in Thread, NEW y, Typed(y), thread' = [thread EXCEPT ![t] = y]
    PROVE  /\ thread' \in [Thread -> ThreadType]
           /\ \A u \in Thread : thread'[u].goal \subseteq Ids
  BY DEF TypeInv, Typed

\* Calls that enqueue or await an event in a queue.
LEMMA EventCallsType ==
    ASSUME TypeInv, NEW t \in Thread, NEW q \in Queue, NEW e \in Event, UNCHANGED program,
           \/ EnqueueEventLock(t, q, e) \/ WaitForReady(t, q, e)
           \/ WaitForAsync(t, q, e) \/ WaitForLock(t, q, e)
    PROVE  TypeInv'
<1> USE ThreadStates
<1>1. CASE EnqueueEventLock(t, q, e)
  <2> DEFINE y == [Idle EXCEPT !.at = "eventLocked", !.q = q, !.e = e]
  <2>1. Typed(y)
    BY DEF Typed, ThreadType, Places, Idle
  <2>2. /\ MayCall(t, "event", q, e) /\ Called(t, y)
        /\ eLock' = [eLock EXCEPT ![e] = t] /\ event' = [event EXCEPT ![e].count = @ + 1]
        /\ UNCHANGED <<op, callbackVars, executed, ready, qLock, depth, running, held,
                       historyVars>>
    BY <1>1 DEF EnqueueEventLock
  <2>3. /\ event' \in [Event -> [count : Nat, last : Nat, future : Nat, covers : SUBSET Nat]]
        /\ \A x \in Event : event'[x].covers \subseteq Ids
    <3> DEFINE x == [event[e] EXCEPT !.count = @ + 1]
    <3>1. /\ x \in [count : Nat, last : Nat, future : Nat, covers : SUBSET Nat]
          /\ x.covers = event[e].covers
      <4>1. event[e] \in [count : Nat, last : Nat, future : Nat, covers : SUBSET Nat]
        BY TypeFacts
      <4> QED
        BY <4>1
    <3>2. event' = [event EXCEPT ![e] = x]
      BY <2>2
    <3> HIDE DEF x
    <3> QED
      BY TypeFacts, <3>1, <3>2
  <2>4. eLock' \in [Event -> Thread \cup {None}]
    BY TypeFacts, <2>2
  <2> QED
    BY TypeFacts, CallTyped, <2>1, <2>2, <2>3, <2>4, SameOpType DEF callbackVars, historyVars
<1>2. CASE WaitForReady(t, q, e)
  <2>1. /\ MayCall(t, "waitFor", q, e) /\ Called(t, Idle)
        /\ need' = [need EXCEPT ![q] = @ \cup event[e].covers]
        /\ UNCHANGED <<op, callbackVars, executed, ready, event, eLock, qLock, depth, running,
                       held, promised>>
    BY <1>2 DEF WaitForReady
  <2>2. need' \in [Queue -> SUBSET Ids]
    BY TypeFacts, <2>1
  <2> QED
    BY TypeFacts, CallTyped, IdleTyped, <2>1, <2>2, SameOpType DEF callbackVars
<1>3. CASE WaitForAsync(t, q, e)
  <2> DEFINE y == [Idle EXCEPT !.at = "futureCopied", !.q = q, !.e = e,
                               !.future = event[e].future, !.goal = event[e].covers]
  <2>1. Typed(y)
    BY TypeFacts DEF Typed, ThreadType, Places, Idle
  <2>2. /\ MayCall(t, "waitFor", q, e) /\ Called(t, y)
        /\ UNCHANGED <<op, callbackVars, executed, ready, event, eLock, qLock, depth, running,
                       held, historyVars>>
    BY <1>3 DEF WaitForAsync
  <2> QED
    BY TypeFacts, CallTyped, <2>1, <2>2, SameOpType DEF callbackVars, historyVars
<1>4. CASE WaitForLock(t, q, e)
  <2> DEFINE y == [Idle EXCEPT !.at = "waitForLocked", !.q = q, !.e = e]
  <2>1. Typed(y)
    BY DEF Typed, ThreadType, Places, Idle
  <2>2. /\ MayCall(t, "waitFor", q, e) /\ Called(t, y)
        /\ eLock' = [eLock EXCEPT ![e] = t]
        /\ UNCHANGED <<op, callbackVars, executed, ready, event, qLock, depth, running, held,
                       historyVars>>
    BY <1>4 DEF WaitForLock
  <2>3. eLock' \in [Event -> Thread \cup {None}]
    BY TypeFacts, <2>2
  <2> QED
    BY TypeFacts, CallTyped, <2>1, <2>2, <2>3, SameOpType DEF callbackVars, historyVars
<1> QED
  BY <1>1, <1>2, <1>3, <1>4

\* Calls that ask or wait for an event in the host thread.
LEMMA EventWaitsType ==
    ASSUME TypeInv, NEW t \in Thread, NEW e \in Event, UNCHANGED program,
           IsComplete(t, e) \/ WaitEvent(t, e)
    PROVE  TypeInv'
<1> USE ThreadStates
<1>1. CASE IsComplete(t, e)
  <2>1. /\ MayCall(t, "isComplete", None, e) /\ Called(t, Idle)
        /\ promised' = promised \cup event[e].covers
        /\ UNCHANGED <<op, callbackVars, executed, ready, event, eLock, qLock, depth, running,
                       held, need>>
    BY <1>1 DEF IsComplete
  <2> QED
    BY TypeFacts, CallTyped, IdleTyped, <2>1, SameOpType DEF callbackVars
<1>2. CASE WaitEvent(t, e)
  <2> DEFINE y == [Idle EXCEPT !.at = "waitEvent", !.e = e, !.future = event[e].future,
                               !.count = event[e].count, !.goal = event[e].covers]
  <2>1. Typed(y) /\ Typed(Idle)
    BY TypeFacts DEF Typed, ThreadType, Places, Idle
  <2>2. /\ MayCall(t, "waitEvent", None, e)
        /\ \/ Called(t, y) /\ UNCHANGED promised
           \/ Called(t, Idle) /\ promised' = promised \cup event[e].covers
        /\ UNCHANGED <<op, callbackVars, executed, ready, event, eLock, qLock, depth, running,
                       held, need>>
    BY <1>2 DEF WaitEvent
  <2>3. promised' \subseteq Ids
    BY TypeFacts, <2>2
  <2> QED
    BY TypeFacts, CallTyped, <2>1, <2>2, <2>3, SameOpType DEF callbackVars
<1> QED
  BY <1>1, <1>2

\* Waiting for a queue and dropping it.
LEMMA QueueCallsType ==
    ASSUME TypeInv, NEW t \in Thread, NEW q \in Queue, UNCHANGED program,
           WaitQueue(t, q) \/ DropQueue(t, q)
    PROVE  TypeInv'
<1> USE ThreadStates
<1>1. CASE WaitQueue(t, q)
  <2> DEFINE y == [Idle EXCEPT !.at = "waitQueues", !.q = q, !.rest = {q}, !.goal = need[q]]
  <2>1. Typed(y)
    <3>1. need[q] \subseteq Nat /\ need[q] \subseteq Ids
      BY TypeFacts
    <3> QED
      BY <3>1 DEF Typed, ThreadType, Places, Idle
  <2>2. /\ MayCall(t, "waitQueue", q, None) /\ Called(t, y)
        /\ UNCHANGED <<op, callbackVars, executed, ready, event, eLock, qLock, depth, running,
                       held, historyVars>>
    BY <1>1 DEF WaitQueue
  <2> QED
    BY TypeFacts, CallTyped, <2>1, <2>2, SameOpType DEF callbackVars, historyVars
<1>2. CASE DropQueue(t, q)
  <2> DEFINE y == [Idle EXCEPT !.at = "join", !.q = q]
  <2>1. Typed(y)
    BY DEF Typed, ThreadType, Places, Idle
  <2>2. /\ MayCall(t, "drop", q, None) /\ Called(t, y) /\ held' = held \ {q}
        /\ UNCHANGED <<op, callbackVars, executed, ready, event, eLock, qLock, depth, running,
                       historyVars>>
    BY <1>2 DEF DropQueue
  <2> QED
    BY TypeFacts, CallTyped, <2>1, <2>2, SameOpType DEF callbackVars, historyVars
<1> QED
  BY <1>1, <1>2

\* Waiting for every queue of the device.
LEMMA WaitDeviceType ==
    ASSUME TypeInv, NEW t \in Thread, UNCHANGED program, WaitDevice(t)
    PROVE  TypeInv'
<1> USE ThreadStates
<1> DEFINE G == UNION {need[p] : p \in Queue}
           y == [Idle EXCEPT !.at = "waitQueues", !.rest = Queue, !.goal = G]
<1>1. Typed(y)
  <2>1. G \subseteq Ids /\ G \subseteq Nat
    <3>1. \A p \in Queue : need[p] \subseteq Ids
      BY TypeFacts
    <3> QED
      BY <3>1, TypeFacts
  <2> HIDE DEF G
  <2> QED
    BY <2>1 DEF Typed, ThreadType, Places, Idle
<1>2. /\ MayCall(t, "waitDevice", None, None) /\ Called(t, y)
      /\ UNCHANGED <<op, callbackVars, executed, ready, event, eLock, qLock, depth, running,
                     held, historyVars>>
  BY DEF WaitDevice
<1> HIDE DEF y
<1> QED
  BY TypeFacts, CallTyped, <1>1, <1>2, SameOpType DEF callbackVars, historyVars

\* Steps of a thread inside a call.
LEMMA ProceedType ==
    ASSUME TypeInv, LockInv, NEW t \in Thread, UNCHANGED program,
           \/ FinishBlocking(t) \/ EnqueueEventBlocking(t) \/ WaitForBlocking(t)
           \/ WaitForReturns(t) \/ (WaitEventLoop(t) /\ thread[t].e \in Event)
           \/ MarkerReturns(t) \/ WaitQueuesReturns(t) \/ DropReturns(t)
    PROVE  TypeInv'
<1> USE ThreadStates
<1>t. thread[t] \in ThreadType /\ thread[t].goal \subseteq Ids
  BY TypeFacts
<1>1. CASE FinishBlocking(t)
  <2> DEFINE p == thread[t].q
             n == Len(running[p])
  <2>1. p \in Queue /\ running[p] # <<>> /\ depth[p] = n
    BY <1>1, HostQueueAssumption DEF FinishBlocking, LockInv
  <2>2. running[p] \in Seq(Nat)
    BY TypeFacts, <2>1
  <2>3. n \in Nat \ {0} /\ SubSeq(running[p], 1, n - 1) \in Seq(Nat)
    BY <2>1, <2>2, FrontElements
  <2>4. /\ executed' = executed \cup {running[p][n]}
        /\ ready' = ready \cup {running[p][n]}
        /\ running' = [running EXCEPT ![p] = SubSeq(running[p], 1, n - 1)]
        /\ depth' = [depth EXCEPT ![p] = depth[p] - 1]
        /\ qLock' = IF n = 1 THEN [qLock EXCEPT ![p] = None] ELSE qLock
        /\ thread' = IF n = 1 THEN [thread EXCEPT ![t] = Idle] ELSE thread
        /\ UNCHANGED <<op, callbackVars, event, eLock, held, left, historyVars>>
    BY <1>1 DEF FinishBlocking, FinishDepth
  <2> HIDE DEF n, p
  <2>5. running' \in [Queue -> Seq(Nat)]
    BY TypeFacts, <2>3, <2>4
  <2>6. depth' \in [Queue -> Nat]
    BY TypeFacts, <2>1, <2>3, <2>4
  <2>7. qLock' \in [Queue -> Thread \cup {None}]
    BY TypeFacts, <2>4
  <2>8. /\ thread' \in [Thread -> ThreadType]
        /\ \A u \in Thread : thread'[u].goal \subseteq Ids
    BY TypeFacts, ThreadTyped, IdleTyped, <2>4
  <2>9. executed' \subseteq Ids /\ ready' \subseteq executed'
    <3>1. running[p][n] \in Ids
      <4>1. \A m \in 1..Len(running[p]) : running[p][m] \in Ids
        BY <2>1 DEF LockInv
      <4> QED
        BY <2>3, <4>1 DEF n
    <3> QED
      BY TypeFacts, <2>4, <3>1
  <2> QED
    BY TypeFacts, <2>4, <2>5, <2>6, <2>7, <2>8, <2>9, SameOpType DEF callbackVars, historyVars
<1>2. CASE EnqueueEventBlocking(t)
  <2> DEFINE p == thread[t].q
             e == thread[t].e
             x == [count |-> event[e].count, last |-> event[e].count, future |-> 0,
                   covers |-> need[p]]
  <2>1. p \in Queue /\ e \in Event
    BY <1>2, HostQueueAssumption DEF EnqueueEventBlocking, LockInv
  <2>2. /\ event' = [event EXCEPT ![e] = x]
        /\ eLock' = [eLock EXCEPT ![e] = None]
        /\ thread' = [thread EXCEPT ![t] = Idle]
        /\ UNCHANGED <<op, callbackVars, executed, ready, qLock, depth, running, held, left,
                       historyVars>>
    BY <1>2 DEF EnqueueEventBlocking
  <2>3. /\ x \in [count : Nat, last : Nat, future : Nat, covers : SUBSET Nat]
        /\ x.covers \subseteq Ids
    <3>1. event[e].count \in Nat /\ need[p] \subseteq Ids
      BY TypeFacts, <2>1
    <3>2. need[p] \in SUBSET Nat
      BY <3>1, TypeFacts
    <3> QED
      BY <3>1, <3>2
  <2> HIDE DEF x, e, p
  <2>4. /\ event' \in [Event -> [count : Nat, last : Nat, future : Nat, covers : SUBSET Nat]]
        /\ \A z \in Event : event'[z].covers \subseteq Ids
    BY TypeFacts, <2>2, <2>3
  <2>5. eLock' \in [Event -> Thread \cup {None}]
    BY TypeFacts, <2>2
  <2> QED
    BY TypeFacts, ThreadTyped, IdleTyped, <2>2, <2>4, <2>5, SameOpType DEF callbackVars, historyVars
<1>3. CASE WaitForBlocking(t)
  <2> DEFINE p == thread[t].q
             e == thread[t].e
             y == [thread[t] EXCEPT !.at = "waitForFuture", !.future = event[e].future,
                                    !.goal = event[e].covers]
  <2>1. e \in Event
    BY <1>3 DEF WaitForBlocking, LockInv
  <2>2. /\ thread' = [thread EXCEPT ![t] = y]
        /\ qLock' = [qLock EXCEPT ![p] = t] /\ eLock' = [eLock EXCEPT ![e] = None]
        /\ UNCHANGED <<op, callbackVars, executed, ready, event, depth, running, held, left,
                       historyVars>>
    BY <1>3 DEF WaitForBlocking
  <2>3. Typed(y)
    <3>1. event[e].future \in Nat /\ event[e].covers \in SUBSET Nat /\ event[e].covers \subseteq Ids
      BY TypeFacts, <2>1
    <3> QED
      BY <1>t, <3>1 DEF Typed, ThreadType, Places
  <2> HIDE DEF y, e, p
  <2>4. qLock' \in [Queue -> Thread \cup {None}] /\ eLock' \in [Event -> Thread \cup {None}]
    BY TypeFacts, <2>2
  <2> QED
    BY TypeFacts, ThreadTyped, <2>2, <2>3, <2>4, SameOpType DEF callbackVars, historyVars
<1>4. CASE WaitForReturns(t)
  <2> DEFINE p == thread[t].q
  <2>1. /\ thread' = [thread EXCEPT ![t] = Idle]
        /\ qLock' = [qLock EXCEPT ![p] = None]
        /\ need' = [need EXCEPT ![p] = need[p] \cup thread[t].goal]
        /\ UNCHANGED <<op, callbackVars, executed, ready, event, eLock, depth, running, held,
                       left, promised>>
    BY <1>4 DEF WaitForReturns
  <2>2. need' \in [Queue -> SUBSET Ids] /\ qLock' \in [Queue -> Thread \cup {None}]
    BY TypeFacts, <1>t, <2>1
  <2> QED
    BY TypeFacts, ThreadTyped, IdleTyped, <2>1, <2>2, SameOpType DEF callbackVars
<1>5. CASE WaitEventLoop(t) /\ thread[t].e \in Event
  <2> DEFINE e == thread[t].e
             y == [thread[t] EXCEPT !.future = event[e].future]
  <2>1. /\ \/ thread' = [thread EXCEPT ![t] = y] /\ UNCHANGED promised
           \/ thread' = [thread EXCEPT ![t] = Idle] /\ promised' = promised \cup thread[t].goal
        /\ UNCHANGED <<op, callbackVars, executed, ready, event, eLock, qLock, depth, running,
                       held, left, need>>
    BY <1>5 DEF WaitEventLoop
  <2>2. Typed(y)
    <3>1. event[e].future \in Nat
      BY TypeFacts, <1>5
    <3> QED
      BY <1>t, <3>1 DEF Typed, ThreadType
  <2> HIDE DEF y, e
  <2>3. promised' \subseteq Ids
    BY TypeFacts, <1>t, <2>1
  <2> QED
    BY TypeFacts, ThreadTyped, IdleTyped, <2>1, <2>2, <2>3, SameOpType DEF callbackVars
<1>6. CASE MarkerReturns(t)
  <2> DEFINE y == [thread[t] EXCEPT !.at = "waitQueues", !.q = None, !.future = 0]
  <2>1. /\ thread' = [thread EXCEPT ![t] = y]
        /\ UNCHANGED <<op, callbackVars, executed, ready, event, eLock, qLock, depth, running,
                       held, left, historyVars>>
    BY <1>6 DEF MarkerReturns
  <2>2. Typed(y)
    BY <1>t DEF Typed, ThreadType, Places
  <2> HIDE DEF y
  <2> QED
    BY TypeFacts, ThreadTyped, <2>1, <2>2, SameOpType DEF callbackVars, historyVars
<1>7. CASE WaitQueuesReturns(t)
  <2>1. /\ thread' = [thread EXCEPT ![t] = Idle]
        /\ promised' = promised \cup thread[t].goal
        /\ UNCHANGED <<op, callbackVars, executed, ready, event, eLock, qLock, depth, running,
                       held, left, need>>
    BY <1>7 DEF WaitQueuesReturns
  <2>2. promised' \subseteq Ids
    BY TypeFacts, <1>t, <2>1
  <2> QED
    BY TypeFacts, ThreadTyped, IdleTyped, <2>1, <2>2, SameOpType DEF callbackVars
<1>8. CASE DropReturns(t)
  <2>1. /\ thread' = [thread EXCEPT ![t] = Idle]
        /\ UNCHANGED <<op, callbackVars, executed, ready, event, eLock, qLock, depth, running,
                       held, left, historyVars>>
    BY <1>8 DEF DropReturns
  <2> QED
    BY TypeFacts, ThreadTyped, IdleTyped, <2>1, SameOpType DEF callbackVars, historyVars
<1> QED
  BY <1>1, <1>2, <1>3, <1>4, <1>5, <1>6, <1>7, <1>8

\* A wait visits one of its queues.
LEMMA VisitType ==
    ASSUME TypeInv, LockInv, NEW t \in Thread, NEW q \in Queue, UNCHANGED program,
           SkipQueue(t, q) \/ (SubmitMarker(t, q) /\ q \in Blocking)
    PROVE  TypeInv'
<1> USE ThreadStates
<1>t. thread[t] \in ThreadType /\ thread[t].goal \subseteq Ids
  BY TypeFacts
<1>1. CASE SkipQueue(t, q)
  <2> DEFINE y == [thread[t] EXCEPT !.rest = @ \ {q}]
  <2>1. /\ thread' = [thread EXCEPT ![t] = y]
        /\ UNCHANGED <<op, callbackVars, executed, ready, event, eLock, qLock, depth, running,
                       held, left, historyVars>>
    BY <1>1 DEF SkipQueue
  <2>2. Typed(y)
    BY <1>t DEF Typed, ThreadType
  <2> HIDE DEF y
  <2> QED
    BY TypeFacts, ThreadTyped, <2>1, <2>2, SameOpType DEF callbackVars, historyVars
<1>2. CASE SubmitMarker(t, q) /\ q \in Blocking
  <2> DEFINE y == [thread[t] EXCEPT !.at = "marker", !.q = q, !.rest = @ \ {q}, !.future = 0]
  <2>1. /\ thread' = [thread EXCEPT ![t] = y]
        /\ UNCHANGED <<op, tasks, need>>
        /\ UNCHANGED <<worker, current, executed, ready, event, eLock, qLock, depth, running,
                       held, left, promised>>
    BY <1>2 DEF SubmitMarker
  <2>2. Typed(y)
    BY <1>t DEF Typed, ThreadType, Places
  <2> HIDE DEF y
  <2> QED
    BY TypeFacts, ThreadTyped, <2>1, <2>2, SameOpType
<1> QED
  BY <1>1, <1>2

\* Steps of the callback threads that post nothing.
LEMMA WorkerType ==
    ASSUME TypeInv, WorkerInv, NEW q \in Queue, UNCHANGED program,
           WorkerRun(q) \/ WorkerRunEvent(q) \/ WorkerPop(q) \/ WorkerSet(q)
    PROVE  TypeInv'
<1>0. /\ tasks \in [Queue -> Seq(Nat)] /\ worker \in [Queue -> {"idle", "pop", "destroy", "set"}]
      /\ current \in [Queue -> Nat] /\ executed \subseteq Ids /\ ready \subseteq executed
      /\ event \in [Event -> [count : Nat, last : Nat, future : Nat, covers : SUBSET Nat]]
      /\ \A x \in Event : event[x].covers \subseteq Ids
      /\ eLock \in [Event -> Thread \cup {None}] /\ qLock \in [Queue -> Thread \cup {None}]
      /\ depth \in [Queue -> Nat] /\ running \in [Queue -> Seq(Nat)] /\ held \subseteq Queue
      /\ need \in [Queue -> SUBSET Ids] /\ promised \subseteq Ids
      /\ left \in [Thread -> Nat] /\ thread \in [Thread -> ThreadType]
      /\ \A u \in Thread : thread[u].goal \subseteq Ids
  BY DEF TypeInv, TypeOK
<1>ids. Ids \subseteq Nat
  BY DEF Ids
<1>front. tasks[q] # <<>> => Head(tasks[q]) = tasks[q][1] /\ Head(tasks[q]) \in Ids
                             /\ Tail(tasks[q]) \in Seq(Nat)
  <2>1. tasks[q] \in Seq(Nat)
    BY <1>0
  <2>2. tasks[q] # <<>> => /\ Head(tasks[q]) = tasks[q][1] /\ 1 \in 1..Len(tasks[q])
                           /\ Tail(tasks[q]) \in Seq(Nat)
    BY <2>1, TailElements
  <2> QED
    BY <2>2 DEF WorkerInv
<1>1. CASE WorkerRun(q)
  <2>1. /\ tasks[q] # <<>>
        /\ executed' = executed \cup {Head(tasks[q])}
        /\ current' = [current EXCEPT ![q] = Head(tasks[q])]
        /\ worker' = [worker EXCEPT ![q] = "pop"]
        /\ UNCHANGED <<op, tasks, ready, event, eLock, qLock, depth, running, thread, held, left,
                       historyVars>>
    BY <1>1 DEF WorkerRun
  <2>2. /\ current' \in [Queue -> Nat]
        /\ worker' \in [Queue -> {"idle", "pop", "destroy", "set"}]
    BY <1>0, <1>ids, <1>front, <2>1
  <2>3. executed' \subseteq Ids /\ ready' \subseteq executed'
    BY <1>0, <1>front, <2>1
  <2> QED
    BY <1>0, <2>1, <2>2, <2>3, SameOpType DEF historyVars
<1>2. CASE WorkerRunEvent(q)
  <2> DEFINE i == Head(tasks[q])
             e == op[i].e
  <2>1. /\ tasks[q] # <<>>
        /\ op[i].kind = "event"
        /\ event' = SignalledEvent(op[i].e, op[i].number)
        /\ executed' = executed \cup {i}
        /\ current' = [current EXCEPT ![q] = i]
        /\ worker' = [worker EXCEPT ![q] = "pop"]
        /\ UNCHANGED <<op, tasks, ready, eLock, qLock, depth, running, thread, held, left,
                       historyVars>>
    BY <1>2 DEF WorkerRunEvent
  <2>2. i \in Ids /\ e \in Event
    BY <1>front, <2>1 DEF TypeInv
  <2>3. op[i].number \in Nat
    <3>1. op \in Seq(OpType)
      BY DEF TypeInv, TypeOK, OpType, Kinds
    <3>2. op[i] \in OpType
      BY <2>2, <3>1 DEF Ids
    <3> QED
      BY <3>2 DEF OpType
  <2> HIDE DEF i, e
  <2>4. /\ event' \in [Event -> [count : Nat, last : Nat, future : Nat, covers : SUBSET Nat]]
        /\ \A x \in Event : event'[x].covers = event[x].covers
    <3> DEFINE y == [event[e] EXCEPT !.last = op[i].number]
    <3>1. /\ y \in [count : Nat, last : Nat, future : Nat, covers : SUBSET Nat]
          /\ y.covers = event[e].covers
      <4>1. event[e] \in [count : Nat, last : Nat, future : Nat, covers : SUBSET Nat]
        BY <1>0, <2>2
      <4> QED
        BY <2>3, <4>1
    <3>2. event' = [event EXCEPT ![e] = y] \/ event' = event
      <4>1. event' = IF op[i].number = event[e].count
                     THEN [event EXCEPT ![e].last = op[i].number] ELSE event
        BY <2>1 DEF SignalledEvent, e
      <4>2. [event EXCEPT ![e].last = op[i].number] = [event EXCEPT ![e] = y]
        OBVIOUS
      <4> HIDE DEF y
      <4>3. CASE op[i].number = event[e].count
        BY <4>1, <4>2, <4>3
      <4> QED
        BY <4>1, <4>3
    <3> HIDE DEF y
    <3>3. CASE event' = [event EXCEPT ![e] = y]
      BY <1>0, <3>1, <3>3
    <3>4. CASE event' = event
      BY <1>0, <3>4
    <3> QED
      BY <3>2, <3>3, <3>4
  <2>5. /\ current' \in [Queue -> Nat]
        /\ worker' \in [Queue -> {"idle", "pop", "destroy", "set"}]
    BY <1>0, <1>ids, <2>1, <2>2
  <2>6. executed' \subseteq Ids /\ ready' \subseteq executed'
    BY <1>0, <2>1, <2>2
  <2> QED
    BY <1>0, <2>1, <2>4, <2>5, <2>6, SameOpType DEF historyVars
<1>3. CASE WorkerPop(q)
  <2>1. /\ tasks[q] # <<>>
        /\ tasks' = [tasks EXCEPT ![q] = Tail(tasks[q])]
        /\ \/ worker' = [worker EXCEPT ![q] = "destroy"]
           \/ worker' = [worker EXCEPT ![q] = "set"]
        /\ UNCHANGED <<op, current, executed, ready, event, eLock, qLock, depth, running, thread,
                       held, left, historyVars>>
    BY <1>3 DEF WorkerPop, WorkerInv
  <2>2. /\ tasks' \in [Queue -> Seq(Nat)]
        /\ worker' \in [Queue -> {"idle", "pop", "destroy", "set"}]
    BY <1>0, <1>front, <2>1
  <2> QED
    BY <1>0, <2>1, <2>2, SameOpType DEF historyVars
<1>4. CASE WorkerSet(q)
  <2>1. /\ current[q] \in executed
        /\ ready' = ready \cup {current[q]}
        /\ current' = [current EXCEPT ![q] = 0]
        /\ worker' = [worker EXCEPT ![q] = "idle"]
        /\ UNCHANGED <<op, tasks, executed, event, eLock, qLock, depth, running, thread, held,
                       left, historyVars>>
    BY <1>4 DEF WorkerSet, WorkerInv
  <2>2. /\ current' \in [Queue -> Nat]
        /\ worker' \in [Queue -> {"idle", "pop", "destroy", "set"}]
        /\ ready' \subseteq executed
    BY <1>0, <2>1
  <2> QED
    BY <1>0, <2>1, <2>2, SameOpType DEF historyVars
<1> QED
  BY <1>1, <1>2, <1>3, <1>4
-----------------------------------------------------------------------------
(* Operations and their execution are never taken back.                    *)

\* No operation is taken back, whatever the step.
LEMMA StepGrows ==
    ASSUME TypeInv, WorkerInv, Next,
           \A t \in Thread : thread[t].at = "futureCopied" => thread[t].q \in Queue,
           \A t \in Thread : thread[t].at = "running" => thread[t].q \in Queue
    PROVE  Grows
<1> USE ThreadStates
<1>0. {} \in SUBSET Ids /\ None \in Event \cup Queue \cup {None} /\ 0 \in Nat
      /\ {"task", "keep", "event", "waitFor", "marker"} \subseteq Kinds
  BY DEF Kinds
<1>1. ASSUME UNCHANGED op, executed \subseteq executed' PROVE Grows
  <2>1. Ids' = Ids /\ Len(op) \in Nat
    BY <1>1 DEF Ids, TypeInv, TypeOK
  <2> QED
    BY <1>1, <2>1 DEF Grows
<1>2. ASSUME NEW kind \in Kinds, NEW q \in Queue, NEW e \in Event \cup Queue \cup {None},
             NEW number \in Nat, NEW after \in SUBSET Ids, Post(kind, q, e, number, after),
             UNCHANGED executed
      PROVE  Grows
  <2>1. Posted(kind, q, e, number, after)
    BY <1>2, PostEffect
  <2> QED
    BY <1>2, <2>1 DEF Posted, Grows
<1>3. ASSUME NEW t \in Thread, NEW q \in Queue, StartBlocking(t, q), UNCHANGED executed
      PROVE  Grows
  <2>1. Started(q)
    BY <1>3, StartEffect
  <2> QED
    BY <1>3, <2>1 DEF Started, Grows
<1>4. ASSUME NEW t \in Thread, Call(t) PROVE Grows
  <2>1. ASSUME NEW q \in Queue, SubmitAsync(t, q) PROVE Grows
    BY <1>0, <1>2, <2>1 DEF SubmitAsync
  <2>2. ASSUME NEW q \in Queue, SubmitBlocking(t, q) PROVE Grows
    BY <1>3, <2>2 DEF SubmitBlocking
  <2>3. ASSUME NEW q \in Queue, NEW to \in Queue \cup {None}, NEW call,
               NEW kind \in {"task", "keep"}, Deferred(t, q, to, call, kind)
        PROVE  Grows
    BY <1>0, <1>2, <2>3 DEF Deferred
  <2>4. ASSUME NEW q \in Queue, NEW e \in Event, EnqueueEventAsync(t, q, e) PROVE Grows
    <3>1. event[e].count + 1 \in Nat
      BY DEF TypeInv, TypeOK
    <3> QED
      BY <1>0, <1>2, <2>4, <3>1 DEF EnqueueEventAsync
  <2>5. ASSUME SubmitNested(t) PROVE Grows
    BY <1>3, <2>5 DEF SubmitNested
  <2>6. ASSUME NEW q \in Queue, NEW e \in Event,
               \/ WaitQueue(t, q) \/ DropQueue(t, q) \/ EnqueueEventLock(t, q, e)
               \/ WaitForReady(t, q, e) \/ WaitForAsync(t, q, e) \/ WaitForLock(t, q, e)
               \/ IsComplete(t, e) \/ WaitEvent(t, e) \/ WaitDevice(t)
        PROVE  UNCHANGED <<op, executed>>
    BY <2>6 DEF WaitQueue, DropQueue, EnqueueEventLock, WaitForReady, WaitForAsync, WaitForLock,
                IsComplete, WaitEvent, WaitDevice
  <2>7. ASSUME NEW q \in Queue, WaitQueue(t, q) \/ DropQueue(t, q)
        PROVE  UNCHANGED <<op, executed>>
    BY <2>7 DEF WaitQueue, DropQueue
  <2>8. ASSUME NEW e \in Event, IsComplete(t, e) \/ WaitEvent(t, e)
        PROVE  UNCHANGED <<op, executed>>
    BY <2>8 DEF IsComplete, WaitEvent
  <2>9. ASSUME WaitDevice(t) PROVE UNCHANGED <<op, executed>>
    BY <2>9 DEF WaitDevice
  <2> QED
    BY <1>1, <1>4, <2>1, <2>2, <2>3, <2>4, <2>5, <2>6, <2>7, <2>8, <2>9
       DEF Call, EnqueueDeferred, KeepAlive
<1>5. ASSUME NEW t \in Thread, Proceed(t) PROVE Grows
  <2>1. ASSUME FinishBlocking(t) PROVE Grows
    BY <1>1, <2>1 DEF FinishBlocking
  <2>2. ASSUME WaitForSubmit(t) PROVE Grows
    <3>1. thread[t].e \in Event \cup Queue \cup {None} /\ thread[t].future \in Nat
          /\ thread[t].goal \in SUBSET Ids
      BY DEF TypeInv
    <3> QED
      BY <1>0, <1>2, <2>2, <3>1 DEF WaitForSubmit
  <2>3. ASSUME NEW q \in Queue, SubmitMarker(t, q) PROVE Grows
    BY <1>0, <1>1, <1>2, <2>3 DEF SubmitMarker
  <2>4. ASSUME \/ EnqueueEventBlocking(t) \/ WaitForBlocking(t) \/ WaitForReturns(t)
               \/ WaitEventLoop(t) \/ (\E q \in Queue : SkipQueue(t, q)) \/ MarkerReturns(t)
               \/ WaitQueuesReturns(t) \/ DropReturns(t)
        PROVE  UNCHANGED <<op, executed>>
    BY <2>4 DEF EnqueueEventBlocking, WaitForBlocking, WaitForReturns, WaitEventLoop, SkipQueue,
                MarkerReturns, WaitQueuesReturns, DropReturns
  <2> QED
    BY <1>1, <1>5, <2>1, <2>2, <2>3, <2>4 DEF Proceed
<1>6. ASSUME NEW q \in Queue, Work(q) PROVE Grows
  <2>1. ASSUME WorkerRun(q) \/ WorkerRunEvent(q) \/ WorkerPop(q) \/ WorkerSet(q) PROVE Grows
    BY <1>1, <2>1 DEF WorkerRun, WorkerRunEvent, WorkerPop, WorkerSet
  <2>2. ASSUME WorkerFreeAsync(q) PROVE Grows
    <3>1. /\ worker[q] = "destroy"
          /\ Post("task", op[current[q]].e, None, 0, op[current[q]].before)
          /\ UNCHANGED executed
      BY <2>2 DEF WorkerFreeAsync
    <3>2. op[current[q]].e \in Queue /\ op[current[q]].before \in SUBSET Ids
      BY <3>1 DEF WorkerInv, TypeInv, TypeOK
    <3> QED
      BY <1>0, <1>2, <3>1, <3>2
  <2>3. ASSUME WorkerFreeBlocking(q) PROVE Grows
    <3>1. FreedAtOnce(q, op[current[q]])
      BY <2>3, FreeBlockingEffect
    <3> QED
      BY <3>1 DEF FreedAtOnce, Grows
  <2> QED
    BY <1>6, <2>1, <2>2, <2>3 DEF Work
<1>7. ASSUME Quiet PROVE Grows
  BY <1>1, <1>7 DEF Quiet, vars
<1> QED
  BY <1>4, <1>5, <1>6, <1>7 DEF Next
-----------------------------------------------------------------------------
(* The locks.                                                              *)

\* The places in which a thread owns a mutex.
Locking == {"running", "waitForFuture", "eventLocked", "waitForLocked"}

\* Steps that take and release no mutex.
LEMMA LockQuiet ==
    ASSUME LockInv, Ids \subseteq Ids', UNCHANGED <<eLock, qLock, depth, running>>,
           \A t \in Thread : thread'[t] = thread[t] \/ thread'[t].at \notin Locking
    PROVE  LockInv'
  BY DEF LockInv, Locking

\* Calls that take no mutex, or one within the step.
LEMMA CallLocks ==
    ASSUME TypeInv, LockInv, Ids \subseteq Ids', NEW t \in Thread, NEW q, NEW to, NEW e,
           \/ SubmitAsync(t, q) \/ EnqueueDeferred(t, q) \/ WaitQueue(t, q) \/ DropQueue(t, q)
           \/ KeepAlive(t, q, to) \/ EnqueueEventAsync(t, q, e) \/ WaitForReady(t, q, e)
           \/ WaitForAsync(t, q, e) \/ IsComplete(t, e) \/ WaitEvent(t, e) \/ WaitDevice(t)
    PROVE  LockInv'
<1>1. UNCHANGED <<eLock, qLock, depth, running>>
  BY DEF SubmitAsync, EnqueueDeferred, Deferred, WaitQueue, DropQueue, KeepAlive,
         EnqueueEventAsync, WaitForReady, WaitForAsync, IsComplete, WaitEvent, WaitDevice
<1>2. \E state : Called(t, state) /\ state.at \notin Locking
  <2>1. SubmitAsync(t, q) \/ EnqueueDeferred(t, q) \/ KeepAlive(t, q, to)
        \/ EnqueueEventAsync(t, q, e) \/ WaitForReady(t, q, e) \/ IsComplete(t, e)
        => Called(t, Idle)
    BY DEF SubmitAsync, EnqueueDeferred, Deferred, KeepAlive, EnqueueEventAsync, WaitForReady,
           IsComplete
  <2>2. Idle.at \notin Locking
    BY DEF Idle, Locking
  <2>3. CASE WaitQueue(t, q)
    <3> DEFINE y == [Idle EXCEPT !.at = "waitQueues", !.q = q, !.rest = {q}, !.goal = need[q]]
    <3>1. Called(t, y)
      BY <2>3 DEF WaitQueue
    <3>2. y.at \notin Locking
      BY DEF Idle, Locking
    <3> QED
      BY <3>1, <3>2
  <2>4. CASE WaitDevice(t)
    <3> DEFINE y == [Idle EXCEPT !.at = "waitQueues", !.rest = Queue,
                                 !.goal = UNION {need[p] : p \in Queue}]
    <3>1. Called(t, y)
      BY <2>4 DEF WaitDevice
    <3>2. y.at \notin Locking
      BY DEF Idle, Locking
    <3> QED
      BY <3>1, <3>2
  <2>5. CASE DropQueue(t, q)
    <3> DEFINE y == [Idle EXCEPT !.at = "join", !.q = q]
    <3>1. Called(t, y)
      BY <2>5 DEF DropQueue
    <3>2. y.at \notin Locking
      BY DEF Idle, Locking
    <3> QED
      BY <3>1, <3>2
  <2>6. CASE WaitForAsync(t, q, e)
    <3> DEFINE y == [Idle EXCEPT !.at = "futureCopied", !.q = q, !.e = e,
                                 !.future = event[e].future, !.goal = event[e].covers]
    <3>1. Called(t, y)
      BY <2>6 DEF WaitForAsync
    <3>2. y.at \notin Locking
      BY DEF Idle, Locking
    <3> QED
      BY <3>1, <3>2
  <2>7. CASE WaitEvent(t, e)
    <3> DEFINE y == [Idle EXCEPT !.at = "waitEvent", !.e = e, !.future = event[e].future,
                                 !.count = event[e].count, !.goal = event[e].covers]
    <3>1. Called(t, y) \/ Called(t, Idle)
      BY <2>7 DEF WaitEvent
    <3>2. y.at \notin Locking
      BY DEF Idle, Locking
    <3> QED
      BY <2>2, <3>1, <3>2
  <2> QED
    BY <2>1, <2>2, <2>3, <2>4, <2>5, <2>6, <2>7
<1>3. \A u \in Thread : thread'[u] = thread[u] \/ thread'[u].at \notin Locking
  BY <1>2 DEF Called, TypeInv
<1> QED
  BY <1>1, <1>3, LockQuiet

\* Steps inside a call that take no mutex.
LEMMA ProceedLocks ==
    ASSUME TypeInv, LockInv, Ids \subseteq Ids', NEW t \in Thread, NEW q \in Queue \cup {None},
           \/ WaitForSubmit(t) \/ WaitEventLoop(t) \/ SkipQueue(t, q) \/ SubmitMarker(t, q)
           \/ MarkerReturns(t) \/ WaitQueuesReturns(t) \/ DropReturns(t)
    PROVE  LockInv'
<1>1. UNCHANGED <<eLock, qLock, depth, running>>
  BY DEF WaitForSubmit, WaitEventLoop, SkipQueue, SubmitMarker, MarkerReturns,
         WaitQueuesReturns, DropReturns
<1>2. thread \in [Thread -> ThreadType] /\ Idle.at \notin Locking
  BY DEF TypeInv, Idle, Locking
<1>3. CASE WaitForSubmit(t) \/ WaitQueuesReturns(t) \/ DropReturns(t)
  <2>1. thread' = [thread EXCEPT ![t] = Idle]
    BY <1>3 DEF WaitForSubmit, WaitQueuesReturns, DropReturns
  <2>2. \A u \in Thread : thread'[u] = thread[u] \/ thread'[u].at \notin Locking
    BY <1>2, <2>1
  <2> QED
    BY <1>1, <2>2, LockQuiet
<1>4. ASSUME thread[t].at \in {"waitEvent", "waitQueues", "marker"},
             NEW y \in ThreadType, y.at \notin Locking,
             \/ thread' = [thread EXCEPT ![t] = y]
             \/ thread' = [thread EXCEPT ![t] = Idle]
      PROVE  LockInv'
  <2>1. \A u \in Thread : thread'[u] = thread[u] \/ thread'[u].at \notin Locking
    BY <1>2, <1>4
  <2> QED
    BY <1>1, <2>1, LockQuiet
<1>t. thread[t] \in ThreadType
  BY <1>2
<1>5. CASE WaitEventLoop(t)
  <2> DEFINE f == event[thread[t].e].future
  <2>1. /\ thread[t].at = "waitEvent"
        /\ \/ thread' = [thread EXCEPT ![t].future = f]
           \/ thread' = [thread EXCEPT ![t] = Idle]
    BY <1>5 DEF WaitEventLoop
  <2> HIDE DEF f
  <2>2. \A u \in Thread : thread'[u] = thread[u] \/ thread'[u].at \notin Locking
    BY <1>2, <1>t, <2>1 DEF Locking, ThreadType
  <2> QED
    BY <1>1, <2>2, LockQuiet
<1>6. CASE SkipQueue(t, q)
  <2> DEFINE y == [thread[t] EXCEPT !.rest = @ \ {q}]
  <2>1. thread[t].at = "waitQueues" /\ thread' = [thread EXCEPT ![t] = y]
    BY <1>6 DEF SkipQueue
  <2>2. y \in ThreadType /\ y.at \notin Locking
    BY <1>t, <2>1 DEF ThreadType, Locking
  <2> HIDE DEF y
  <2> QED
    BY <1>4, <2>1, <2>2
<1>7. CASE SubmitMarker(t, q)
  <2> DEFINE f == IF q \in Blocking THEN 0 ELSE NewId
             y == [thread[t] EXCEPT !.at = "marker", !.q = q, !.rest = @ \ {q}, !.future = f]
  <2>1. thread[t].at = "waitQueues" /\ thread' = [thread EXCEPT ![t] = y]
    BY <1>7 DEF SubmitMarker
  <2>2. f \in Nat
    BY DEF TypeInv, TypeOK, NewId
  <2> HIDE DEF f
  <2>3. y \in ThreadType /\ y.at \notin Locking
    BY <1>t, <2>2 DEF ThreadType, Places, Locking
  <2> HIDE DEF y
  <2> QED
    BY <1>4, <2>1, <2>3
<1>8. CASE MarkerReturns(t)
  <2> DEFINE y == [thread[t] EXCEPT !.at = "waitQueues", !.q = None, !.future = 0]
  <2>1. thread[t].at = "marker" /\ thread' = [thread EXCEPT ![t] = y]
    BY <1>8 DEF MarkerReturns
  <2>2. y \in ThreadType /\ y.at \notin Locking
    BY <1>t DEF ThreadType, Places, Locking
  <2> HIDE DEF y
  <2> QED
    BY <1>4, <2>1, <2>2
<1> QED
  BY <1>3, <1>5, <1>6, <1>7, <1>8

\* Operations that run in the caller take the queue's mutex.
LEMMA StartLocks ==
    ASSUME TypeInv, LockInv, NEW t \in Thread, NEW q \in Queue,
           SubmitBlocking(t, q) \/ (SubmitNested(t) /\ thread[t].q = q)
    PROVE  LockInv'
<1>0. /\ qLock \in [Queue -> Thread \cup {None}] /\ depth \in [Queue -> Nat]
      /\ thread \in [Thread -> ThreadType] /\ running \in [Queue -> Seq(Nat)]
  BY DEF TypeInv, TypeOK
<1>1. /\ StartBlocking(t, q)
      /\ UNCHANGED eLock
  BY DEF SubmitBlocking, SubmitNested
<1>2. Started(q)
  BY <1>1, StartEffect
<1>3. /\ qLock[q] \in {None, t}
      /\ qLock' = [qLock EXCEPT ![q] = t]
      /\ depth' = [depth EXCEPT ![q] = depth[q] + 1]
  BY <1>1 DEF StartBlocking
<1>4. /\ qLock'[q] = t /\ depth'[q] = depth[q] + 1
      /\ \A p \in Queue \ {q} : qLock'[p] = qLock[p] /\ depth'[p] = depth[p]
  BY <1>0, <1>3
<1>5. /\ Ids \subseteq Ids'
      /\ running'[q] # <<>>
      /\ Len(running'[q]) = Len(running[q]) + 1
      /\ \A m \in 1..Len(running[q]) : running'[q][m] = running[q][m]
      /\ running'[q][Len(running[q]) + 1] \in Ids'
      /\ 1..Len(running'[q]) = 1..Len(running[q]) \cup {Len(running[q]) + 1}
      /\ \A p \in Queue \ {q} : running'[p] = running[p]
  <2>1. /\ Ids' = Ids \cup {NewId} /\ running' \in [Queue -> Seq(Nat)]
        /\ Len(running[q]) \in Nat
        /\ Len(running'[q]) = Len(running[q]) + 1
        /\ running'[q][Len(running[q]) + 1] = NewId
        /\ \A m \in 1..Len(running[q]) : running'[q][m] = running[q][m]
        /\ 1..Len(running'[q]) = 1..Len(running[q]) \cup {Len(running[q]) + 1}
        /\ \A p \in Queue \ {q} : running'[p] = running[p]
    BY <1>2 DEF Started
  <2>2. running'[q] # <<>>
    BY <2>1
  <2> QED
    BY <2>1, <2>2
<1>6. /\ q \in Blocking
      /\ thread'[t].at = "running" /\ thread'[t].q = q
      /\ \A u \in Thread \ {t} : thread'[u] = thread[u]
  <2>1. CASE SubmitBlocking(t, q)
    <3> DEFINE y == [Idle EXCEPT !.at = "running", !.q = q]
    <3>1. thread' = [thread EXCEPT ![t] = y] /\ q \in Blocking
      BY <2>1 DEF SubmitBlocking, Called
    <3>2. y.at = "running" /\ y.q = q
      BY DEF Idle
    <3> HIDE DEF y
    <3> QED
      BY <1>0, <3>1, <3>2
  <2>2. CASE SubmitNested(t) /\ thread[t].q = q
    BY <2>2 DEF SubmitNested, LockInv
  <2> QED
    BY <2>1, <2>2
<1>7. ASSUME NEW u \in Thread \ {t}, thread[u].at \in {"running", "waitForFuture"}
      PROVE  thread[u].q \in Queue \ {q}
  <2>1. thread[u].q \in Queue /\ qLock[thread[u].q] = u
    BY <1>7, HostQueueAssumption DEF LockInv
  <2>2. u # None
    BY HostQueueAssumption
  <2> QED
    BY <1>3, <2>1, <2>2
<1>8. \A u \in Thread :
          /\ thread'[u].at \in {"running", "waitForFuture"} =>
                thread'[u].q \in Blocking /\ qLock'[thread'[u].q] = u
          /\ thread'[u].at = "running" => running'[thread'[u].q] # <<>>
          /\ thread'[u].at = "waitForFuture" => running'[thread'[u].q] = <<>>
          /\ thread'[u].at \in {"eventLocked", "waitForLocked"} =>
                /\ thread'[u].q \in Blocking /\ thread'[u].e \in Event
                /\ eLock'[thread'[u].e] = u
  <2>1. ASSUME NEW u \in Thread \ {t}
        PROVE  /\ thread[u].at \in {"running", "waitForFuture"} =>
                     thread[u].q \in Blocking /\ qLock'[thread[u].q] = u
               /\ thread[u].at = "running" => running'[thread[u].q] # <<>>
               /\ thread[u].at = "waitForFuture" => running'[thread[u].q] = <<>>
               /\ thread[u].at \in {"eventLocked", "waitForLocked"} =>
                     /\ thread[u].q \in Blocking /\ thread[u].e \in Event
                     /\ eLock'[thread[u].e] = u
    BY <1>1, <1>4, <1>5, <1>7 DEF LockInv
  <2> QED
    BY <1>4, <1>5, <1>6, <2>1
<1>9. \A p \in Queue :
          /\ qLock'[p] = None => running'[p] = <<>>
          /\ depth'[p] = Len(running'[p])
          /\ \A m \in 1..Len(running'[p]) : running'[p][m] \in Ids'
  <2>1. t # None
    BY HostQueueAssumption
  <2>2. CASE TRUE
    BY <1>4, <1>5, <2>1 DEF LockInv
  <2> QED
    BY <2>2
<1> QED
  BY <1>8, <1>9 DEF LockInv

\* An operation that ran in the caller ends; the last one releases the mutex.
LEMMA FinishLocks ==
    ASSUME TypeInv, LockInv, NEW t \in Thread, FinishBlocking(t)
    PROVE  LockInv'
<1> DEFINE q == thread[t].q
           n == Len(running[q])
<1>0. /\ qLock \in [Queue -> Thread \cup {None}] /\ depth \in [Queue -> Nat]
      /\ thread \in [Thread -> ThreadType] /\ running \in [Queue -> Seq(Nat)]
  BY DEF TypeInv, TypeOK
<1>1. /\ thread[t].at = "running"
      /\ q \in Blocking /\ q \in Queue /\ qLock[q] = t /\ running[q] # <<>> /\ depth[q] = n
      /\ \A m \in 1..n : running[q][m] \in Ids
  BY HostQueueAssumption DEF FinishBlocking, LockInv
<1> DEFINE f == SubSeq(running[q], 1, n - 1)
<1>2. /\ running' = [running EXCEPT ![q] = f]
      /\ depth' = [depth EXCEPT ![q] = depth[q] - 1]
      /\ qLock' = IF n = 1 THEN [qLock EXCEPT ![q] = None] ELSE qLock
      /\ thread' = IF n = 1 THEN [thread EXCEPT ![t] = Idle] ELSE thread
      /\ UNCHANGED <<op, eLock>>
  BY DEF FinishBlocking, FinishDepth
<1>3. /\ n \in Nat \ {0} /\ Len(f) = n - 1
      /\ \A m \in 1..n - 1 : f[m] = running[q][m]
      /\ n = 1 => f = <<>>
      /\ n # 1 => f # <<>>
  BY <1>0, <1>1, FrontElements
<1> HIDE DEF f, n
<1>4. /\ running'[q] = f /\ depth'[q] = depth[q] - 1
      /\ \A p \in Queue \ {q} : running'[p] = running[p] /\ depth'[p] = depth[p]
                                /\ qLock'[p] = qLock[p]
      /\ n = 1 => qLock'[q] = None /\ thread'[t] = Idle
      /\ n # 1 => qLock'[q] = t /\ thread'[t] = thread[t]
      /\ \A u \in Thread \ {t} : thread'[u] = thread[u]
  BY <1>0, <1>1, <1>2
<1>5. Ids' = Ids
  BY <1>2 DEF Ids
<1>6. ASSUME NEW u \in Thread \ {t}, thread[u].at \in {"running", "waitForFuture"}
      PROVE  thread[u].q \in Queue \ {q}
  BY <1>1, <1>6, HostQueueAssumption DEF LockInv
<1>7. ASSUME NEW u \in Thread
      PROVE  /\ thread'[u].at \in {"running", "waitForFuture"} =>
                   thread'[u].q \in Blocking /\ qLock'[thread'[u].q] = u
             /\ thread'[u].at = "running" => running'[thread'[u].q] # <<>>
             /\ thread'[u].at = "waitForFuture" => running'[thread'[u].q] = <<>>
             /\ thread'[u].at \in {"eventLocked", "waitForLocked"} =>
                   /\ thread'[u].q \in Blocking /\ thread'[u].e \in Event
                   /\ eLock'[thread'[u].e] = u
  <2>1. CASE u = t
    <3>1. Idle.at = "idle"
      BY DEF Idle
    <3> QED
      BY <1>1, <1>3, <1>4, <2>1, <3>1
  <2>2. CASE u # t
    BY <1>2, <1>4, <1>6, <2>2 DEF LockInv
  <2> QED
    BY <2>1, <2>2
<1>8. ASSUME NEW p \in Queue
      PROVE  /\ qLock'[p] = None => running'[p] = <<>>
             /\ depth'[p] = Len(running'[p])
             /\ \A m \in 1..Len(running'[p]) : running'[p][m] \in Ids'
  <2>1. CASE p = q
    <3>1. t # None
      BY HostQueueAssumption
    <3>2. qLock'[p] = None => running'[p] = <<>>
      BY <1>3, <1>4, <2>1, <3>1
    <3>3. depth'[p] = Len(running'[p])
      BY <1>1, <1>3, <1>4, <2>1
    <3>4. \A m \in 1..Len(f) : f[m] \in Ids
      BY <1>1, <1>3
    <3> QED
      BY <1>4, <1>5, <2>1, <3>2, <3>3, <3>4
  <2>2. CASE p # q
    BY <1>4, <1>5, <2>2 DEF LockInv
  <2> QED
    BY <2>1, <2>2
<1> QED
  BY <1>7, <1>8 DEF LockInv

\* Calls that wait for a mutex with the event's mutex held.
LEMMA MutexCalls ==
    ASSUME TypeInv, LockInv, NEW t \in Thread, NEW q, NEW e \in Event,
           EnqueueEventLock(t, q, e) \/ WaitForLock(t, q, e)
    PROVE  LockInv'
<1>0. /\ qLock \in [Queue -> Thread \cup {None}] /\ eLock \in [Event -> Thread \cup {None}]
      /\ thread \in [Thread -> ThreadType] /\ Idle.at = "idle" /\ t # None
  BY HostQueueAssumption DEF TypeInv, TypeOK, Idle
<1>1. UNCHANGED <<op, depth, running>> /\ Ids' = Ids
  BY DEF EnqueueEventLock, WaitForLock, Ids
<1> PICK place \in {"eventLocked", "waitForLocked"} :
        Called(t, [Idle EXCEPT !.at = place, !.q = q, !.e = e])
  BY DEF EnqueueEventLock, WaitForLock
<1> DEFINE y == [Idle EXCEPT !.at = place, !.q = q, !.e = e]
<1>2. /\ e \in Event /\ q \in Blocking /\ eLock[e] = None /\ eLock' = [eLock EXCEPT ![e] = t]
      /\ UNCHANGED qLock
  BY DEF EnqueueEventLock, WaitForLock
<1>3. thread' = [thread EXCEPT ![t] = y]
  BY DEF Called
<1>4. y.at = place /\ y.q = q /\ y.e = e
  BY DEF Idle
<1> HIDE DEF y
<1>5. ASSUME NEW u \in Thread
      PROVE  /\ thread'[u].at \in {"running", "waitForFuture"} =>
                   thread'[u].q \in Blocking /\ qLock'[thread'[u].q] = u
             /\ thread'[u].at = "running" => running'[thread'[u].q] # <<>>
             /\ thread'[u].at = "waitForFuture" => running'[thread'[u].q] = <<>>
             /\ thread'[u].at \in {"eventLocked", "waitForLocked"} =>
                   /\ thread'[u].q \in Blocking /\ thread'[u].e \in Event
                   /\ eLock'[thread'[u].e] = u
  <2>1. CASE u = t
    BY <1>0, <1>2, <1>3, <1>4, <2>1
  <2>2. CASE u # t
    <3>1. thread'[u] = thread[u]
      BY <1>0, <1>3, <2>2
    <3>2. thread[u].at \in {"eventLocked", "waitForLocked"} => thread[u].e # e
      BY <1>2, HostQueueAssumption DEF LockInv
    <3> QED
      BY <1>0, <1>1, <1>2, <3>1, <3>2 DEF LockInv
  <2> QED
    BY <2>1, <2>2
<1> QED
  BY <1>1, <1>2, <1>5 DEF LockInv

\* Steps that take or release a mutex and start no operation.
LEMMA MutexLocks ==
    ASSUME TypeInv, LockInv, NEW t \in Thread,
           EnqueueEventBlocking(t) \/ WaitForBlocking(t) \/ WaitForReturns(t)
    PROVE  LockInv'
<1>0. /\ qLock \in [Queue -> Thread \cup {None}] /\ eLock \in [Event -> Thread \cup {None}]
      /\ thread \in [Thread -> ThreadType] /\ Idle.at = "idle" /\ t # None
  BY HostQueueAssumption DEF TypeInv, TypeOK, Idle
<1>1. UNCHANGED <<op, depth, running>> /\ Ids' = Ids
  BY DEF EnqueueEventBlocking, WaitForBlocking, WaitForReturns, Ids
<1>2. CASE EnqueueEventBlocking(t)
  <2>1. /\ thread[t].at = "eventLocked"
        /\ eLock' = [eLock EXCEPT ![thread[t].e] = None]
        /\ thread' = [thread EXCEPT ![t] = Idle]
        /\ UNCHANGED qLock
    BY <1>2 DEF EnqueueEventBlocking
  <2>2. \A u \in Thread \ {t} : thread[u].at \in {"eventLocked", "waitForLocked"}
                                => thread[u].e # thread[t].e
    BY <2>1 DEF LockInv
  <2> QED
    BY <1>0, <1>1, <2>1, <2>2 DEF LockInv
<1>3. CASE WaitForBlocking(t)
  <2> DEFINE p == thread[t].q
             y == [thread[t] EXCEPT !.at = "waitForFuture",
                                    !.future = event[thread[t].e].future,
                                    !.goal = event[thread[t].e].covers]
  <2>1. /\ thread[t].at = "waitForLocked" /\ qLock[p] = None
        /\ qLock' = [qLock EXCEPT ![p] = t]
        /\ eLock' = [eLock EXCEPT ![thread[t].e] = None]
        /\ thread' = [thread EXCEPT ![t] = y]
    BY <1>3 DEF WaitForBlocking
  <2>2. y.at = "waitForFuture" /\ y.q = p
    BY <1>0 DEF ThreadType
  <2>3. p \in Blocking /\ p \in Queue /\ running[p] = <<>>
    BY <2>1, HostQueueAssumption DEF LockInv
  <2>4. \A u \in Thread \ {t} :
            /\ thread[u].at \in {"eventLocked", "waitForLocked"} => thread[u].e # thread[t].e
            /\ thread[u].at \in {"running", "waitForFuture"} => thread[u].q # p
    BY <2>1, HostQueueAssumption DEF LockInv
  <2> HIDE DEF y, p
  <2>5. ASSUME NEW u \in Thread
        PROVE  /\ thread'[u].at \in {"running", "waitForFuture"} =>
                     thread'[u].q \in Blocking /\ qLock'[thread'[u].q] = u
               /\ thread'[u].at = "running" => running'[thread'[u].q] # <<>>
               /\ thread'[u].at = "waitForFuture" => running'[thread'[u].q] = <<>>
               /\ thread'[u].at \in {"eventLocked", "waitForLocked"} =>
                     /\ thread'[u].q \in Blocking /\ thread'[u].e \in Event
                     /\ eLock'[thread'[u].e] = u
    <3>1. CASE u = t
      BY <1>0, <1>1, <2>1, <2>2, <2>3, <3>1
    <3>2. CASE u # t
      <4>1. thread'[u] = thread[u]
        BY <1>0, <2>1, <3>2
      <4>2. Blocking \subseteq Queue
        BY HostQueueAssumption
      <4> QED
        BY <1>0, <1>1, <2>1, <2>4, <3>2, <4>1, <4>2 DEF LockInv
    <3> QED
      BY <3>1, <3>2
  <2>6. \A r \in Queue : qLock'[r] = None => running[r] = <<>>
    BY <1>0, <2>1 DEF LockInv
  <2> QED
    BY <1>1, <2>5, <2>6 DEF LockInv
<1>4. CASE WaitForReturns(t)
  <2> DEFINE p == thread[t].q
  <2>1. /\ thread[t].at = "waitForFuture"
        /\ qLock' = [qLock EXCEPT ![p] = None]
        /\ thread' = [thread EXCEPT ![t] = Idle]
        /\ UNCHANGED eLock
    BY <1>4 DEF WaitForReturns
  <2>2. qLock[p] = t /\ running[p] = <<>>
    BY <2>1 DEF LockInv
  <2>3. \A u \in Thread \ {t} : thread[u].at \in {"running", "waitForFuture"} => thread[u].q # p
    BY <2>2 DEF LockInv
  <2> HIDE DEF p
  <2>4. \A u \in Thread : u # t => thread'[u] = thread[u]
    BY <1>0, <2>1
  <2>5. thread'[t].at = "idle"
    BY <1>0, <2>1
  <2>6. \A r \in Queue : /\ r # p => qLock'[r] = qLock[r]
                         /\ qLock'[r] = None => running[r] = <<>>
    BY <1>0, <2>1, <2>2 DEF LockInv
  <2>7. Blocking \subseteq Queue
    BY HostQueueAssumption
  <2> QED
    BY <1>1, <2>1, <2>3, <2>4, <2>5, <2>6, <2>7 DEF LockInv
<1> QED
  BY <1>2, <1>3, <1>4

\* A callback thread takes no mutex for longer than a step.
LEMMA WorkLocks ==
    ASSUME LockInv, Ids \subseteq Ids', NEW q \in Queue, Work(q)
    PROVE  LockInv'
<1>1. UNCHANGED <<eLock, qLock, depth, running, thread>>
  BY DEF Work, WorkerRun, WorkerRunEvent, WorkerPop, WorkerFreeAsync, WorkerFreeBlocking, WorkerSet
<1> QED
  BY <1>1, LockQuiet
-----------------------------------------------------------------------------
(* Every step keeps the types, the locks and what there is of operations.  *)

\* Every step keeps types and locks, and takes back no operation.
LEMMA StepTypes ==
    ASSUME TypeInv, LockInv, WorkerInv, EventInv, Next
    PROVE  TypeInv' /\ LockInv' /\ Grows
<1>1. /\ \A t \in Thread : thread[t].at = "futureCopied" => thread[t].q \in Queue
      /\ \A t \in Thread : thread[t].at = "running" => thread[t].q \in Queue
      /\ \A t \in Thread : thread[t].at = "waitEvent" => thread[t].e \in Event
  BY HostQueueAssumption DEF EventInv, LockInv
<1>2. Grows
  BY <1>1, StepGrows
<1>3. Ids \subseteq Ids'
  BY <1>2 DEF Grows
<1>4. ASSUME NEW t \in Thread, Call(t)
      PROVE  TypeInv' /\ LockInv'
  <2>0. UNCHANGED program
    BY <1>4 DEF Call
  <2>1. ASSUME NEW q \in Queue, SubmitAsync(t, q) \/ EnqueueDeferred(t, q) PROVE TypeInv' /\ LockInv'
    BY <1>3, <2>0, <2>1, PostCallsType, CallLocks
  <2>2. ASSUME NEW q \in Queue, SubmitBlocking(t, q) PROVE TypeInv' /\ LockInv'
    BY <2>0, <2>2, StartType, StartLocks
  <2>3. ASSUME NEW q \in Queue, WaitQueue(t, q) \/ DropQueue(t, q) PROVE TypeInv' /\ LockInv'
    BY <1>3, <2>0, <2>3, QueueCallsType, CallLocks
  <2>4. ASSUME NEW q \in Queue, NEW to \in Queue, KeepAlive(t, q, to) PROVE TypeInv' /\ LockInv'
    BY <1>3, <2>0, <2>4, PostCallsType, CallLocks
  <2>5. ASSUME NEW q \in Queue, NEW e \in Event, EnqueueEventAsync(t, q, e)
        PROVE  TypeInv' /\ LockInv'
    BY <1>3, <2>0, <2>5, PostCallsType, CallLocks
  <2>6. ASSUME NEW q \in Queue, NEW e \in Event, EnqueueEventLock(t, q, e) \/ WaitForLock(t, q, e)
        PROVE  TypeInv' /\ LockInv'
    BY <2>0, <2>6, EventCallsType, MutexCalls
  <2>7. ASSUME NEW q \in Queue, NEW e \in Event, WaitForReady(t, q, e) \/ WaitForAsync(t, q, e)
        PROVE  TypeInv' /\ LockInv'
    BY <1>3, <2>0, <2>7, EventCallsType, CallLocks
  <2>8. ASSUME NEW e \in Event, IsComplete(t, e) \/ WaitEvent(t, e) PROVE TypeInv' /\ LockInv'
    BY <1>3, <2>0, <2>8, EventWaitsType, CallLocks
  <2>9. ASSUME WaitDevice(t) PROVE TypeInv' /\ LockInv'
    BY <1>3, <2>0, <2>9, WaitDeviceType, CallLocks
  <2>10. ASSUME SubmitNested(t) PROVE TypeInv' /\ LockInv'
    <3>1. thread[t].at = "running" /\ thread[t].q \in Queue
      BY <1>1, <2>10 DEF SubmitNested
    <3> QED
      BY <2>0, <2>10, <3>1, StartType, StartLocks
  <2> QED
    BY <1>4, <2>1, <2>2, <2>3, <2>4, <2>5, <2>6, <2>7, <2>8, <2>9, <2>10 DEF Call
<1>5. ASSUME NEW t \in Thread, Proceed(t)
      PROVE  TypeInv' /\ LockInv'
  <2>0. UNCHANGED program
    BY <1>5 DEF Proceed
  <2>1. ASSUME FinishBlocking(t) PROVE TypeInv' /\ LockInv'
    BY <2>0, <2>1, ProceedType, FinishLocks
  <2>2. ASSUME EnqueueEventBlocking(t) \/ WaitForBlocking(t) \/ WaitForReturns(t)
        PROVE  TypeInv' /\ LockInv'
    <3>1. TypeInv'
      BY <2>0, <2>2, ProceedType
    <3>2. LockInv'
      BY <2>2, MutexLocks
    <3> QED
      BY <3>1, <3>2
  <2>3. ASSUME WaitForSubmit(t) PROVE TypeInv' /\ LockInv'
    <3>1. thread[t].at = "futureCopied"
      BY <2>3 DEF WaitForSubmit
    <3>2. TypeInv'
      <4>1. thread[t].q \in Queue
        BY <1>1, <3>1
      <4> QED
        BY <2>0, <2>3, <4>1, PostStepsType
    <3>3. LockInv'
      BY <1>3, <2>3, ProceedLocks
    <3> QED
      BY <3>2, <3>3
  <2>4. ASSUME WaitEventLoop(t) PROVE TypeInv' /\ LockInv'
    <3>1. thread[t].at = "waitEvent"
      BY <2>4 DEF WaitEventLoop
    <3> QED
      BY <1>1, <1>3, <2>0, <2>4, <3>1, ProceedType, ProceedLocks
  <2>5. ASSUME NEW q \in Queue, SkipQueue(t, q) \/ SubmitMarker(t, q) PROVE TypeInv' /\ LockInv'
    <3>1. LockInv'
      <4>1. q \in Queue \cup {None}
        OBVIOUS
      <4> QED
        BY <1>3, <2>5, <4>1, ProceedLocks
    <3>2. CASE SkipQueue(t, q)
      BY <2>0, <2>5, <3>1, <3>2, VisitType
    <3>3. CASE SubmitMarker(t, q) /\ q \in Blocking
      BY <2>0, <2>5, <3>1, <3>3, VisitType
    <3>4. CASE SubmitMarker(t, q) /\ q \notin Blocking
      BY <2>0, <3>1, <3>4, PostStepsType
    <3> QED
      BY <2>5, <3>2, <3>3, <3>4
  <2>6. ASSUME MarkerReturns(t) \/ WaitQueuesReturns(t) \/ DropReturns(t)
        PROVE  TypeInv' /\ LockInv'
    BY <1>3, <2>0, <2>6, ProceedType, ProceedLocks
  <2> QED
    BY <1>5, <2>1, <2>2, <2>3, <2>4, <2>5, <2>6 DEF Proceed
<1>6. ASSUME NEW q \in Queue, Work(q)
      PROVE  TypeInv' /\ LockInv'
  <2>1. UNCHANGED program
    BY <1>6 DEF Work
  <2>2. LockInv'
    BY <1>3, <1>6, WorkLocks
  <2> QED
    BY <1>6, <2>1, <2>2, FreeAsyncType, FreeBlockingType, WorkerType DEF Work
<1>7. ASSUME UNCHANGED vars
      PROVE  TypeInv' /\ LockInv'
  BY <1>7 DEF vars, TypeInv, TypeOK, LockInv, Ids
<1> QED
  BY <1>2, <1>4, <1>5, <1>6, <1>7 DEF Next, Quiet

-----------------------------------------------------------------------------
(* What a step does to operations and queues.                              *)

orderVars == <<op, tasks, worker, current, executed, running, need>>

\* a queue comes to need operations that are executed
Needs(q, S) ==
    /\ S \subseteq executed
    /\ need' = [need EXCEPT ![q] = @ \cup S]
    /\ UNCHANGED <<op, tasks, worker, current, executed, running>>

\* an operation is posted; what it comes after, next to what the queue needs,
\* is executed or covered by the future that it awaits
Adds(kind, q, e, number, after) ==
    /\ Posted(kind, q, e, number, after)
    /\ q \in Blocking => running[q] = <<>>
    /\ \/ after \subseteq executed
       \/ kind = "waitFor" /\ number \in Ids /\ after \subseteq op[number].before
    /\ \A p \in Queue : worker'[p] = worker[p] \/ (worker[p] = "destroy" /\ worker'[p] = "set")
    /\ UNCHANGED <<current, executed, running>>

Starts(q) ==
    /\ q \in Blocking
    /\ Started(q)
    /\ UNCHANGED <<tasks, worker, current, executed>>

Finishes(q) ==
    /\ q \in Blocking
    /\ running[q] # <<>>
    /\ executed' = executed \cup {running[q][Len(running[q])]}
    /\ running' = [running EXCEPT ![q] = SubSeq(@, 1, Len(running[q]) - 1)]
    /\ UNCHANGED <<op, tasks, worker, current, need>>

Runs(q) ==
    /\ worker[q] = "idle" /\ tasks[q] # <<>>
    /\ op[Head(tasks[q])].kind = "waitFor" => IsSet(op[Head(tasks[q])].number)
    /\ executed' = executed \cup {Head(tasks[q])}
    /\ current' = [current EXCEPT ![q] = Head(tasks[q])]
    /\ worker' = [worker EXCEPT ![q] = "pop"]
    /\ UNCHANGED <<op, tasks, running, need>>

OrderStep ==
    \/ UNCHANGED orderVars
    \/ \E q \in Queue : \E S : Needs(q, S)
    \/ \E kind \in Kinds, q \in Queue, e \in Event \cup Queue \cup {None}, number \in Nat,
          after \in SUBSET Ids : Adds(kind, q, e, number, after)
    \/ \E q \in Queue : \/ Starts(q) \/ Finishes(q) \/ Runs(q)
                        \/ WorkerPop(q) \/ WorkerSet(q) \/ FreedAtOnce(q, op[current[q]])

\* A blocking queue in which nothing runs has executed all that it needs.
LEMMA QuietQueue ==
    ASSUME LockInv, OrderInv, NEW q \in Queue, q \in Blocking,
           qLock[q] = None \/ running[q] = <<>>
    PROVE  running[q] = <<>> /\ need[q] \subseteq executed
<1>1. running[q] = <<>>
  BY DEF LockInv
<1>2. \A m \in 1..Len(running[q]) : FALSE
  BY <1>1
<1> QED
  BY <1>1, <1>2 DEF OrderInv, NeedOrder

\* A future that is set stands for executed operations.
LEMMA SetFuture ==
    ASSUME TypeInv, OperationsInOrder, NEW future \in Nat, IsSet(future),
           NEW S, Covered(future, S)
    PROVE  S \subseteq executed
<1>1. 0 \notin Ids /\ ready \subseteq executed
  BY DEF Ids, TypeInv, TypeOK
<1> QED
  BY <1>1 DEF IsSet, Covered, OperationsInOrder

\* The calls of a thread.
LEMMA CallEffects ==
    ASSUME IndInv, NEW t \in Thread, Call(t)
    PROVE  OrderStep
<1> USE DEF IndInv
<1>0. {} \in SUBSET Ids /\ None \in Event \cup Queue \cup {None} /\ 0 \in Nat
      /\ {} \subseteq executed
      /\ {"task", "keep", "event", "waitFor", "marker"} \subseteq Kinds
  BY DEF Kinds
<1>1. ASSUME NEW q \in Queue, NEW kind \in Kinds, NEW e \in Event \cup Queue \cup {None},
             NEW number \in Nat, Post(kind, q, e, number, {}),
             q \in Blocking => qLock[q] = None,
             UNCHANGED <<worker, current, executed, running>>
      PROVE  OrderStep
  <2>1. Posted(kind, q, e, number, {})
    BY <1>0, <1>1, PostEffect
  <2>2. q \in Blocking => running[q] = <<>>
    BY <1>1 DEF LockInv
  <2>3. Adds(kind, q, e, number, {})
    BY <1>0, <1>1, <2>1, <2>2 DEF Adds
  <2> QED
    BY <1>0, <2>3 DEF OrderStep
<1>2. ASSUME NEW q \in Queue, SubmitAsync(t, q) PROVE OrderStep
  BY <1>0, <1>1, <1>2 DEF SubmitAsync
<1>3. ASSUME NEW q \in Queue, NEW to \in Queue \cup {None}, NEW call,
             NEW kind \in {"task", "keep"}, Deferred(t, q, to, call, kind)
      PROVE  OrderStep
  BY <1>0, <1>1, <1>3 DEF Deferred
<1>4. ASSUME NEW q \in Queue, NEW e \in Event, EnqueueEventAsync(t, q, e) PROVE OrderStep
  <2>1. event[e].count + 1 \in Nat
    BY TypeFacts
  <2> QED
    BY <1>0, <1>1, <1>4, <2>1 DEF EnqueueEventAsync
<1>5. ASSUME NEW q \in Queue, q \in Blocking, StartBlocking(t, q),
             UNCHANGED <<callbackVars, executed>>
      PROVE  OrderStep
  <2>1. Starts(q)
    BY <1>5, StartEffect DEF Starts, callbackVars
  <2> QED
    BY <2>1 DEF OrderStep
<1>6. ASSUME SubmitNested(t) PROVE OrderStep
  <2>1. thread[t].q \in Queue /\ thread[t].q \in Blocking
    BY <1>6, HostQueueAssumption DEF SubmitNested, LockInv
  <2> QED
    BY <1>5, <1>6, <2>1 DEF SubmitNested
<1>7. ASSUME NEW q \in Queue, SubmitBlocking(t, q) PROVE OrderStep
  BY <1>5, <1>7 DEF SubmitBlocking
<1>8. ASSUME NEW q \in Queue, NEW e \in Event, WaitForReady(t, q, e) PROVE OrderStep
  <2>1. event[e].covers \subseteq executed
    BY <1>8 DEF WaitForReady, EventInv
  <2>2. Needs(q, event[e].covers)
    BY <1>8, <2>1 DEF WaitForReady, Needs, callbackVars
  <2> QED
    BY <2>2 DEF OrderStep
<1>9. ASSUME NEW q \in Queue, WaitQueue(t, q) \/ DropQueue(t, q) PROVE UNCHANGED orderVars
  BY <1>9 DEF WaitQueue, DropQueue, orderVars, callbackVars, historyVars
<1>10. ASSUME NEW q \in Queue, NEW e \in Event,
              EnqueueEventLock(t, q, e) \/ WaitForAsync(t, q, e) \/ WaitForLock(t, q, e)
       PROVE  UNCHANGED orderVars
  BY <1>10 DEF EnqueueEventLock, WaitForAsync, WaitForLock, orderVars, callbackVars, historyVars
<1>11. ASSUME NEW e \in Event, IsComplete(t, e) \/ WaitEvent(t, e) PROVE UNCHANGED orderVars
  BY <1>11 DEF IsComplete, WaitEvent, orderVars, callbackVars
<1>12. ASSUME WaitDevice(t) PROVE UNCHANGED orderVars
  BY <1>12 DEF WaitDevice, orderVars, callbackVars, historyVars
<1>13. UNCHANGED orderVars => OrderStep
  BY DEF OrderStep
<1> HIDE DEF IndInv
<1> QED
  BY <1>2, <1>3, <1>4, <1>6, <1>7, <1>8, <1>9, <1>10, <1>11, <1>12, <1>13
     DEF Call, EnqueueDeferred, KeepAlive

\* The steps of a thread inside a call.
LEMMA ProceedEffects ==
    ASSUME IndInv, NEW t \in Thread, Proceed(t)
    PROVE  OrderStep
<1> USE DEF IndInv
<1>0. {} \in SUBSET Ids /\ None \in Event \cup Queue \cup {None} /\ 0 \in Nat
      /\ {} \subseteq executed
      /\ {"task", "keep", "event", "waitFor", "marker"} \subseteq Kinds
  BY DEF Kinds
<1>t. /\ thread[t] \in ThreadType /\ thread[t].goal \subseteq Ids
      /\ thread[t].future \in Nat /\ thread[t].e \in Event \cup Queue \cup {None}
  BY TypeFacts, ThreadStates
<1>1. ASSUME FinishBlocking(t) PROVE OrderStep
  <2> DEFINE q == thread[t].q
  <2>1. q \in Blocking /\ q \in Queue /\ running[q] # <<>>
    BY <1>1, HostQueueAssumption DEF FinishBlocking, LockInv
  <2>2. Finishes(q)
    BY <1>1, <2>1 DEF FinishBlocking, Finishes, callbackVars, historyVars
  <2> QED
    BY <2>1, <2>2 DEF OrderStep
<1>2. ASSUME WaitForSubmit(t) PROVE OrderStep
  <2> DEFINE q == thread[t].q
             e == thread[t].e
             number == thread[t].future
             after == thread[t].goal
  <2>1. q \in Queue \ Blocking /\ Covered(number, after)
    BY <1>2 DEF WaitForSubmit, EventInv
  <2>2. Post("waitFor", q, e, number, after) /\ UNCHANGED <<worker, current, executed, running>>
    BY <1>2 DEF WaitForSubmit
  <2>3. after \in SUBSET Ids /\ number \in Nat /\ e \in Event \cup Queue \cup {None}
    BY <1>t
  <2> HIDE DEF q, e, number, after
  <2>4. Posted("waitFor", q, e, number, after)
    BY <1>0, <2>1, <2>2, <2>3, PostEffect
  <2>5. Adds("waitFor", q, e, number, after)
    BY <2>1, <2>2, <2>4 DEF Adds, Covered
  <2> QED
    BY <1>0, <2>1, <2>3, <2>5 DEF OrderStep
<1>3. ASSUME WaitForReturns(t) PROVE OrderStep
  <2> DEFINE q == thread[t].q
  <2>1. q \in Queue /\ Covered(thread[t].future, thread[t].goal)
    BY <1>3, HostQueueAssumption DEF WaitForReturns, EventInv, LockInv
  <2>2. thread[t].goal \subseteq executed
    BY <1>3, <1>t, <2>1, SetFuture DEF WaitForReturns, OrderInv
  <2>3. Needs(q, thread[t].goal)
    BY <1>3, <2>2 DEF WaitForReturns, Needs, callbackVars
  <2> QED
    BY <2>1, <2>3 DEF OrderStep
<1>4. ASSUME NEW q \in Queue, SubmitMarker(t, q) PROVE OrderStep
  <2>1. CASE q \in Blocking
    BY <1>4, <2>1 DEF SubmitMarker, OrderStep, orderVars
  <2>2. CASE q \notin Blocking
    <3>1. Post("marker", q, None, 0, {}) /\ UNCHANGED <<worker, current, executed, running>>
      BY <1>4, <2>2 DEF SubmitMarker
    <3>2. Posted("marker", q, None, 0, {})
      BY <1>0, <3>1, PostEffect
    <3>3. Adds("marker", q, None, 0, {})
      BY <1>0, <2>2, <3>1, <3>2 DEF Adds
    <3> QED
      BY <1>0, <3>3 DEF OrderStep
  <2> QED
    BY <2>1, <2>2
<1>5. ASSUME \/ EnqueueEventBlocking(t) \/ WaitForBlocking(t) \/ WaitEventLoop(t)
             \/ (\E q \in Queue : SkipQueue(t, q)) \/ MarkerReturns(t)
             \/ WaitQueuesReturns(t) \/ DropReturns(t)
      PROVE  UNCHANGED orderVars
  BY <1>5 DEF EnqueueEventBlocking, WaitForBlocking, WaitEventLoop, SkipQueue, MarkerReturns,
              WaitQueuesReturns, DropReturns, orderVars, callbackVars, historyVars
<1>6. UNCHANGED orderVars => OrderStep
  BY DEF OrderStep
<1> HIDE DEF IndInv
<1> QED
  BY <1>1, <1>2, <1>3, <1>4, <1>5, <1>6 DEF Proceed

\* The steps of a callback thread.
LEMMA WorkEffects ==
    ASSUME IndInv, NEW q \in Queue, Work(q)
    PROVE  OrderStep
<1> USE DEF IndInv
<1>1. ASSUME WorkerRun(q) \/ WorkerRunEvent(q) PROVE OrderStep
  <2>1. Runs(q)
    BY <1>1 DEF WorkerRun, WorkerRunEvent, Runs, historyVars
  <2> QED
    BY <2>1 DEF OrderStep
<1>2. ASSUME WorkerPop(q) \/ WorkerSet(q) PROVE OrderStep
  BY <1>2 DEF OrderStep
<1>3. ASSUME WorkerFreeAsync(q) PROVE OrderStep
  <2> DEFINE k == op[current[q]]
  <2>1. /\ worker[q] = "destroy" /\ k.e \notin Blocking
        /\ Post("task", k.e, None, 0, k.before)
        /\ worker' = [worker EXCEPT ![q] = "set"]
        /\ UNCHANGED <<current, executed, running>>
    BY <1>3 DEF WorkerFreeAsync
  <2>2. current[q] \in executed /\ k.kind = "keep" /\ current[q] \in Ids
    BY <2>1, TypeFacts DEF WorkerInv
  <2>3. k.e \in Queue /\ k.before \subseteq Ids /\ k.before \subseteq executed
    BY <2>2 DEF TypeInv, OrderInv, OperationsInOrder
  <2>4. "task" \in Kinds /\ None \in Event \cup Queue \cup {None} /\ 0 \in Nat
        /\ k.before \in SUBSET Ids
    BY <2>3 DEF Kinds
  <2>5. \A p \in Queue : worker'[p] = worker[p] \/ (worker[p] = "destroy" /\ worker'[p] = "set")
    BY <2>1, TypeFacts
  <2> HIDE DEF k
  <2>6. Posted("task", k.e, None, 0, k.before)
    BY <2>1, <2>3, <2>4, PostEffect
  <2>7. Adds("task", k.e, None, 0, k.before)
    BY <2>1, <2>3, <2>5, <2>6 DEF Adds
  <2> QED
    BY <2>3, <2>4, <2>7 DEF OrderStep
<1>4. ASSUME WorkerFreeBlocking(q) PROVE OrderStep
  BY <1>4, FreeBlockingEffect DEF OrderStep
<1> HIDE DEF IndInv
<1> QED
  BY <1>1, <1>2, <1>3, <1>4 DEF Work

\* Every step is one of these.
LEMMA OrderEffects == ASSUME IndInv, Next PROVE OrderStep
<1>1. ASSUME Quiet PROVE OrderStep
  BY <1>1 DEF Quiet, vars, OrderStep, orderVars
<1> QED
  BY <1>1, CallEffects, ProceedEffects, WorkEffects DEF Next
-----------------------------------------------------------------------------
(* What a callback thread is about to do.                                  *)

\* A queue whose tasks and worker a step leaves alone.
LEMMA WorkerKept ==
    ASSUME TypeInv, WorkerInv, Grows, NEW q \in Queue,
           current'[q] = current[q] \/ worker'[q] = "idle",
           worker'[q] \in {worker[q], "idle"} \/ (worker[q] = "destroy" /\ worker'[q] = "set"),
           Len(tasks[q]) <= Len(tasks'[q]),
           tasks' \in [Queue -> Seq(Nat)],
           \A n \in 1..Len(tasks[q]) : tasks'[q][n] = tasks[q][n],
           \A n \in 1..Len(tasks'[q]) : tasks'[q][n] \in Ids'
    PROVE  /\ worker'[q] = "pop" => tasks'[q] # <<>> /\ current'[q] = Head(tasks'[q])
           /\ worker'[q] # "idle" => current'[q] \in executed'
           /\ worker'[q] = "destroy" => op'[current'[q]].kind = "keep"
<1>0. /\ executed \subseteq Ids /\ tasks \in [Queue -> Seq(Nat)]
      /\ \A i \in Ids : op'[i] = op[i]
      /\ executed \subseteq executed'
  BY TypeFacts DEF Grows
<1>1. ASSUME worker'[q] = "pop"
      PROVE  tasks'[q] # <<>> /\ current'[q] = Head(tasks'[q])
  <2>1. worker[q] = "pop" /\ current'[q] = current[q]
    BY <1>1
  <2>2. tasks[q] # <<>> /\ current[q] = Head(tasks[q]) /\ tasks[q] \in Seq(Nat)
    BY <1>0, <2>1 DEF WorkerInv
  <2>3. Len(tasks[q]) \in Nat \ {0} /\ Head(tasks[q]) = tasks[q][1] /\ 1 \in 1..Len(tasks[q])
    BY <2>2, TailElements
  <2>4. tasks'[q] \in Seq(Nat) /\ tasks'[q] # <<>>
    BY <2>3
  <2>5. Head(tasks'[q]) = tasks'[q][1]
    BY <2>4, TailElements
  <2> QED
    BY <2>1, <2>2, <2>3, <2>4, <2>5
<1>2. worker'[q] # "idle" => current'[q] \in executed' /\ current'[q] = current[q]
                             /\ current[q] \in executed
  BY <1>0 DEF WorkerInv
<1>3. worker'[q] = "destroy" => op'[current'[q]].kind = "keep"
  BY <1>0, <1>2 DEF WorkerInv
<1> QED
  BY <1>1, <1>2, <1>3

\* The part of WorkerInv about one queue.
WorkerOf(q) ==
    /\ \A n \in 1..Len(tasks[q]) : tasks[q][n] \in Ids
    /\ worker[q] = "pop" => tasks[q] # <<>> /\ current[q] = Head(tasks[q])
    /\ worker[q] # "idle" => current[q] \in executed
    /\ worker[q] = "destroy" => op[current[q]].kind = "keep"

\* A queue of which a step leaves tasks, worker and current task alone.
LEMMA WorkerSame ==
    ASSUME TypeInv, TypeInv', WorkerInv, Grows, NEW q \in Queue,
           tasks'[q] = tasks[q], worker'[q] = worker[q], current'[q] = current[q]
    PROVE  WorkerOf(q)'
<1>1. /\ \A n \in 1..Len(tasks[q]) : tasks[q][n] \in Ids
      /\ worker[q] = "pop" => tasks[q] # <<>> /\ current[q] = Head(tasks[q])
      /\ worker[q] # "idle" => current[q] \in executed
      /\ worker[q] = "destroy" => op[current[q]].kind = "keep"
      /\ executed \subseteq Ids
  BY TypeFacts DEF WorkerInv
<1>2. Ids \subseteq Ids' /\ executed \subseteq executed' /\ \A i \in Ids : op'[i] = op[i]
  BY DEF Grows
<1> QED
  BY <1>1, <1>2 DEF WorkerOf

\* Every step keeps what a callback thread is about to do with its front task.
LEMMA WorkerStep ==
    ASSUME IndInv, Next, TypeInv', Grows
    PROVE  WorkerInv'
<1> USE DEF IndInv
<1>0. /\ tasks \in [Queue -> Seq(Nat)] /\ tasks' \in [Queue -> Seq(Nat)]
      /\ worker \in [Queue -> {"idle", "pop", "destroy", "set"}]
      /\ current \in [Queue -> Nat] /\ executed \subseteq Ids
      /\ Ids \subseteq Ids' /\ executed \subseteq executed' /\ \A i \in Ids : op'[i] = op[i]
  BY TypeFacts DEF Grows, TypeInv, TypeOK
<1>1. SUFFICES ASSUME NEW p \in Queue PROVE WorkerOf(p)'
  BY DEF WorkerInv, WorkerOf
<1>2. ASSUME tasks'[p] = tasks[p], worker'[p] = worker[p], current'[p] = current[p]
      PROVE  WorkerOf(p)'
  BY <1>2, WorkerSame
<1>3. CASE UNCHANGED <<tasks, worker, current>>
  BY <1>2, <1>3
<1>4. ASSUME NEW kind, NEW q \in Queue, NEW e, NEW number, NEW after,
             Adds(kind, q, e, number, after)
      PROVE  WorkerOf(p)'
  <2>1. /\ Len(tasks[p]) <= Len(tasks'[p])
        /\ \A n \in 1..Len(tasks[p]) : tasks'[p][n] = tasks[p][n]
        /\ \A n \in 1..Len(tasks'[p]) : tasks'[p][n] \in Ids'
    <3>1. Len(tasks[p]) \in Nat /\ \A n \in 1..Len(tasks[p]) : tasks[p][n] \in Ids'
      BY <1>0 DEF WorkerInv
    <3>2. CASE p = q
      <4>1. /\ Len(tasks'[p]) = Len(tasks[p]) + 1
            /\ 1..Len(tasks'[p]) = 1..Len(tasks[p]) \cup {Len(tasks[p]) + 1}
            /\ \A n \in 1..Len(tasks[p]) : tasks'[p][n] = tasks[p][n]
            /\ tasks'[p][Len(tasks[p]) + 1] = NewId
            /\ Ids' = Ids \cup {NewId}
        BY <1>4, <3>2 DEF Adds, Posted
      <4> QED
        BY <3>1, <4>1
    <3>3. CASE p # q
      <4>1. tasks'[p] = tasks[p]
        BY <1>4, <3>3 DEF Adds, Posted
      <4> QED
        BY <1>0, <3>1, <4>1
    <3> QED
      BY <3>2, <3>3
  <2>2. /\ current'[p] = current[p]
        /\ worker'[p] = worker[p] \/ (worker[p] = "destroy" /\ worker'[p] = "set")
    BY <1>4 DEF Adds
  <2> QED
    BY <1>0, <2>1, <2>2, WorkerKept DEF WorkerOf
<1>5. ASSUME NEW q \in Queue, Runs(q) PROVE WorkerOf(p)'
  <2>1. CASE p # q
    BY <1>0, <1>2, <1>5, <2>1 DEF Runs
  <2>2. CASE p = q
    <3>1. /\ tasks'[p] = tasks[p] /\ tasks[p] # <<>> /\ worker'[p] = "pop"
          /\ current'[p] = Head(tasks[p]) /\ Head(tasks[p]) \in executed'
      BY <1>0, <1>5, <2>2 DEF Runs
    <3>2. \A n \in 1..Len(tasks[p]) : tasks[p][n] \in Ids'
      BY <1>0 DEF WorkerInv
    <3> QED
      BY <3>1, <3>2 DEF WorkerOf
  <2> QED
    BY <2>1, <2>2
<1>6. ASSUME NEW q \in Queue, WorkerPop(q) PROVE WorkerOf(p)'
  <2>1. CASE p # q
    BY <1>0, <1>2, <1>6, <2>1 DEF WorkerPop
  <2>2. CASE p = q
    <3>1. /\ worker[p] = "pop" /\ tasks'[p] = Tail(tasks[p])
          /\ worker'[p] = IF op[current[p]].kind = "keep" THEN "destroy" ELSE "set"
          /\ UNCHANGED <<op, current, executed>>
      BY <1>0, <1>6, <2>2 DEF WorkerPop
    <3>2. tasks[p] # <<>> /\ current[p] \in executed
      BY <3>1 DEF WorkerInv
    <3>3. \A n \in 1..Len(Tail(tasks[p])) : Tail(tasks[p])[n] \in Ids'
      <4>1. \A n \in 1..Len(Tail(tasks[p])) : /\ Tail(tasks[p])[n] = tasks[p][n + 1]
                                             /\ n + 1 \in 1..Len(tasks[p])
        BY <1>0, <3>2, TailElements
      <4> QED
        BY <1>0, <4>1 DEF WorkerInv
    <3> QED
      BY <3>1, <3>2, <3>3 DEF WorkerOf
  <2> QED
    BY <2>1, <2>2
<1>7. ASSUME NEW q \in Queue, WorkerSet(q) PROVE WorkerOf(p)'
  <2>1. CASE p # q
    BY <1>0, <1>2, <1>7, <2>1 DEF WorkerSet
  <2>2. CASE p = q
    BY <1>0, <1>7, <2>2 DEF WorkerSet, WorkerOf, WorkerInv
  <2> QED
    BY <2>1, <2>2
<1>8. ASSUME NEW q \in Queue, FreedAtOnce(q, op[current[q]]) PROVE WorkerOf(p)'
  <2>1. /\ worker[q] = "destroy" /\ worker' = [worker EXCEPT ![q] = "set"]
        /\ UNCHANGED <<tasks, current>>
    BY <1>8 DEF FreedAtOnce
  <2>2. CASE p # q
    BY <1>0, <1>2, <2>1, <2>2
  <2>3. CASE p = q
    BY <1>0, <2>1, <2>3 DEF WorkerOf, WorkerInv
  <2> QED
    BY <2>2, <2>3
<1>9. (\E q \in Queue : (\E S : Needs(q, S)) \/ Starts(q) \/ Finishes(q)) \/ UNCHANGED orderVars
      => UNCHANGED <<tasks, worker, current>>
  BY DEF Needs, Starts, Finishes, orderVars
<1>10. OrderStep
  BY OrderEffects
<1> HIDE DEF IndInv
<1> QED
  BY <1>3, <1>4, <1>5, <1>6, <1>7, <1>8, <1>9, <1>10 DEF OrderStep
-----------------------------------------------------------------------------
(* The order of operations.                                                *)

\* What is ahead in a queue stays ahead when tasks are added behind it, and
\* what an operation awaits does not change.
LEMMA AheadKept ==
    ASSUME WorkerInv, Grows, NEW q \in Queue, NEW n \in 0..Len(tasks[q]), NEW j,
           \A m \in 1..Len(tasks[q]) : tasks'[q][m] = tasks[q][m]
    PROVE  Ahead(q, n, j) => Ahead(q, n, j)'
<1> SUFFICES ASSUME Ahead(q, n, j) PROVE Ahead(q, n, j)'
  OBVIOUS
<1>1. PICK m \in 1..n : j = tasks[q][m] \/ j \in op[tasks[q][m]].before
  BY DEF Ahead
<1>2. m \in 1..Len(tasks[q])
  OBVIOUS
<1>3. tasks[q][m] \in Ids /\ tasks'[q][m] = tasks[q][m]
  BY <1>2 DEF WorkerInv
<1>4. op'[tasks[q][m]] = op[tasks[q][m]]
  BY <1>3 DEF Grows
<1> QED
  BY <1>1, <1>3, <1>4 DEF Ahead

\* What a future stands for, it still does when operations are added.
LEMMA AwaitedKept ==
    ASSUME Grows, NEW i \in Ids, NEW j, Awaited(i, j)
    PROVE  Awaited(i, j)'
<1>1. op'[i] = op[i] /\ Ids \subseteq Ids' /\ \A k \in Ids : op'[k] = op[k]
  BY DEF Grows
<1> QED
  BY <1>1 DEF Awaited

\* The tasks that a queue already has stay in order.
LEMMA TasksKept ==
    ASSUME TypeInv, WorkerInv, OrderInv, Grows, NEW q \in Queue,
           \A m \in 1..Len(tasks[q]) : tasks'[q][m] = tasks[q][m],
           NEW n \in 1..Len(tasks[q]), NEW j, j \in op'[tasks'[q][n]].before
    PROVE  j \in executed' \/ Ahead(q, n - 1, j)' \/ Awaited(tasks[q][n], j)'
<1>1. tasks'[q][n] = tasks[q][n] /\ tasks[q][n] \in Ids
  BY DEF WorkerInv
<1>2. j \in op[tasks[q][n]].before /\ executed \subseteq executed'
  BY <1>1 DEF Grows
<1>3. j \in executed \/ Ahead(q, n - 1, j) \/ Awaited(tasks[q][n], j)
  BY <1>2 DEF OrderInv, TaskOrder
<1>4. n - 1 \in 0..Len(tasks[q])
  <2>1. Len(tasks[q]) \in Nat
    BY TypeFacts
  <2> QED
    BY <2>1
<1> QED
  BY <1>1, <1>2, <1>3, <1>4, AheadKept, AwaitedKept

\* A queue that a step does not touch stays in order.
LEMMA OrderKept ==
    ASSUME TypeInv, LockInv, WorkerInv, OrderInv, Grows, NEW q \in Queue
    PROVE  /\ tasks'[q] = tasks[q] => TaskOrder(q)'
           /\ running'[q] = running[q] => RunningOrder(q)'
           /\ tasks'[q] = tasks[q] /\ running'[q] = running[q]
              /\ need'[q] \subseteq need[q] \cup executed' => NeedOrder(q)'
<1>0. Len(tasks[q]) \in Nat /\ executed \subseteq executed'
  BY TypeFacts DEF Grows
<1>1. ASSUME tasks'[q] = tasks[q]
      PROVE  TaskOrder(q)'
  <2>1. ASSUME NEW n \in 1..Len(tasks[q]), NEW j, j \in op'[tasks'[q][n]].before
        PROVE  j \in executed' \/ Ahead(q, n - 1, j)' \/ Awaited(tasks[q][n], j)'
    BY <1>1, <2>1, TasksKept
  <2> QED
    BY <1>1, <2>1 DEF TaskOrder
<1>2. ASSUME running'[q] = running[q]
      PROVE  RunningOrder(q)'
  <2>1. ASSUME NEW m \in 1..Len(running[q])
        PROVE  op'[running[q][m]].before \subseteq executed'
    <3>1. running[q][m] \in Ids
      BY DEF LockInv
    <3>2. op'[running[q][m]] = op[running[q][m]]
      BY <3>1 DEF Grows
    <3> QED
      BY <1>0, <3>2 DEF OrderInv, RunningOrder
  <2> QED
    BY <1>2, <2>1 DEF RunningOrder
<1>3. ASSUME tasks'[q] = tasks[q], running'[q] = running[q],
             need'[q] \subseteq need[q] \cup executed'
      PROVE  NeedOrder(q)'
  <2>1. ASSUME NEW j \in need'[q], j \notin executed'
        PROVE  \/ q \notin Blocking /\ Ahead(q, Len(tasks[q]), j)'
               \/ q \in Blocking /\ \E m \in 1..Len(running[q]) : j = running[q][m]
    <3>1. j \in need[q] /\ j \notin executed
      BY <1>0, <1>3, <2>1
    <3>2. \/ q \notin Blocking /\ Ahead(q, Len(tasks[q]), j)
          \/ q \in Blocking /\ \E m \in 1..Len(running[q]) : j = running[q][m]
      BY <3>1 DEF OrderInv, NeedOrder
    <3>3. Len(tasks[q]) \in 0..Len(tasks[q])
      BY <1>0
    <3> QED
      BY <1>3, <3>2, <3>3, AheadKept
  <2> QED
    BY <1>3, <2>1 DEF NeedOrder, Ahead
<1> QED
  BY <1>1, <1>2, <1>3

OrderOf(q) == TaskOrder(q) /\ NeedOrder(q) /\ RunningOrder(q)

\* What is executed stays in order when an operation is executed after all
\* that it comes after.
LEMMA ExecutedInOrder ==
    ASSUME TypeInv, OrderInv, Grows, NEW i \in Ids', op'[i].before \subseteq executed',
           executed' = executed \cup {i} \/ executed' = executed
    PROVE  OperationsInOrder'
<1>1. /\ executed \subseteq Ids /\ executed \subseteq executed'
      /\ \A k \in Ids : op'[k] = op[k]
      /\ \A k \in executed : op[k].before \subseteq executed
  BY TypeFacts DEF Grows, OrderInv, OperationsInOrder
<1>2. ASSUME NEW k \in executed' PROVE op'[k].before \subseteq executed'
  <2>1. CASE k \in executed
    BY <1>1, <2>1
  <2>2. CASE k = i
    BY <2>2
  <2> QED
    BY <1>2, <2>1, <2>2
<1> QED
  BY <1>2 DEF OperationsInOrder

\* A step that executes nothing cannot break the order of what is executed.
LEMMA SameExecuted ==
    ASSUME TypeInv, OrderInv, Grows, UNCHANGED executed
    PROVE  OperationsInOrder'
<1>1. /\ executed \subseteq Ids /\ \A k \in Ids : op'[k] = op[k]
      /\ \A k \in executed : op[k].before \subseteq executed
  BY TypeFacts DEF Grows, OrderInv, OperationsInOrder
<1> QED
  BY <1>1 DEF OperationsInOrder

\* A new operation is ordered behind the tasks of its queue.
LEMMA AddsOrder ==
    ASSUME TypeInv, LockInv, WorkerInv, OrderInv, Grows,
           NEW kind, NEW q \in Queue, NEW e, NEW number, NEW after,
           Adds(kind, q, e, number, after)
    PROVE  OrderInv'
<1>n. PICK n \in Nat : n = Len(tasks[q])
  BY DEF Adds, Posted
<1>i. PICK i : i = NewId
  OBVIOUS
<1>0. /\ Len(tasks'[q]) = n + 1
      /\ 1..Len(tasks'[q]) = 1..n \cup {n + 1}
      /\ \A m \in 1..n : tasks'[q][m] = tasks[q][m]
      /\ tasks'[q][n + 1] = i
      /\ op'[i].kind = kind /\ op'[i].number = number
      /\ op'[i].before = need[q] \cup after
      /\ need'[q] = IF q \in Blocking THEN need[q] ELSE need[q] \cup after \cup {i}
      /\ UNCHANGED <<executed, running>>
  BY <1>n, <1>i DEF Adds, Posted
<1>1. /\ q \in Blocking => running[q] = <<>> /\ need[q] \subseteq executed
      /\ \A p \in Queue \ {q} : tasks'[p] = tasks[p] /\ need'[p] = need[p]
  BY QuietQueue DEF Adds, Posted
<1>2. \/ after \subseteq executed
      \/ kind = "waitFor" /\ number \in Ids /\ after \subseteq op[number].before
  BY DEF Adds
<1>3. OperationsInOrder'
  BY <1>0, SameExecuted
<1>4. ASSUME NEW p \in Queue \ {q} PROVE OrderOf(p)'
  BY <1>0, <1>1, OrderKept DEF OrderOf
<1>5. ASSUME NEW m \in 1..n, NEW j, j \in op'[tasks'[q][m]].before
      PROVE  j \in executed' \/ Ahead(q, m - 1, j)' \/ Awaited(tasks[q][m], j)'
  BY <1>n, <1>0, <1>5, TasksKept
<1>6. ASSUME NEW j, j \in op'[i].before
      PROVE  j \in executed' \/ Ahead(q, n, j)' \/ Awaited(i, j)'
  <2>1. CASE j \in need[q]
    <3>1. j \in executed \/ Ahead(q, n, j)
      <4>1. CASE q \in Blocking
        BY <1>1, <2>1, <4>1
      <4>2. CASE q \notin Blocking
        BY <1>n, <2>1, <4>2 DEF OrderInv, NeedOrder
      <4> QED
        BY <4>1, <4>2
    <3>2. n \in 0..Len(tasks[q])
      BY <1>n, <1>0
    <3>3. \A m \in 1..Len(tasks[q]) : tasks'[q][m] = tasks[q][m]
      BY <1>n, <1>0
    <3>4. Ahead(q, n, j) => Ahead(q, n, j)'
      BY <3>2, <3>3, AheadKept
    <3> QED
      BY <1>0, <3>1, <3>4
  <2>2. CASE j \in after
    <3>1. CASE after \subseteq executed
      BY <1>0, <2>2, <3>1
    <3>2. CASE kind = "waitFor" /\ number \in Ids /\ after \subseteq op[number].before
      BY <1>0, <2>2, <3>2 DEF Awaited, Grows
    <3> QED
      BY <1>2, <3>1, <3>2
  <2> QED
    BY <1>0, <1>6, <2>1, <2>2
<1>7. TaskOrder(q)'
  <2>1. ASSUME NEW m \in 1..Len(tasks'[q]), NEW j, j \in op'[tasks'[q][m]].before
        PROVE  j \in executed' \/ Ahead(q, m - 1, j)' \/ Awaited(tasks[q][m], j)'
    <3>1. CASE m \in 1..n
      BY <1>5, <2>1, <3>1
    <3>2. CASE m = n + 1
      <4>1. m - 1 = n
        BY <1>0, <3>2
      <4> QED
        BY <1>0, <1>6, <2>1, <3>2, <4>1 DEF Awaited, Ahead
    <3> QED
      BY <1>0, <3>1, <3>2
  <2> QED
    BY <2>1 DEF TaskOrder
<1>8. NeedOrder(q)'
  <2>1. CASE q \in Blocking
    BY <1>0, <1>1, <2>1 DEF NeedOrder
  <2>2. CASE q \notin Blocking
    <3>1. ASSUME NEW j \in need'[q] PROVE Ahead(q, n + 1, j)'
      <4>1. j = tasks'[q][n + 1] \/ j \in op'[tasks'[q][n + 1]].before
        BY <1>0, <2>2
      <4>2. n + 1 \in 1..n + 1
        BY <1>0
      <4> QED
        BY <4>1, <4>2 DEF Ahead
    <3> QED
      BY <1>0, <2>2, <3>1 DEF NeedOrder, Ahead
  <2> QED
    BY <2>1, <2>2
<1>9. RunningOrder(q)'
  BY <1>0, OrderKept
<1> QED
  BY <1>3, <1>4, <1>7, <1>8, <1>9 DEF OrderInv, OrderOf

\* An operation that starts in the caller comes after executed operations and
\* those it runs inside.
LEMMA StartsOrder ==
    ASSUME TypeInv, LockInv, WorkerInv, OrderInv, Grows, NEW q \in Queue, Starts(q)
    PROVE  OrderInv'
<1>n. PICK n \in Nat : n = Len(running[q])
  BY DEF Starts, Started
<1>i. PICK i : i = NewId
  OBVIOUS
<1>0. /\ q \in Blocking /\ UNCHANGED <<tasks, executed>>
      /\ 1..Len(running'[q]) = 1..n \cup {n + 1}
      /\ \A m \in 1..n : running'[q][m] = running[q][m]
      /\ running'[q][n + 1] = i
      /\ op'[i].before = need[q] \ {running[q][m] : m \in 1..n}
      /\ need'[q] = need[q] \cup {i}
      /\ \A p \in Queue \ {q} : running'[p] = running[p] /\ need'[p] = need[p]
  BY <1>n, <1>i DEF Starts, Started
<1>1. OperationsInOrder'
  BY <1>0, SameExecuted
<1>2. ASSUME NEW p \in Queue \ {q} PROVE OrderOf(p)'
  BY <1>0, <1>2, OrderKept DEF OrderOf
<1>3. TaskOrder(q)'
  BY <1>0, OrderKept
<1>4. \A j \in need[q] : j \in executed \/ \E m \in 1..n : j = running[q][m]
  BY <1>n, <1>0 DEF OrderInv, NeedOrder
<1>5. NeedOrder(q)'
  <2>1. ASSUME NEW j \in need'[q], j \notin executed
        PROVE  \E m \in 1..Len(running'[q]) : j = running'[q][m]
    <3>1. CASE j = i
      BY <1>0, <3>1
    <3>2. CASE j \in need[q]
      <4>1. PICK m \in 1..n : j = running[q][m]
        BY <1>4, <2>1, <3>2
      <4> QED
        BY <1>0, <4>1
    <3> QED
      BY <1>0, <3>1, <3>2
  <2> QED
    BY <1>0, <2>1 DEF NeedOrder
<1>6. RunningOrder(q)'
  <2>1. ASSUME NEW m \in 1..Len(running'[q])
        PROVE  op'[running'[q][m]].before \subseteq executed'
    <3>1. CASE m \in 1..n
      <4>1. running[q][m] \in Ids /\ running'[q][m] = running[q][m]
        BY <1>n, <1>0, <3>1 DEF LockInv
      <4>2. op'[running[q][m]] = op[running[q][m]]
        BY <4>1 DEF Grows
      <4> QED
        BY <1>n, <1>0, <3>1, <4>1, <4>2 DEF OrderInv, RunningOrder
    <3>2. CASE m = n + 1
      BY <1>0, <1>4, <3>2
    <3> QED
      BY <1>0, <3>1, <3>2
  <2> QED
    BY <2>1 DEF RunningOrder
<1> QED
  BY <1>1, <1>2, <1>3, <1>5, <1>6 DEF OrderInv, OrderOf

\* The innermost operation that runs in the caller is over.
LEMMA FinishesOrder ==
    ASSUME TypeInv, LockInv, WorkerInv, OrderInv, Grows, NEW q \in Queue, Finishes(q)
    PROVE  OrderInv'
<1>n. PICK n : n = Len(running[q])
  OBVIOUS
<1>i. PICK i : i = running[q][n]
  OBVIOUS
<1>0. /\ q \in Blocking /\ running[q] # <<>>
      /\ executed' = executed \cup {i}
      /\ running' = [running EXCEPT ![q] = SubSeq(running[q], 1, n - 1)]
      /\ UNCHANGED <<op, tasks, need>>
  BY <1>n, <1>i DEF Finishes
<1>1. running \in [Queue -> Seq(Nat)]
  BY TypeFacts
<1>2. /\ n \in Nat \ {0}
      /\ Len(running'[q]) = n - 1
      /\ \A m \in 1..n - 1 : running'[q][m] = running[q][m]
      /\ \A p \in Queue \ {q} : running'[p] = running[p]
  BY <1>n, <1>0, <1>1, FrontElements
<1>3. i \in Ids /\ op[i].before \subseteq executed
  BY <1>n, <1>i, <1>2 DEF LockInv, OrderInv, RunningOrder
<1>4. OperationsInOrder'
  <2>1. i \in Ids' /\ op'[i].before \subseteq executed'
    BY <1>0, <1>3 DEF Grows
  <2> QED
    BY <1>0, <2>1, ExecutedInOrder
<1>5. ASSUME NEW p \in Queue \ {q} PROVE OrderOf(p)'
  <2>1. tasks'[p] = tasks[p] /\ running'[p] = running[p] /\ need'[p] = need[p]
    BY <1>0, <1>2
  <2> QED
    BY <2>1, OrderKept DEF OrderOf
<1>6. TaskOrder(q)'
  BY <1>0, OrderKept
<1>7. NeedOrder(q)'
  <2>1. ASSUME NEW j \in need'[q], j \notin executed'
        PROVE  \E m \in 1..Len(running'[q]) : j = running'[q][m]
    <3>1. PICK m \in 1..n : j = running[q][m]
      BY <1>n, <1>0, <2>1 DEF OrderInv, NeedOrder
    <3>2. m # n
      BY <1>i, <1>0, <2>1, <3>1
    <3>3. m \in 1..n - 1
      BY <1>2, <3>2
    <3> QED
      BY <1>2, <3>1, <3>3
  <2> QED
    BY <1>0, <2>1 DEF NeedOrder
<1>8. RunningOrder(q)'
  <2>1. ASSUME NEW m \in 1..n - 1
        PROVE  op[running[q][m]].before \subseteq executed
    <3>1. m \in 1..n
      BY <1>2
    <3> QED
      BY <1>n, <3>1 DEF OrderInv, RunningOrder
  <2> QED
    BY <1>0, <1>2, <2>1 DEF RunningOrder
<1> QED
  BY <1>4, <1>5, <1>6, <1>7, <1>8 DEF OrderInv, OrderOf

\* The front of a queue's tasks runs: nothing is ahead of it, and a waitFor
\* runs when the future that it awaits is set.
LEMMA RunsOrder ==
    ASSUME TypeInv, LockInv, WorkerInv, OrderInv, Grows, NEW q \in Queue, Runs(q)
    PROVE  OrderInv'
<1>i. PICK i : i = Head(tasks[q])
  OBVIOUS
<1>0. /\ tasks[q] # <<>>
      /\ op[i].kind = "waitFor" => IsSet(op[i].number)
      /\ executed' = executed \cup {i}
      /\ UNCHANGED <<op, tasks, running, need>>
  BY <1>i DEF Runs
<1>1. i = tasks[q][1] /\ 1 \in 1..Len(tasks[q]) /\ i \in Ids
  <2>1. tasks[q] \in Seq(Nat)
    BY TypeFacts
  <2>2. i = tasks[q][1] /\ 1 \in 1..Len(tasks[q])
    BY <1>i, <1>0, <2>1, TailElements
  <2> QED
    BY <2>2 DEF WorkerInv
<1>2. op[i].before \subseteq executed
  <2>1. ASSUME NEW j \in op[i].before, j \notin executed PROVE FALSE
    <3>1. Ahead(q, 1 - 1, j) \/ Awaited(i, j)
      BY <1>1, <2>1 DEF OrderInv, TaskOrder
    <3>2. ~Ahead(q, 1 - 1, j)
      BY DEF Ahead
    <3>3. op[i].number \in ready /\ j \in op[op[i].number].before
      <4>1. 0 \notin Ids
        BY DEF Ids
      <4> QED
        BY <1>0, <3>1, <3>2, <4>1 DEF Awaited, IsSet
    <3> QED
      BY <2>1, <3>3, TypeFacts DEF OrderInv, OperationsInOrder
  <2> QED
    BY <2>1
<1>3. OperationsInOrder'
  <2>1. i \in Ids' /\ op'[i].before \subseteq executed'
    BY <1>0, <1>1, <1>2 DEF Grows
  <2> QED
    BY <1>0, <2>1, ExecutedInOrder
<1>4. ASSUME NEW p \in Queue PROVE OrderOf(p)'
  <2>1. tasks'[p] = tasks[p] /\ running'[p] = running[p] /\ need'[p] = need[p]
    BY <1>0
  <2> QED
    BY <2>1, OrderKept DEF OrderOf
<1> QED
  BY <1>3, <1>4 DEF OrderInv, OrderOf

\* The executed front of a queue's tasks is popped: what was ahead of the other
\* tasks because of it is executed.
LEMMA PopOrder ==
    ASSUME TypeInv, LockInv, WorkerInv, OrderInv, Grows, NEW q \in Queue, WorkerPop(q)
    PROVE  OrderInv'
<1>n. PICK n : n = Len(tasks[q])
  OBVIOUS
<1>0. /\ tasks' = [tasks EXCEPT ![q] = Tail(tasks[q])]
      /\ UNCHANGED <<op, executed, running, need>>
  BY DEF WorkerPop, historyVars
<1>1. tasks[q] # <<>> /\ Head(tasks[q]) \in executed
  BY DEF WorkerPop, WorkerInv
<1>2. /\ n \in Nat \ {0}
      /\ Len(tasks'[q]) = n - 1
      /\ \A m \in 1..n - 1 : tasks'[q][m] = tasks[q][m + 1]
      /\ tasks[q][1] \in executed
      /\ \A p \in Queue \ {q} : tasks'[p] = tasks[p]
  <2>1. tasks \in [Queue -> Seq(Nat)]
    BY TypeFacts
  <2> QED
    BY <1>n, <1>0, <1>1, <2>1, TailElements
<1>3. op[tasks[q][1]].before \subseteq executed
  BY <1>2 DEF OrderInv, OperationsInOrder
<1>4. ASSUME NEW m \in 1..n, NEW j, Ahead(q, m, j), j \notin executed
      PROVE  Ahead(q, m - 1, j)'
  <2>1. PICK k \in 1..m : j = tasks[q][k] \/ j \in op[tasks[q][k]].before
    BY <1>4 DEF Ahead
  <2>2. k # 1
    BY <1>2, <1>3, <1>4, <2>1
  <2>3. k - 1 \in 1..m - 1 /\ k - 1 \in 1..n - 1 /\ (k - 1) + 1 = k
    BY <1>2, <2>2
  <2>4. tasks'[q][k - 1] = tasks[q][k]
    BY <1>2, <2>3
  <2> QED
    BY <1>0, <2>1, <2>3, <2>4 DEF Ahead
<1>5. TaskOrder(q)'
  <2>1. ASSUME NEW m \in 1..n - 1, NEW j, j \in op[tasks'[q][m]].before
        PROVE  j \in executed' \/ Ahead(q, m - 1, j)' \/ Awaited(tasks[q][m], j)'
    <3>1. tasks'[q][m] = tasks[q][m + 1] /\ m + 1 \in 1..n /\ (m + 1) - 1 = m /\ m \in 1..n
      BY <1>2
    <3>2. j \in executed \/ Ahead(q, m, j) \/ Awaited(tasks[q][m + 1], j)
      BY <1>n, <2>1, <3>1 DEF OrderInv, TaskOrder
    <3> QED
      BY <1>0, <1>4, <3>1, <3>2 DEF Awaited, Ids
  <2> QED
    BY <1>0, <1>2, <2>1 DEF TaskOrder
<1>6. NeedOrder(q)'
  <2>1. CASE q \in Blocking
    BY <1>0, <2>1 DEF OrderInv, NeedOrder
  <2>2. CASE q \notin Blocking
    <3>1. ASSUME NEW j \in need[q], j \notin executed PROVE Ahead(q, n - 1, j)'
      <4>1. Ahead(q, n, j) /\ n \in 1..n
        BY <1>n, <1>2, <2>2, <3>1 DEF OrderInv, NeedOrder
      <4> QED
        BY <1>4, <3>1, <4>1
    <3> QED
      BY <1>0, <1>2, <2>2, <3>1 DEF NeedOrder, Ahead
  <2> QED
    BY <2>1, <2>2
<1>7. RunningOrder(q)'
  BY <1>0, OrderKept
<1>8. ASSUME NEW p \in Queue \ {q} PROVE OrderOf(p)'
  <2>1. tasks'[p] = tasks[p] /\ running'[p] = running[p] /\ need'[p] = need[p]
    BY <1>0, <1>2
  <2> QED
    BY <2>1, OrderKept DEF OrderOf
<1>9. OperationsInOrder'
  BY <1>0, SameExecuted
<1> QED
  BY <1>5, <1>6, <1>7, <1>8, <1>9 DEF OrderInv, OrderOf

\* The free of a deferred buffer runs at once in a blocking queue in which
\* nothing else runs, after the task that kept the buffer alive.
LEMMA FreedOrder ==
    ASSUME TypeInv, LockInv, WorkerInv, OrderInv, Grows, NEW q \in Queue,
           FreedAtOnce(q, op[current[q]])
    PROVE  OrderInv'
<1>k. PICK k : k = op[current[q]]
  OBVIOUS
<1>i. PICK i : i = NewId
  OBVIOUS
<1>0. /\ k.e \in Queue /\ k.e \in Blocking /\ qLock[k.e] = None
      /\ op'[i].before = need[k.e] \cup k.before
      /\ i \in Ids'
      /\ \A p \in Queue \ {k.e} : need'[p] = need[p]
      /\ need'[k.e] = need[k.e] \cup {i}
      /\ executed' = executed \cup {i}
      /\ worker[q] = "destroy"
      /\ UNCHANGED <<tasks, running>>
  BY <1>k, <1>i DEF FreedAtOnce
<1>1. k.before \subseteq executed
  BY <1>k, <1>0 DEF WorkerInv, OrderInv, OperationsInOrder
<1>2. need[k.e] \subseteq executed
  BY <1>0, QuietQueue
<1>3. OperationsInOrder'
  <2>1. op'[i].before \subseteq executed'
    BY <1>0, <1>1, <1>2
  <2> QED
    BY <1>0, <2>1, ExecutedInOrder
<1>4. ASSUME NEW p \in Queue PROVE OrderOf(p)'
  <2>1. tasks'[p] = tasks[p] /\ running'[p] = running[p] /\ need'[p] \subseteq need[p] \cup executed'
    BY <1>0
  <2> QED
    BY <2>1, OrderKept DEF OrderOf
<1> QED
  BY <1>3, <1>4 DEF OrderInv, OrderOf

\* Every step keeps the order of what is queued, running and executed.
LEMMA OrderInvStep ==
    ASSUME IndInv, Next, Grows
    PROVE  OrderInv'
<1> USE DEF IndInv
<1>1. ASSUME UNCHANGED <<op, tasks, executed, running>>,
             \A p \in Queue : need'[p] \subseteq need[p] \cup executed
      PROVE  OrderInv'
  <2>1. OperationsInOrder'
    BY <1>1, SameExecuted
  <2>2. ASSUME NEW p \in Queue PROVE OrderOf(p)'
    <3>1. tasks'[p] = tasks[p] /\ running'[p] = running[p] /\ need'[p] \subseteq need[p] \cup executed'
      BY <1>1
    <3> QED
      BY <3>1, OrderKept DEF OrderOf
  <2> QED
    BY <2>1, <2>2 DEF OrderInv, OrderOf
<1>2. ASSUME NEW q \in Queue, NEW S, Needs(q, S) PROVE OrderInv'
  <2>1. need \in [Queue -> SUBSET Ids]
    BY TypeFacts
  <2> QED
    BY <1>1, <1>2, <2>1 DEF Needs
<1>3. ASSUME NEW q \in Queue, WorkerSet(q) PROVE OrderInv'
  BY <1>1, <1>3 DEF WorkerSet, historyVars
<1>4. ASSUME UNCHANGED orderVars PROVE OrderInv'
  BY <1>1, <1>4 DEF orderVars
<1>5. OrderStep
  BY OrderEffects
<1> HIDE DEF IndInv
<1>6. TypeInv /\ LockInv /\ WorkerInv /\ OrderInv
  BY DEF IndInv
<1> QED
  BY <1>2, <1>3, <1>4, <1>5, <1>6, AddsOrder, StartsOrder, FinishesOrder, RunsOrder, PopOrder,
     FreedOrder DEF OrderStep

-----------------------------------------------------------------------------
(* Events.                                                                 *)

\* The parts of EventInv about one event, operation and thread.
EventOf(e) ==
    /\ event[e].last <= event[e].count
    /\ Covered(event[e].future, event[e].covers)
    /\ IsReady(e) => event[e].covers \subseteq executed

NumberOf(i) ==
    op[i].kind = "event" =>
        /\ op[i].number <= event[op[i].e].count
        /\ op[i].number = event[op[i].e].count => event[op[i].e].future = i

ThreadOf(t) ==
    /\ thread[t].at = "futureCopied" => thread[t].q \in Queue \ Blocking
    /\ thread[t].at = "waitEvent" => thread[t].e \in Event
    /\ thread[t].at \in {"futureCopied", "waitForFuture", "waitEvent"} =>
          Covered(thread[t].future, thread[t].goal)
    /\ thread[t].at = "eventLocked" =>
          \A i \in Ids : op[i].kind = "event" /\ op[i].e = thread[t].e =>
              op[i].number < event[thread[t].e].count

Pending(e) ==
    \/ \E t \in Thread : thread[t].at = "eventLocked" /\ thread[t].e = e
    \/ \E q \in Queue : \E n \in 1..Len(tasks[q]) :
          /\ op[tasks[q][n]].kind = "event" /\ op[tasks[q][n]].e = e
          /\ op[tasks[q][n]].number = event[e].count
          /\ n = 1 => worker[q] # "pop"

\* Enqueuing threads, their operations and the events are looked at one by one.
LEMMA EventParts ==
    /\ EventInv <=> /\ \A e \in Event : EventOf(e)
                    /\ \A i \in Ids : NumberOf(i)
                    /\ \A t \in Thread : ThreadOf(t)
    /\ PendingInv <=> \A e \in Event : ~IsReady(e) => Pending(e)
  BY DEF EventInv, PendingInv, EventOf, NumberOf, ThreadOf, Pending

\* the places in which a thread relies on an event
Watching == {"futureCopied", "waitForFuture", "waitEvent", "eventLocked"}

\* a step that enqueues, signals and pops no event
EventQuiet ==
    /\ UNCHANGED event
    /\ \A i \in Ids' \ Ids : op'[i].kind # "event"
    /\ \A q \in Queue : /\ Len(tasks[q]) <= Len(tasks'[q])
                        /\ \A n \in 1..Len(tasks[q]) : tasks'[q][n] = tasks[q][n]
                        /\ worker'[q] = worker[q] \/ worker'[q] # "pop"
    /\ \A t \in Thread : \/ thread'[t] = thread[t]
                         \/ /\ thread[t].at # "eventLocked"
                            /\ thread'[t].at \notin Watching \/ ThreadOf(t)'

\* What a future covers it still covers when operations are added.
LEMMA CoveredKept ==
    ASSUME Grows, NEW future, NEW S, Covered(future, S)
    PROVE  S \subseteq executed' \/ (future \in Ids' /\ S \subseteq op'[future].before)
  BY DEF Covered, Grows

\* An event whose counts and future a step leaves alone.
LEMMA EventSame ==
    ASSUME Grows, NEW e \in Event, EventOf(e), event'[e] = event[e]
    PROVE  EventOf(e)'
<1>1. executed \subseteq executed'
  BY DEF Grows
<1>2. Covered(event[e].future, event[e].covers)'
  BY CoveredKept DEF Covered, EventOf
<1> QED
  BY <1>1, <1>2 DEF EventOf, IsReady

\* The number of an earlier enqueue of an event that a step leaves alone.
LEMMA NumberSame ==
    ASSUME Grows, NEW i \in Ids, NumberOf(i),
           op[i].kind = "event" => event'[op[i].e] = event[op[i].e]
    PROVE  NumberOf(i)'
  BY DEF Grows, NumberOf

\* A thread that a step leaves alone, which enqueues no event under its lock.
LEMMA ThreadSame ==
    ASSUME Grows, NEW t \in Thread, ThreadOf(t), thread'[t] = thread[t],
           thread[t].at = "eventLocked" =>
               /\ event'[thread[t].e] = event[thread[t].e]
               /\ \A i \in Ids' \ Ids : op'[i].kind = "event" => op'[i].e # thread[t].e
    PROVE  ThreadOf(t)'
<1>1. thread[t].at \in {"futureCopied", "waitForFuture", "waitEvent"} =>
          Covered(thread[t].future, thread[t].goal)'
  BY CoveredKept DEF Covered, ThreadOf
<1>2. thread[t].at = "eventLocked" =>
          \A i \in Ids' : op'[i].kind = "event" /\ op'[i].e = thread[t].e =>
              op'[i].number < event'[thread[t].e].count
  BY DEF ThreadOf, Grows
<1> QED
  BY <1>1, <1>2 DEF ThreadOf

\* A thread that relies on no event.
LEMMA ThreadElsewhere ==
    ASSUME NEW t \in Thread, thread'[t].at \notin Watching
    PROVE  ThreadOf(t)'
  BY DEF ThreadOf, Watching

\* A step that enqueues, signals and pops no event keeps what events promise.
LEMMA EventQuietKeeps ==
    ASSUME TypeInv, TypeInv', WorkerInv, EventInv, PendingInv, Grows, EventQuiet
    PROVE  EventInv' /\ PendingInv'
<1>0. /\ \A i \in Ids : op'[i] = op[i]
      /\ \A q \in Queue : \A n \in 1..Len(tasks[q]) : tasks[q][n] \in Ids
      /\ \A q \in Queue : Len(tasks[q]) \in Nat
      /\ \A q \in Queue : Len(tasks'[q]) \in Nat
  <2>1. \A q \in Queue : Len(tasks[q]) \in Nat
    BY TypeFacts
  <2>2. \A q \in Queue : Len(tasks'[q]) \in Nat
    BY DEF TypeInv, TypeOK
  <2> QED
    BY <2>1, <2>2 DEF Grows, WorkerInv
<1>1. \A e \in Event : EventOf(e)'
  BY EventParts, EventSame DEF EventQuiet
<1>2. \A i \in Ids' : NumberOf(i)'
  <2>1. ASSUME NEW i \in Ids PROVE NumberOf(i)'
    BY EventParts, NumberSame DEF EventQuiet
  <2>2. ASSUME NEW i \in Ids' \ Ids PROVE NumberOf(i)'
    BY DEF EventQuiet, NumberOf
  <2> QED
    BY <2>1, <2>2
<1>3. ASSUME NEW t \in Thread PROVE ThreadOf(t)'
  <2>1. CASE thread'[t] = thread[t]
    BY <2>1, EventParts, ThreadSame DEF EventQuiet
  <2>2. CASE thread'[t] # thread[t]
    BY <2>2, ThreadElsewhere DEF EventQuiet
  <2> QED
    BY <2>1, <2>2
<1>4. ASSUME NEW e \in Event, ~IsReady(e)' PROVE Pending(e)'
  <2>1. Pending(e)
    BY <1>4, EventParts DEF EventQuiet, IsReady
  <2>2. ASSUME NEW t \in Thread, thread[t].at = "eventLocked", thread[t].e = e PROVE Pending(e)'
    BY <2>2 DEF EventQuiet, Pending
  <2>3. ASSUME NEW q \in Queue, NEW n \in 1..Len(tasks[q]),
               op[tasks[q][n]].kind = "event", op[tasks[q][n]].e = e,
               op[tasks[q][n]].number = event[e].count, n = 1 => worker[q] # "pop"
        PROVE  Pending(e)'
    <3>1. tasks'[q][n] = tasks[q][n] /\ op'[tasks[q][n]] = op[tasks[q][n]]
      BY <1>0 DEF EventQuiet
    <3>2. n \in 1..Len(tasks'[q])
      BY <1>0 DEF EventQuiet
    <3> QED
      BY <2>3, <3>1, <3>2 DEF EventQuiet, Pending
  <2> QED
    BY <2>1, <2>2, <2>3 DEF Pending
<1>5. EventInv'
  BY <1>1, <1>2, <1>3, EventParts DEF EventInv, EventOf, NumberOf, ThreadOf
<1>6. PendingInv'
  BY <1>4 DEF PendingInv, Pending
<1> QED
  BY <1>5, <1>6

\* An operation that is posted and is no event's.
LEMMA PostQuiet ==
    ASSUME TypeInv, NEW kind \in Kinds \ {"event"}, NEW q \in Queue,
           NEW e \in Event \cup Queue \cup {None}, NEW number \in Nat, NEW after \in SUBSET Ids,
           Post(kind, q, e, number, after), UNCHANGED event,
           \A p \in Queue : worker'[p] = worker[p] \/ worker'[p] # "pop",
           \A u \in Thread : \/ thread'[u] = thread[u]
                             \/ thread[u].at # "eventLocked" /\ thread'[u].at \notin Watching
    PROVE  EventQuiet
<1>1. Posted(kind, q, e, number, after)
  BY PostEffect
<1>2. \A i \in Ids' \ Ids : op'[i].kind # "event"
  <2>1. Ids' = Ids \cup {NewId} /\ op'[NewId].kind = kind
    BY <1>1 DEF Posted
  <2> QED
    BY <2>1
<1>3. ASSUME NEW p \in Queue
      PROVE  /\ Len(tasks[p]) <= Len(tasks'[p])
             /\ \A n \in 1..Len(tasks[p]) : tasks'[p][n] = tasks[p][n]
  <2>1. Len(tasks[p]) \in Nat
    BY TypeFacts
  <2>2. CASE p = q
    BY <1>1, <2>1, <2>2 DEF Posted
  <2>3. CASE p # q
    <3>1. tasks'[p] = tasks[p]
      BY <1>1, <2>3 DEF Posted
    <3> QED
      BY <2>1, <3>1
  <2> QED
    BY <2>2, <2>3
<1> QED
  BY <1>2, <1>3 DEF EventQuiet

\* A step that leaves operations and tasks alone.
LEMMA SameOpQuiet ==
    ASSUME TypeInv, UNCHANGED <<op, tasks, event>>,
           \A p \in Queue : worker'[p] = worker[p] \/ worker'[p] # "pop",
           \A u \in Thread : \/ thread'[u] = thread[u]
                             \/ /\ thread[u].at # "eventLocked"
                                /\ thread'[u].at \notin Watching \/ ThreadOf(u)'
    PROVE  EventQuiet
<1>1. \A p \in Queue : Len(tasks[p]) \in Nat
  BY TypeFacts
<1> QED
  BY <1>1 DEF EventQuiet, Ids

\* An operation that starts, or is freed, in the caller.
LEMMA StartQuiet ==
    ASSUME TypeInv, (\E q \in Queue : Started(q)) \/ (\E q \in Queue : FreedAtOnce(q, op[current[q]])),
           UNCHANGED <<tasks, event>>,
           \A p \in Queue : worker'[p] = worker[p] \/ worker'[p] # "pop",
           \A u \in Thread : \/ thread'[u] = thread[u]
                             \/ thread[u].at # "eventLocked" /\ thread'[u].at \notin Watching
    PROVE  EventQuiet
<1>1. \A p \in Queue : Len(tasks[p]) \in Nat
  BY TypeFacts
<1>2. Ids' = Ids \cup {NewId} /\ op'[NewId].kind = "task"
  <2>1. ASSUME NEW q \in Queue, Started(q)
        PROVE  Ids' = Ids \cup {NewId} /\ op'[NewId].kind = "task"
    BY <2>1 DEF Started
  <2>2. ASSUME NEW q \in Queue, FreedAtOnce(q, op[current[q]])
        PROVE  Ids' = Ids \cup {NewId} /\ op'[NewId].kind = "task"
    BY <2>2 DEF FreedAtOnce
  <2> QED
    BY <2>1, <2>2
<1> QED
  BY <1>1, <1>2 DEF EventQuiet

\* How a call that leaves events alone moves its thread.
LEMMA CallThread ==
    ASSUME TypeInv, NEW t \in Thread, NEW call, NEW q, NEW e, MayCall(t, call, q, e),
           NEW y, Called(t, y)
    PROVE  /\ thread[t].at = "idle" /\ thread'[t] = y
           /\ \A u \in Thread \ {t} : thread'[u] = thread[u]
  BY TypeFacts DEF MayCall, Called, Idle

\* Calls that enqueue no event.
LEMMA QuietCalls ==
    ASSUME IndInv, Grows, NEW t \in Thread, NEW q \in Queue,
           \/ SubmitAsync(t, q) \/ SubmitBlocking(t, q) \/ EnqueueDeferred(t, q)
           \/ WaitQueue(t, q) \/ DropQueue(t, q)
           \/ \E to \in Queue : KeepAlive(t, q, to)
    PROVE  EventQuiet
<1> USE DEF IndInv
<1>0. {} \in SUBSET Ids /\ None \in Event \cup Queue \cup {None} /\ 0 \in Nat
      /\ {"task", "keep"} \subseteq Kinds \ {"event"}
  BY DEF Kinds
<1>1. ASSUME NEW call, NEW p, NEW e, MayCall(t, call, p, e), NEW y, Called(t, y),
             y.at \notin Watching
      PROVE  \A u \in Thread : \/ thread'[u] = thread[u]
                               \/ thread[u].at # "eventLocked" /\ thread'[u].at \notin Watching
  BY <1>1, CallThread
<1>2. Idle.at \notin Watching
  BY DEF Idle, Watching
<1>3. CASE SubmitAsync(t, q)
  <2>1. /\ Post("task", q, None, 0, {}) /\ MayCall(t, "submit", q, None) /\ Called(t, Idle)
        /\ UNCHANGED <<event, worker>>
    BY <1>3 DEF SubmitAsync
  <2> QED
    BY <1>0, <1>1, <1>2, <2>1, PostQuiet
<1>4. ASSUME NEW to \in Queue \cup {None}, NEW kind \in {"task", "keep"}, NEW call,
             Deferred(t, q, to, call, kind)
      PROVE  EventQuiet
  <2>1. /\ Post(kind, q, to, 0, {}) /\ MayCall(t, call, q, to) /\ Called(t, Idle)
        /\ UNCHANGED <<event, worker>>
    BY <1>4 DEF Deferred
  <2> QED
    BY <1>0, <1>1, <1>2, <2>1, PostQuiet
<1>5. CASE SubmitBlocking(t, q)
  <2> DEFINE y == [Idle EXCEPT !.at = "running", !.q = q]
  <2>1. /\ StartBlocking(t, q) /\ MayCall(t, "submit", q, None) /\ Called(t, y)
        /\ UNCHANGED <<tasks, event, worker>>
    BY <1>5 DEF SubmitBlocking, callbackVars
  <2>2. y.at \notin Watching
    BY DEF Idle, Watching
  <2>3. Started(q)
    BY <2>1, StartEffect
  <2> HIDE DEF y
  <2> QED
    BY <1>1, <2>1, <2>2, <2>3, StartQuiet
<1>6. CASE WaitQueue(t, q)
  <2> DEFINE y == [Idle EXCEPT !.at = "waitQueues", !.q = q, !.rest = {q}, !.goal = need[q]]
  <2>1. /\ MayCall(t, "waitQueue", q, None) /\ Called(t, y) /\ UNCHANGED <<op, tasks, event, worker>>
    BY <1>6 DEF WaitQueue, callbackVars
  <2>2. y.at \notin Watching
    BY DEF Idle, Watching
  <2> HIDE DEF y
  <2> QED
    BY <1>1, <2>1, <2>2, SameOpQuiet
<1>7. CASE DropQueue(t, q)
  <2> DEFINE y == [Idle EXCEPT !.at = "join", !.q = q]
  <2>1. /\ MayCall(t, "drop", q, None) /\ Called(t, y) /\ UNCHANGED <<op, tasks, event, worker>>
    BY <1>7 DEF DropQueue, callbackVars
  <2>2. y.at \notin Watching
    BY DEF Idle, Watching
  <2> HIDE DEF y
  <2> QED
    BY <1>1, <2>1, <2>2, SameOpQuiet
<1> HIDE DEF IndInv
<1> QED
  BY <1>3, <1>4, <1>5, <1>6, <1>7 DEF EnqueueDeferred, KeepAlive

\* Waiting for the device, and an operation that is submitted within another.
LEMMA QuietThreadCalls ==
    ASSUME IndInv, Grows, NEW t \in Thread, WaitDevice(t) \/ SubmitNested(t)
    PROVE  EventQuiet
<1> USE DEF IndInv
<1>1. CASE WaitDevice(t)
  <2> DEFINE y == [Idle EXCEPT !.at = "waitQueues", !.rest = Queue,
                               !.goal = UNION {need[p] : p \in Queue}]
  <2>1. /\ MayCall(t, "waitDevice", None, None) /\ Called(t, y)
        /\ UNCHANGED <<op, tasks, event, worker>>
    BY <1>1 DEF WaitDevice, callbackVars
  <2>2. y.at \notin Watching
    BY DEF Idle, Watching
  <2> HIDE DEF y
  <2>3. \A u \in Thread : \/ thread'[u] = thread[u]
                          \/ thread[u].at # "eventLocked" /\ thread'[u].at \notin Watching
    BY <2>1, <2>2, CallThread
  <2> QED
    BY <2>1, <2>3, SameOpQuiet
<1>2. CASE SubmitNested(t)
  <2>1. thread[t].q \in Queue
    BY <1>2, HostQueueAssumption DEF SubmitNested, LockInv
  <2>2. /\ StartBlocking(t, thread[t].q) /\ UNCHANGED <<tasks, event, worker, thread>>
    BY <1>2 DEF SubmitNested, callbackVars
  <2>3. Started(thread[t].q)
    BY <2>1, <2>2, StartEffect
  <2> QED
    BY <2>1, <2>2, <2>3, StartQuiet
<1> QED
  BY <1>1, <1>2

\* Calls that await an event or ask for it.
LEMMA QuietEventCalls ==
    ASSUME IndInv, Grows, NEW t \in Thread, NEW e \in Event,
           \/ \E q \in Queue : WaitForReady(t, q, e) \/ WaitForAsync(t, q, e) \/ WaitForLock(t, q, e)
           \/ IsComplete(t, e) \/ WaitEvent(t, e)
    PROVE  EventQuiet
<1> USE DEF IndInv
<1>0. Idle.at \notin Watching
  BY DEF Idle, Watching
<1>1. ASSUME UNCHANGED <<op, tasks, event, worker>>, NEW call, NEW p, NEW x,
             MayCall(t, call, p, x), NEW y, Called(t, y), y.at \notin Watching \/ ThreadOf(t)'
      PROVE  EventQuiet
  <2>1. \A u \in Thread : \/ thread'[u] = thread[u]
                          \/ /\ thread[u].at # "eventLocked"
                             /\ thread'[u].at \notin Watching \/ ThreadOf(u)'
    BY <1>1, CallThread
  <2> QED
    BY <1>1, <2>1, SameOpQuiet
<1>c. Covered(event[e].future, event[e].covers)
  BY DEF EventInv
<1>2. ASSUME NEW q \in Queue, WaitForReady(t, q, e) PROVE EventQuiet
  BY <1>0, <1>1, <1>2 DEF WaitForReady, callbackVars
<1>3. ASSUME NEW q \in Queue, WaitForLock(t, q, e) PROVE EventQuiet
  <2> DEFINE y == [Idle EXCEPT !.at = "waitForLocked", !.q = q, !.e = e]
  <2>1. /\ MayCall(t, "waitFor", q, e) /\ Called(t, y) /\ UNCHANGED <<op, tasks, event, worker>>
    BY <1>3 DEF WaitForLock, callbackVars
  <2>2. y.at \notin Watching
    BY DEF Idle, Watching
  <2> HIDE DEF y
  <2> QED
    BY <1>1, <2>1, <2>2
<1>4. CASE IsComplete(t, e)
  BY <1>0, <1>1, <1>4 DEF IsComplete, callbackVars
<1>5. ASSUME NEW q \in Queue, WaitForAsync(t, q, e) PROVE EventQuiet
  <2> DEFINE y == [Idle EXCEPT !.at = "futureCopied", !.q = q, !.e = e,
                               !.future = event[e].future, !.goal = event[e].covers]
  <2>1. /\ MayCall(t, "waitFor", q, e) /\ Called(t, y) /\ q \notin Blocking
        /\ UNCHANGED <<op, tasks, event, worker, executed>>
    BY <1>5 DEF WaitForAsync, callbackVars
  <2>2. /\ y.at = "futureCopied" /\ y.q = q /\ y.future = event[e].future
        /\ y.goal = event[e].covers
    BY DEF Idle
  <2> HIDE DEF y
  <2>3. thread'[t] = y
    BY <2>1, CallThread
  <2>4. Covered(thread[t].future, thread[t].goal)'
    BY <1>c, <2>1, <2>2, <2>3 DEF Covered, Ids
  <2>5. ThreadOf(t)'
    BY <2>1, <2>2, <2>3, <2>4 DEF ThreadOf
  <2> QED
    BY <1>1, <2>1, <2>5
<1>6. CASE WaitEvent(t, e)
  <2> DEFINE y == [Idle EXCEPT !.at = "waitEvent", !.e = e, !.future = event[e].future,
                               !.count = event[e].count, !.goal = event[e].covers]
  <2>1. /\ MayCall(t, "waitEvent", None, e) /\ (Called(t, y) \/ Called(t, Idle))
        /\ UNCHANGED <<op, tasks, event, worker, executed>>
    BY <1>6 DEF WaitEvent, callbackVars
  <2>2. /\ y.at = "waitEvent" /\ y.e = e /\ y.future = event[e].future
        /\ y.goal = event[e].covers
    BY DEF Idle
  <2> HIDE DEF y
  <2>3. CASE Called(t, y)
    <3>1. thread'[t] = y
      BY <2>1, <2>3, CallThread
    <3>2. Covered(thread[t].future, thread[t].goal)'
      BY <1>c, <2>1, <2>2, <3>1 DEF Covered, Ids
    <3>3. ThreadOf(t)'
      BY <2>2, <3>1, <3>2 DEF ThreadOf
    <3> QED
      BY <1>1, <2>1, <2>3, <3>3
  <2>4. CASE Called(t, Idle)
    BY <1>0, <1>1, <2>1, <2>4
  <2> QED
    BY <2>1, <2>3, <2>4
<1> HIDE DEF IndInv
<1> QED
  BY <1>2, <1>3, <1>4, <1>5, <1>6

\* Steps inside a call, unless the call enqueues an event.
LEMMA QuietProceeds ==
    ASSUME IndInv, Grows, NEW t \in Thread,
           \/ FinishBlocking(t) \/ WaitForSubmit(t) \/ WaitForBlocking(t) \/ WaitForReturns(t)
           \/ WaitEventLoop(t) \/ MarkerReturns(t) \/ WaitQueuesReturns(t) \/ DropReturns(t)
           \/ \E q \in Queue : SkipQueue(t, q) \/ SubmitMarker(t, q)
    PROVE  EventQuiet
<1> USE DEF IndInv
<1>0. Idle.at \notin Watching /\ "waitFor" \in Kinds \ {"event"} /\ "marker" \in Kinds \ {"event"}
      /\ {} \in SUBSET Ids /\ None \in Event \cup Queue \cup {None} /\ 0 \in Nat
  BY DEF Idle, Watching, Kinds
<1>t. /\ thread \in [Thread -> ThreadType] /\ thread[t] \in ThreadType
      /\ thread[t].goal \in SUBSET Ids
      /\ thread[t].future \in Nat /\ thread[t].e \in Event \cup Queue \cup {None}
  BY TypeFacts, ThreadStates
<1>1. ASSUME thread[t].at # "eventLocked", NEW y, thread' = [thread EXCEPT ![t] = y],
             y.at \notin Watching \/ ThreadOf(t)'
      PROVE  \A u \in Thread : \/ thread'[u] = thread[u]
                               \/ /\ thread[u].at # "eventLocked"
                                  /\ thread'[u].at \notin Watching \/ ThreadOf(u)'
  BY <1>t, <1>1
<1>2. ASSUME UNCHANGED <<op, tasks, event, worker>>, thread[t].at # "eventLocked", NEW y,
             thread' = [thread EXCEPT ![t] = y], y.at \notin Watching \/ ThreadOf(t)'
      PROVE  EventQuiet
  BY <1>1, <1>2, SameOpQuiet
<1>3. CASE FinishBlocking(t)
  <2>1. /\ UNCHANGED <<op, tasks, event, worker>> /\ thread[t].at # "eventLocked"
        /\ (thread' = thread \/ thread' = [thread EXCEPT ![t] = Idle])
    BY <1>3 DEF FinishBlocking, callbackVars
  <2>2. CASE thread' = thread
    BY <2>1, <2>2, SameOpQuiet
  <2> QED
    BY <1>0, <1>2, <2>1, <2>2
<1>4. CASE WaitForSubmit(t)
  <2> DEFINE q == thread[t].q
  <2>1. /\ Post("waitFor", q, thread[t].e, thread[t].future, thread[t].goal)
        /\ thread[t].at = "futureCopied" /\ thread' = [thread EXCEPT ![t] = Idle]
        /\ UNCHANGED <<event, worker>>
    BY <1>4 DEF WaitForSubmit
  <2>2. q \in Queue
    BY <2>1 DEF EventInv
  <2>3. \A u \in Thread : \/ thread'[u] = thread[u]
                          \/ thread[u].at # "eventLocked" /\ thread'[u].at \notin Watching
    BY <1>0, <1>t, <2>1
  <2> HIDE DEF q
  <2> QED
    BY <1>0, <1>t, <2>1, <2>2, <2>3, PostQuiet
<1>5. CASE WaitForBlocking(t)
  <2> DEFINE e == thread[t].e
             y == [thread[t] EXCEPT !.at = "waitForFuture", !.future = event[e].future,
                                    !.goal = event[e].covers]
  <2>1. /\ thread[t].at = "waitForLocked" /\ thread' = [thread EXCEPT ![t] = y]
        /\ UNCHANGED <<op, tasks, event, worker, executed>>
    BY <1>5 DEF WaitForBlocking, callbackVars
  <2>2. e \in Event
    BY <2>1 DEF LockInv
  <2>3. y.at = "waitForFuture" /\ y.future = event[e].future /\ y.goal = event[e].covers
    BY <1>t DEF ThreadType
  <2>4. Covered(event[e].future, event[e].covers)
    BY <2>2 DEF EventInv
  <2> HIDE DEF y, e
  <2>5. thread'[t] = y
    BY <1>t, <2>1
  <2>6. Covered(thread[t].future, thread[t].goal)'
    BY <2>1, <2>3, <2>4, <2>5 DEF Covered, Ids
  <2>7. ThreadOf(t)'
    BY <2>3, <2>5, <2>6 DEF ThreadOf
  <2> QED
    BY <1>2, <2>1, <2>7
<1>6. CASE WaitForReturns(t) \/ WaitQueuesReturns(t) \/ DropReturns(t)
  <2>1. /\ UNCHANGED <<op, tasks, event, worker>> /\ thread[t].at # "eventLocked"
        /\ thread' = [thread EXCEPT ![t] = Idle]
    BY <1>6 DEF WaitForReturns, WaitQueuesReturns, DropReturns, callbackVars
  <2> QED
    BY <1>0, <1>2, <2>1
<1>7. CASE WaitEventLoop(t)
  <2> DEFINE f == event[thread[t].e].future
             y == [thread[t] EXCEPT !.future = f]
  <2>1. /\ thread[t].at = "waitEvent" /\ IsSet(thread[t].future)
        /\ (thread' = [thread EXCEPT ![t] = y] \/ thread' = [thread EXCEPT ![t] = Idle])
        /\ UNCHANGED <<op, tasks, event, worker, executed>>
    BY <1>7 DEF WaitEventLoop, callbackVars
  <2>2. thread[t].goal \subseteq executed /\ thread[t].e \in Event
    <3>1. Covered(thread[t].future, thread[t].goal) /\ thread[t].e \in Event
      BY <2>1 DEF EventInv
    <3> QED
      BY <1>t, <2>1, <3>1, SetFuture DEF OrderInv
  <2> HIDE DEF f
  <2>3. y.at = "waitEvent" /\ y.goal = thread[t].goal /\ y.e = thread[t].e
    BY <1>t, <2>1 DEF ThreadType
  <2> HIDE DEF y
  <2>4. CASE thread' = [thread EXCEPT ![t] = y]
    <3>1. thread'[t] = y
      BY <1>t, <2>4
    <3>2. Covered(thread[t].future, thread[t].goal)'
      BY <2>1, <2>2, <2>3, <3>1 DEF Covered
    <3>3. ThreadOf(t)'
      BY <2>2, <2>3, <3>1, <3>2 DEF ThreadOf
    <3> QED
      BY <1>2, <2>1, <2>4, <3>3
  <2>5. CASE thread' = [thread EXCEPT ![t] = Idle]
    BY <1>0, <1>2, <2>1, <2>5
  <2> QED
    BY <2>1, <2>4, <2>5
<1>8. CASE MarkerReturns(t)
  <2> DEFINE y == [thread[t] EXCEPT !.at = "waitQueues", !.q = None, !.future = 0]
  <2>1. /\ thread[t].at = "marker" /\ thread' = [thread EXCEPT ![t] = y]
        /\ UNCHANGED <<op, tasks, event, worker>>
    BY <1>8 DEF MarkerReturns, callbackVars
  <2>2. y.at \notin Watching
    BY <1>t DEF ThreadType, Watching
  <2> HIDE DEF y
  <2> QED
    BY <1>2, <2>1, <2>2
<1>9. ASSUME NEW q \in Queue, SkipQueue(t, q) PROVE EventQuiet
  <2> DEFINE y == [thread[t] EXCEPT !.rest = @ \ {q}]
  <2>1. /\ thread[t].at = "waitQueues" /\ thread' = [thread EXCEPT ![t] = y]
        /\ UNCHANGED <<op, tasks, event, worker>>
    BY <1>9 DEF SkipQueue, callbackVars
  <2>2. y.at \notin Watching
    BY <1>t, <2>1 DEF ThreadType, Watching
  <2> HIDE DEF y
  <2> QED
    BY <1>2, <2>1, <2>2
<1>10. ASSUME NEW q \in Queue, SubmitMarker(t, q) PROVE EventQuiet
  <2> DEFINE y == [thread[t] EXCEPT !.at = "marker", !.q = q, !.rest = @ \ {q},
                                    !.future = IF q \in Blocking THEN 0 ELSE NewId]
  <2>1. /\ thread[t].at = "waitQueues" /\ thread' = [thread EXCEPT ![t] = y]
        /\ UNCHANGED <<event, worker>>
        /\ \/ UNCHANGED <<op, tasks>>
           \/ Post("marker", q, None, 0, {})
    <3>1. thread' = [thread EXCEPT ![t] = y]
      BY <1>10, <1>t DEF SubmitMarker
    <3>2. thread[t].at = "waitQueues" /\ UNCHANGED <<event, worker>>
      BY <1>10 DEF SubmitMarker
    <3>3. UNCHANGED <<op, tasks>> \/ Post("marker", q, None, 0, {})
      BY <1>10 DEF SubmitMarker
    <3> QED
      BY <3>1, <3>2, <3>3
  <2>2. y.at \notin Watching
    BY <1>t DEF ThreadType, Watching
  <2> HIDE DEF y
  <2>3. \A u \in Thread : \/ thread'[u] = thread[u]
                          \/ thread[u].at # "eventLocked" /\ thread'[u].at \notin Watching
    BY <1>t, <2>1, <2>2
  <2>4. CASE UNCHANGED <<op, tasks>>
    BY <1>2, <2>1, <2>2, <2>4
  <2>5. CASE Post("marker", q, None, 0, {})
    BY <1>0, <2>1, <2>3, <2>5, PostQuiet
  <2> QED
    BY <2>1, <2>4, <2>5
<1> HIDE DEF IndInv
<1> QED
  BY <1>3, <1>4, <1>5, <1>6, <1>7, <1>8, <1>9, <1>10

\* Steps of a callback thread that execute and pop nothing.
LEMMA QuietWork ==
    ASSUME IndInv, Grows, NEW q \in Queue,
           WorkerSet(q) \/ WorkerFreeAsync(q) \/ WorkerFreeBlocking(q)
    PROVE  EventQuiet
<1> USE DEF IndInv
<1>0. worker \in [Queue -> {"idle", "pop", "destroy", "set"}]
  BY TypeFacts
<1>1. CASE WorkerSet(q)
  <2>1. UNCHANGED <<op, tasks, event, thread>> /\ worker' = [worker EXCEPT ![q] = "idle"]
    BY <1>1 DEF WorkerSet
  <2>2. \A p \in Queue : worker'[p] = worker[p] \/ worker'[p] # "pop"
    BY <1>0, <2>1
  <2> QED
    BY <2>1, <2>2, SameOpQuiet
<1>2. CASE WorkerFreeAsync(q)
  <2> DEFINE k == op[current[q]]
  <2>1. /\ worker[q] = "destroy"
        /\ Post("task", k.e, None, 0, k.before)
        /\ worker' = [worker EXCEPT ![q] = "set"] /\ UNCHANGED <<event, thread>>
    BY <1>2 DEF WorkerFreeAsync
  <2>2. k.e \in Queue /\ k.before \in SUBSET Ids
    <3>1. current[q] \in Ids /\ k.kind = "keep"
      BY <2>1, TypeFacts DEF WorkerInv
    <3> QED
      BY <3>1 DEF TypeInv
  <2>3. \A p \in Queue : worker'[p] = worker[p] \/ worker'[p] # "pop"
    BY <1>0, <2>1
  <2>4. "task" \in Kinds \ {"event"} /\ None \in Event \cup Queue \cup {None} /\ 0 \in Nat
    BY DEF Kinds
  <2> HIDE DEF k
  <2> QED
    BY <2>1, <2>2, <2>3, <2>4, PostQuiet
<1>3. CASE WorkerFreeBlocking(q)
  <2>1. FreedAtOnce(q, op[current[q]])
    BY <1>3, FreeBlockingEffect
  <2>2. UNCHANGED <<tasks, event, thread>> /\ worker' = [worker EXCEPT ![q] = "set"]
    BY <2>1 DEF FreedAtOnce
  <2>3. \A p \in Queue : worker'[p] = worker[p] \/ worker'[p] # "pop"
    BY <1>0, <2>2
  <2> QED
    BY <2>1, <2>2, <2>3, StartQuiet
<1> QED
  BY <1>1, <1>2, <1>3

\* The other events, and the threads that enqueue them, do not see a step that
\* changes the count, the future or the readiness of one event only.
LEMMA OtherEvents ==
    ASSUME TypeInv, EventInv, Grows, NEW e \in Event,
           \A x \in Event \ {e} : event'[x] = event[x],
           \A i \in Ids' \ Ids : op'[i].kind = "event" => op'[i].e = e
    PROVE  /\ \A x \in Event \ {e} : EventOf(x)'
           /\ \A i \in Ids : (op[i].kind = "event" => op[i].e # e) => NumberOf(i)'
           /\ \A u \in Thread :
                 thread'[u] = thread[u] /\ (thread[u].at = "eventLocked" =>
                                              thread[u].e \in Event \ {e})
                 => ThreadOf(u)'
<1>1. \A x \in Event \ {e} : EventOf(x)'
  BY EventParts, EventSame
<1>2. ASSUME NEW i \in Ids, op[i].kind = "event" => op[i].e # e PROVE NumberOf(i)'
  <2>1. op[i].kind = "event" => op[i].e \in Event \ {e}
    BY <1>2 DEF TypeInv
  <2> QED
    BY <2>1, EventParts, NumberSame
<1>3. ASSUME NEW u \in Thread, thread'[u] = thread[u],
             thread[u].at = "eventLocked" => thread[u].e \in Event \ {e}
      PROVE  ThreadOf(u)'
  BY <1>3, EventParts, ThreadSame
<1> QED
  BY <1>1, <1>2, <1>3

\* the task of the last enqueue of x
Announces(i, x) == op[i].kind = "event" /\ op[i].e = x /\ op[i].number = event[x].count

\* What is pending for an event still is when its last task is not the front
\* that starts to run.
LEMMA PendingSame ==
    ASSUME TypeInv, TypeInv', WorkerInv, Grows, NEW x \in Event, Pending(x), event'[x] = event[x],
           \A u \in Thread : thread[u].at = "eventLocked" /\ thread[u].e = x =>
                                 thread'[u].at = "eventLocked" /\ thread'[u].e = x,
           \A q \in Queue : /\ Len(tasks[q]) <= Len(tasks'[q])
                            /\ \A n \in 1..Len(tasks[q]) : tasks'[q][n] = tasks[q][n]
                            /\ \/ worker'[q] = worker[q] \/ worker'[q] # "pop"
                               \/ ~Announces(tasks[q][1], x)
    PROVE  Pending(x)'
<1>0. /\ \A i \in Ids : op'[i] = op[i]
      /\ \A q \in Queue : \A n \in 1..Len(tasks[q]) : tasks[q][n] \in Ids
      /\ \A q \in Queue : Len(tasks[q]) \in Nat
      /\ \A q \in Queue : Len(tasks'[q]) \in Nat
  BY DEF Grows, WorkerInv, TypeInv, TypeOK
<1>1. ASSUME NEW u \in Thread, thread[u].at = "eventLocked", thread[u].e = x PROVE Pending(x)'
  BY <1>1 DEF Pending
<1>2. ASSUME NEW q \in Queue, NEW n \in 1..Len(tasks[q]),
             op[tasks[q][n]].kind = "event", op[tasks[q][n]].e = x,
             op[tasks[q][n]].number = event[x].count, n = 1 => worker[q] # "pop"
      PROVE  Pending(x)'
  <2>1. tasks'[q][n] = tasks[q][n] /\ op'[tasks[q][n]] = op[tasks[q][n]]
    BY <1>0
  <2>2. n \in 1..Len(tasks'[q])
    BY <1>0
  <2>3. n = 1 => worker'[q] # "pop"
    BY <1>2 DEF Announces
  <2> QED
    BY <1>2, <2>1, <2>2, <2>3 DEF Pending
<1> QED
  BY <1>1, <1>2 DEF Pending

\* The number of an operation: of the enqueue, or the future that is awaited.
LEMMA NumberNat == ASSUME TypeInv, NEW k \in Ids PROVE op[k].number \in Nat
<1>1. op \in Seq(OpType)
  BY DEF TypeInv, TypeOK, OpType, Kinds
<1>2. op[k] \in OpType
  BY <1>1 DEF Ids
<1> QED
  BY <1>2 DEF OpType

\* An event is enqueued in a non-blocking queue: its future is the task's, which
\* comes after all that the queue needs.
LEMMA EnqueueAsyncKeeps ==
    ASSUME IndInv, TypeInv', Grows, NEW t \in Thread, NEW q \in Queue, NEW e \in Event,
           EnqueueEventAsync(t, q, e)
    PROVE  EventInv' /\ PendingInv'
<1> USE DEF IndInv
<1>i. PICK i : i = NewId
  OBVIOUS
<1>c. PICK c \in Nat : c = event[e].count
  BY TypeFacts
<1>n. PICK n \in Nat : n = Len(tasks[q])
  BY TypeFacts
<1>1. /\ eLock[e] = None
      /\ event' = [event EXCEPT ![e] = [count |-> c + 1, last |-> event[e].last, future |-> i,
                                        covers |-> need[q]]]
      /\ Post("event", q, e, c + 1, {})
      /\ MayCall(t, "event", q, e) /\ Called(t, Idle)
      /\ UNCHANGED <<worker, executed>>
  BY <1>i, <1>c DEF EnqueueEventAsync
<1>2. Posted("event", q, e, c + 1, {})
  <2>1. "event" \in Kinds /\ e \in Event \cup Queue \cup {None} /\ c + 1 \in Nat /\ {} \in SUBSET Ids
    BY DEF Kinds
  <2> QED
    BY <1>1, <2>1, PostEffect
<1>3. /\ Ids' = Ids \cup {i} /\ i \notin Ids
      /\ op'[i].kind = "event" /\ op'[i].e = e /\ op'[i].number = c + 1
      /\ op'[i].before = need[q]
      /\ \A k \in Ids : op'[k] = op[k]
  BY <1>2, <1>i DEF Posted
<1>4. /\ Len(tasks'[q]) = n + 1
      /\ \A m \in 1..n : tasks'[q][m] = tasks[q][m]
      /\ tasks'[q][n + 1] = i
      /\ \A p \in Queue \ {q} : tasks'[p] = tasks[p]
  BY <1>2, <1>i, <1>n DEF Posted
<1>5. /\ event'[e].count = c + 1 /\ event'[e].last = event[e].last /\ event'[e].future = i
      /\ event'[e].covers = need[q]
      /\ \A x \in Event \ {e} : event'[x] = event[x]
      /\ event[e].last \in Nat /\ event[e].last <= c
  BY <1>1, <1>c, TypeFacts DEF EventInv
<1>6. \A u \in Thread : thread'[u] = thread[u] \/ (thread[u].at = "idle" /\ thread'[u].at = "idle")
  BY <1>1, CallThread DEF Idle
<1>7. EventOf(e)'
  <2>1. event'[e].last <= event'[e].count /\ event'[e].last # event'[e].count
    BY <1>5
  <2>2. Covered(event[e].future, event[e].covers)'
    BY <1>3, <1>5 DEF Covered
  <2> QED
    BY <2>1, <2>2 DEF EventOf, IsReady
<1>8. \A u \in Thread : thread[u].at = "eventLocked" => thread[u].e \in Event \ {e}
  BY <1>1, HostQueueAssumption DEF LockInv
<1>9. ASSUME NEW k \in Ids' PROVE NumberOf(k)'
  <2>1. CASE k = i
    BY <1>3, <1>5, <2>1 DEF NumberOf
  <2>2. CASE k \in Ids /\ op[k].kind = "event" /\ op[k].e = e
    <3>1. op[k].number <= c
      BY <1>c, <2>2 DEF EventInv
    <3>2. op[k].number \in Nat
      BY <2>2, NumberNat
    <3> QED
      BY <1>3, <1>5, <2>2, <3>1, <3>2 DEF NumberOf
  <2>3. CASE k \in Ids /\ (op[k].kind = "event" => op[k].e # e)
    BY <1>3, <1>5, <2>3, OtherEvents
  <2> QED
    BY <1>3, <2>1, <2>2, <2>3
<1>10. ASSUME NEW u \in Thread PROVE ThreadOf(u)'
  <2>1. CASE thread'[u] = thread[u]
    BY <1>3, <1>5, <1>8, <2>1, OtherEvents
  <2>2. CASE thread'[u].at = "idle"
    BY <2>2, ThreadElsewhere DEF Watching
  <2> QED
    BY <1>6, <2>1, <2>2
<1>11. EventInv'
  <2>1. \A x \in Event : EventOf(x)'
    BY <1>3, <1>5, <1>7, OtherEvents
  <2> QED
    BY <2>1, <1>9, <1>10 DEF EventInv, EventOf, NumberOf, ThreadOf
<1>12. Pending(e)'
  <2>1. n + 1 = 1 => worker[q] # "pop"
    <3>0. tasks[q] \in Seq(Nat)
      BY TypeFacts
    <3>1. n = 0 => tasks[q] = <<>>
      BY <1>n, <3>0, TailElements
    <3> QED
      BY <3>1 DEF WorkerInv
  <2>2. n + 1 \in 1..Len(tasks'[q])
    BY <1>4
  <2> QED
    BY <1>1, <1>3, <1>4, <1>5, <2>1, <2>2 DEF Pending
<1>13. ASSUME NEW x \in Event \ {e}, ~IsReady(x)' PROVE Pending(x)'
  <2>1. Pending(x)
    BY <1>5, <1>13, EventParts DEF IsReady
  <2>2. ASSUME NEW p \in Queue
        PROVE  /\ Len(tasks[p]) <= Len(tasks'[p])
               /\ \A m \in 1..Len(tasks[p]) : tasks'[p][m] = tasks[p][m]
    <3>1. Len(tasks[p]) \in Nat
      BY TypeFacts
    <3>2. CASE p = q
      BY <1>n, <1>4, <3>2
    <3>3. CASE p # q
      <4>1. tasks'[p] = tasks[p]
        BY <1>4, <3>3
      <4> QED
        BY <3>1, <4>1
    <3> QED
      BY <3>2, <3>3
  <2> QED
    BY <1>1, <1>5, <1>6, <2>1, <2>2, PendingSame
<1>14. PendingInv'
  BY <1>12, <1>13 DEF PendingInv, Pending
<1> QED
  BY <1>11, <1>14

\* An event is enqueued in a blocking queue: it is not ready, and its lock is
\* held, until the queue's mutex is free.
LEMMA EnqueueLockKeeps ==
    ASSUME IndInv, TypeInv', Grows, NEW t \in Thread, NEW q \in Queue, NEW e \in Event,
           EnqueueEventLock(t, q, e)
    PROVE  EventInv' /\ PendingInv'
<1> USE DEF IndInv
<1>c. PICK c \in Nat : c = event[e].count
  BY TypeFacts
<1> DEFINE y == [Idle EXCEPT !.at = "eventLocked", !.q = q, !.e = e]
<1>1. /\ eLock[e] = None
      /\ event' = [event EXCEPT ![e].count = c + 1]
      /\ MayCall(t, "event", q, e) /\ Called(t, y)
      /\ UNCHANGED <<op, tasks, worker, executed>>
  BY <1>c DEF EnqueueEventLock, callbackVars
<1>2. y.at = "eventLocked" /\ y.e = e
  BY DEF Idle
<1> HIDE DEF y
<1>3. /\ thread[t].at = "idle" /\ thread'[t].at = "eventLocked" /\ thread'[t].e = e
      /\ \A u \in Thread \ {t} : thread'[u] = thread[u]
  BY <1>1, <1>2, CallThread
<1>4. Ids' = Ids
  BY <1>1 DEF Ids
<1>5. /\ event'[e].count = c + 1 /\ event'[e].last = event[e].last
      /\ event'[e].future = event[e].future /\ event'[e].covers = event[e].covers
      /\ \A x \in Event \ {e} : event'[x] = event[x]
      /\ event[e].last \in Nat /\ event[e].last <= c
      /\ Covered(event[e].future, event[e].covers)
  <2>1. event \in [Event -> [count : Nat, last : Nat, future : Nat, covers : SUBSET Nat]]
    BY TypeFacts
  <2> QED
    BY <1>1, <1>c, <2>1 DEF EventInv
<1>6. EventOf(e)'
  <2>1. event'[e].last <= event'[e].count /\ event'[e].last # event'[e].count
    BY <1>5
  <2>2. Covered(event[e].future, event[e].covers)'
    BY <1>1, <1>4, <1>5 DEF Covered
  <2> QED
    BY <2>1, <2>2 DEF EventOf, IsReady
<1>7. \A k \in Ids : op[k].kind = "event" /\ op[k].e = e => op[k].number <= c /\ op[k].number \in Nat
  BY <1>c, NumberNat DEF EventInv
<1>8. ASSUME NEW k \in Ids' PROVE NumberOf(k)'
  <2>1. CASE op[k].kind = "event" /\ op[k].e = e
    BY <1>1, <1>4, <1>5, <1>7, <2>1 DEF NumberOf
  <2>2. CASE op[k].kind = "event" => op[k].e # e
    BY <1>4, <1>5, <2>2, OtherEvents
  <2> QED
    BY <2>1, <2>2
<1>9. \A u \in Thread : thread[u].at = "eventLocked" => thread[u].e \in Event \ {e}
  BY <1>1, HostQueueAssumption DEF LockInv
<1>10. ASSUME NEW u \in Thread PROVE ThreadOf(u)'
  <2>1. CASE u # t
    BY <1>3, <1>4, <1>5, <1>9, <2>1, OtherEvents
  <2>2. CASE u = t
    BY <1>1, <1>3, <1>4, <1>5, <1>7, <2>2 DEF ThreadOf
  <2> QED
    BY <2>1, <2>2
<1>11. EventInv'
  <2>1. \A x \in Event : EventOf(x)'
    BY <1>4, <1>5, <1>6, OtherEvents
  <2> QED
    BY <2>1, <1>8, <1>10 DEF EventInv, EventOf, NumberOf, ThreadOf
<1>12. Pending(e)'
  BY <1>3 DEF Pending
<1>13. ASSUME NEW x \in Event \ {e}, ~IsReady(x)' PROVE Pending(x)'
  <2>1. Pending(x)
    BY <1>5, <1>13, EventParts DEF IsReady
  <2>2. \A p \in Queue : Len(tasks[p]) \in Nat
    BY TypeFacts
  <2> QED
    BY <1>1, <1>3, <1>5, <2>1, <2>2, PendingSame
<1>14. PendingInv'
  BY <1>12, <1>13 DEF PendingInv, Pending
<1> QED
  BY <1>11, <1>14

\* The mutex is free: nothing runs in the blocking queue, so that the event is
\* ready at once.
LEMMA EnqueueBlockingKeeps ==
    ASSUME IndInv, TypeInv', Grows, NEW t \in Thread, EnqueueEventBlocking(t)
    PROVE  EventInv' /\ PendingInv'
<1> USE DEF IndInv
<1>e. PICK e : e = thread[t].e
  OBVIOUS
<1>q. PICK q : q = thread[t].q
  OBVIOUS
<1>1. /\ thread[t].at = "eventLocked" /\ qLock[q] = None
      /\ event' = [event EXCEPT ![e] = [count |-> event[e].count, last |-> event[e].count,
                                        future |-> 0, covers |-> need[q]]]
      /\ thread' = [thread EXCEPT ![t] = Idle]
      /\ UNCHANGED <<op, tasks, worker, executed>>
  BY <1>e, <1>q DEF EnqueueEventBlocking, callbackVars
<1>2. q \in Queue /\ q \in Blocking /\ e \in Event /\ eLock[e] = t
  BY <1>1, <1>e, <1>q, HostQueueAssumption DEF LockInv
<1>c. PICK c \in Nat : c = event[e].count
  BY <1>2, TypeFacts
<1>3. need[q] \subseteq executed
  BY <1>1, <1>2, QuietQueue
<1>4. Ids' = Ids
  BY <1>1 DEF Ids
<1>5. /\ event'[e].count = c /\ event'[e].last = c /\ event'[e].future = 0
      /\ event'[e].covers = need[q]
      /\ \A x \in Event \ {e} : event'[x] = event[x]
  BY <1>1, <1>2, <1>c, TypeFacts
<1>6. EventOf(e)'
  <2>1. event'[e].last <= event'[e].count
    BY <1>5
  <2>2. Covered(event[e].future, event[e].covers)' /\ event'[e].covers \subseteq executed'
    BY <1>1, <1>3, <1>5 DEF Covered
  <2> QED
    BY <2>1, <2>2 DEF EventOf, IsReady
<1>7. ASSUME NEW k \in Ids' PROVE NumberOf(k)'
  <2>1. CASE op[k].kind = "event" /\ op[k].e = e
    <3>1. op[k].number < c /\ op[k].number \in Nat
      BY <1>1, <1>e, <1>c, <1>4, <2>1, NumberNat DEF EventInv
    <3> QED
      BY <1>1, <1>4, <1>5, <2>1, <3>1 DEF NumberOf
  <2>2. CASE op[k].kind = "event" => op[k].e # e
    BY <1>2, <1>4, <1>5, <2>2, OtherEvents
  <2> QED
    BY <2>1, <2>2
<1>8. \A u \in Thread \ {t} : thread[u].at = "eventLocked" => thread[u].e \in Event \ {e}
  BY <1>2 DEF LockInv
<1>t. thread'[t] = Idle /\ \A u \in Thread \ {t} : thread'[u] = thread[u]
  BY <1>1, TypeFacts
<1>9. ASSUME NEW u \in Thread PROVE ThreadOf(u)'
  <2>1. CASE u # t
    BY <1>2, <1>t, <1>4, <1>5, <1>8, <2>1, OtherEvents
  <2>2. CASE u = t
    BY <1>t, <2>2, ThreadElsewhere DEF Watching, Idle
  <2> QED
    BY <2>1, <2>2
<1>10. EventInv'
  <2>1. \A x \in Event : EventOf(x)'
    BY <1>2, <1>4, <1>5, <1>6, OtherEvents
  <2> QED
    BY <2>1, <1>7, <1>9 DEF EventInv, EventOf, NumberOf, ThreadOf
<1>11. ASSUME NEW x \in Event, ~IsReady(x)' PROVE Pending(x)'
  <2>0. x # e
    BY <1>5, <1>11 DEF IsReady
  <2>1. Pending(x)
    BY <1>5, <1>11, <2>0, EventParts DEF IsReady
  <2>2. \A p \in Queue : Len(tasks[p]) \in Nat
    BY TypeFacts
  <2> QED
    BY <1>1, <1>e, <1>t, <1>5, <2>0, <2>1, <2>2, PendingSame
<1>12. PendingInv'
  BY <1>11 DEF PendingInv, Pending
<1> QED
  BY <1>10, <1>12

\* Threads, operations and events stay.
LEMMA EventInvSame ==
    ASSUME EventInv, Grows, UNCHANGED <<op, event, thread>>
    PROVE  EventInv'
<1>1. Ids' = Ids
  BY DEF Ids
<1>2. \A x \in Event : EventOf(x)'
  BY EventParts, EventSame
<1>3. \A i \in Ids' : NumberOf(i)'
  BY <1>1, EventParts, NumberSame
<1>4. \A u \in Thread : ThreadOf(u)'
  BY <1>1, EventParts, ThreadSame
<1> QED
  BY <1>2, <1>3, <1>4 DEF EventInv, EventOf, NumberOf, ThreadOf

\* A task that is no event's announces none.
LEMMA RunKeeps ==
    ASSUME IndInv, TypeInv', Grows, NEW q \in Queue, WorkerRun(q)
    PROVE  EventInv' /\ PendingInv'
<1> USE DEF IndInv
<1>1. /\ worker[q] = "idle" /\ tasks[q] # <<>> /\ op[Head(tasks[q])].kind # "event"
      /\ worker' = [worker EXCEPT ![q] = "pop"]
      /\ UNCHANGED <<op, tasks, event, thread>>
  BY DEF WorkerRun
<1>2. EventInv'
  BY <1>1, EventInvSame
<1>3. Head(tasks[q]) = tasks[q][1] /\ \A p \in Queue : Len(tasks[p]) \in Nat
  <2>1. tasks \in [Queue -> Seq(Nat)]
    BY TypeFacts
  <2> QED
    BY <1>1, <2>1, TailElements
<1>4. \A p \in Queue \ {q} : worker'[p] = worker[p]
  BY <1>1, TypeFacts
<1>5. ASSUME NEW x \in Event, ~IsReady(x)' PROVE Pending(x)'
  <2>1. Pending(x)
    BY <1>1, <1>5, EventParts DEF IsReady
  <2>2. ~Announces(tasks[q][1], x)
    BY <1>1, <1>3 DEF Announces
  <2> QED
    BY <1>1, <1>3, <1>4, <2>1, <2>2, PendingSame
<1>6. PendingInv'
  BY <1>5 DEF PendingInv, Pending
<1> QED
  BY <1>2, <1>6

\* An event's task that was not superseded signals it: the event's future is
\* the task's, and what comes before the task is executed.
LEMMA SignalKeeps ==
    ASSUME IndInv, TypeInv', OrderInv', Grows, NEW q \in Queue, WorkerRunEvent(q)
    PROVE  EventInv' /\ PendingInv'
<1> USE DEF IndInv
<1>i. PICK i : i = Head(tasks[q])
  OBVIOUS
<1>e. PICK e : e = op[i].e
  OBVIOUS
<1>1. /\ worker[q] = "idle" /\ tasks[q] # <<>> /\ op[i].kind = "event" /\ eLock[e] = None
      /\ event' = SignalledEvent(e, op[i].number)
      /\ executed' = executed \cup {i}
      /\ worker' = [worker EXCEPT ![q] = "pop"]
      /\ UNCHANGED <<op, tasks, thread>>
  BY <1>i, <1>e DEF WorkerRunEvent
<1>2. tasks[q][1] = i /\ i \in Ids /\ \A p \in Queue : Len(tasks[p]) \in Nat
  <2>1. tasks \in [Queue -> Seq(Nat)]
    BY TypeFacts
  <2>2. Head(tasks[q]) = tasks[q][1] /\ 1 \in 1..Len(tasks[q])
    BY <1>1, <2>1, TailElements
  <2> QED
    BY <1>i, <2>1, <2>2 DEF WorkerInv
<1>3. e \in Event
  BY <1>1, <1>e, <1>2 DEF TypeInv
<1>c. PICK c \in Nat : c = event[e].count
  BY <1>3, TypeFacts
<1>4. Ids' = Ids
  BY <1>1 DEF Ids
<1>5. \A p \in Queue \ {q} : worker'[p] = worker[p]
  BY <1>1, TypeFacts
<1>6. CASE op[i].number = c
  <2>1. event' = [event EXCEPT ![e].last = c]
    BY <1>1, <1>c, <1>6 DEF SignalledEvent
  <2>2. /\ event'[e].count = c /\ event'[e].last = c /\ event'[e].future = event[e].future
        /\ event'[e].covers = event[e].covers
        /\ \A x \in Event \ {e} : event'[x] = event[x]
    BY <1>3, <1>c, <2>1, TypeFacts
  <2>3. event[e].covers \subseteq executed'
    <3>1. event[e].future = i
      BY <1>1, <1>2, <1>e, <1>c, <1>6 DEF EventInv
    <3>2. op[i].before \subseteq executed'
      BY <1>1 DEF OrderInv, OperationsInOrder
    <3> QED
      BY <1>1, <1>3, <3>1, <3>2 DEF EventInv, Covered
  <2>4. EventOf(e)'
    <3>1. event'[e].last <= event'[e].count
      BY <2>2
    <3>2. Covered(event[e].future, event[e].covers)' /\ event'[e].covers \subseteq executed'
      BY <2>2, <2>3 DEF Covered
    <3> QED
      BY <3>1, <3>2 DEF EventOf, IsReady
  <2>5. ASSUME NEW k \in Ids' PROVE NumberOf(k)'
    <3>1. CASE op[k].kind = "event" /\ op[k].e = e
      BY <1>1, <1>4, <1>c, <2>2, <3>1, EventParts DEF NumberOf
    <3>2. CASE op[k].kind = "event" => op[k].e # e
      BY <1>3, <1>4, <2>2, <3>2, OtherEvents
    <3> QED
      BY <3>1, <3>2
  <2>6. ASSUME NEW u \in Thread PROVE ThreadOf(u)'
    <3>1. thread[u].at = "eventLocked" => thread[u].e \in Event \ {e}
      BY <1>1, HostQueueAssumption DEF LockInv
    <3> QED
      BY <1>1, <1>3, <1>4, <2>2, <3>1, OtherEvents
  <2>7. EventInv'
    <3>1. \A x \in Event : EventOf(x)'
      BY <1>3, <1>4, <2>2, <2>4, OtherEvents
    <3> QED
      BY <3>1, <2>5, <2>6 DEF EventInv, EventOf, NumberOf, ThreadOf
  <2>8. ASSUME NEW x \in Event, ~IsReady(x)' PROVE Pending(x)'
    <3>0. x # e
      BY <2>2, <2>8 DEF IsReady
    <3>1. Pending(x)
      BY <2>2, <2>8, <3>0, EventParts DEF IsReady
    <3>2. ~Announces(tasks[q][1], x)
      BY <1>2, <1>e, <3>0 DEF Announces
    <3> QED
      BY <1>1, <1>2, <1>5, <2>2, <3>0, <3>1, <3>2, PendingSame
  <2>9. PendingInv'
    BY <2>8 DEF PendingInv, Pending
  <2> QED
    BY <2>7, <2>9
<1>7. CASE op[i].number # c
  <2>1. event' = event
    BY <1>1, <1>c, <1>7 DEF SignalledEvent
  <2>2. EventInv'
    BY <1>1, <2>1, EventInvSame
  <2>3. ASSUME NEW x \in Event, ~IsReady(x)' PROVE Pending(x)'
    <3>1. Pending(x)
      BY <2>1, <2>3, EventParts DEF IsReady
    <3>2. ~Announces(tasks[q][1], x)
      BY <1>2, <1>e, <1>c, <1>7 DEF Announces
    <3> QED
      BY <1>1, <1>2, <1>5, <2>1, <3>1, <3>2, PendingSame
  <2>4. PendingInv'
    BY <2>3 DEF PendingInv, Pending
  <2> QED
    BY <2>2, <2>4
<1> QED
  BY <1>6, <1>7

\* The task that is popped has run: it is not the one that is waited for.
LEMMA PopKeeps ==
    ASSUME IndInv, TypeInv', Grows, NEW q \in Queue, WorkerPop(q)
    PROVE  EventInv' /\ PendingInv'
<1> USE DEF IndInv
<1>1. /\ worker[q] = "pop" /\ tasks' = [tasks EXCEPT ![q] = Tail(tasks[q])]
      /\ worker' = [worker EXCEPT ![q] = IF op[current[q]].kind = "keep" THEN "destroy" ELSE "set"]
      /\ UNCHANGED <<op, event, thread>>
  BY DEF WorkerPop
<1>2. EventInv'
  BY <1>1, EventInvSame
<1>n. PICK n \in Nat : n = Len(tasks[q])
  BY TypeFacts
<1>3. /\ tasks'[q] = Tail(tasks[q]) /\ \A p \in Queue \ {q} : tasks'[p] = tasks[p]
      /\ worker'[q] # "pop" /\ \A p \in Queue \ {q} : worker'[p] = worker[p]
  BY <1>1, TypeFacts
<1>4. /\ Len(tasks'[q]) = n - 1
      /\ \A m \in 1..n - 1 : tasks'[q][m] = tasks[q][m + 1]
  <2>1. tasks[q] # <<>> /\ tasks[q] \in Seq(Nat)
    BY <1>1, TypeFacts DEF WorkerInv
  <2>2. /\ Len(Tail(tasks[q])) = n - 1
        /\ \A m \in 1..Len(Tail(tasks[q])) : Tail(tasks[q])[m] = tasks[q][m + 1]
    BY <1>n, <2>1, TailElements
  <2> QED
    BY <1>3, <2>2
<1>5. ASSUME NEW x \in Event, ~IsReady(x)' PROVE Pending(x)'
  <2>1. Pending(x)
    BY <1>1, <1>5, EventParts DEF IsReady
  <2>2. ASSUME NEW u \in Thread, thread[u].at = "eventLocked", thread[u].e = x PROVE Pending(x)'
    BY <1>1, <2>2 DEF Pending
  <2>3. ASSUME NEW p \in Queue, NEW m \in 1..Len(tasks[p]), Announces(tasks[p][m], x),
               m = 1 => worker[p] # "pop"
        PROVE  Pending(x)'
    <3>1. CASE p # q
      BY <1>1, <1>3, <2>3, <3>1 DEF Pending, Announces
    <3>2. CASE p = q
      <4>1. m \in 1..n /\ m # 1
        BY <1>1, <1>n, <2>3, <3>2
      <4>2. m - 1 \in 1..n - 1 /\ tasks'[q][m - 1] = tasks[q][m]
        <5>1. m - 1 \in 1..n - 1 /\ (m - 1) + 1 = m
          BY <4>1
        <5> QED
          BY <1>4, <5>1
      <4>3. /\ op'[tasks'[q][m - 1]] = op[tasks[q][m]] /\ event'[x] = event[x]
            /\ m - 1 \in 1..Len(tasks'[q]) /\ worker'[q] # "pop"
        BY <1>1, <1>3, <1>4, <4>2
      <4>4. Announces(tasks[q][m], x)
        BY <2>3, <3>2
      <4> QED
        BY <4>3, <4>4 DEF Pending, Announces
    <3> QED
      BY <3>1, <3>2
  <2> QED
    BY <2>1, <2>2, <2>3 DEF Pending, Announces
<1>6. PendingInv'
  BY <1>5 DEF PendingInv, Pending
<1> QED
  BY <1>2, <1>6

\* Every step keeps what events promise.
LEMMA EventStep ==
    ASSUME IndInv, Next, TypeInv', OrderInv', Grows
    PROVE  EventInv' /\ PendingInv'
<1>1. ASSUME EventQuiet PROVE EventInv' /\ PendingInv'
  BY <1>1, EventQuietKeeps DEF IndInv
<1>2. ASSUME NEW t \in Thread, Call(t) PROVE EventInv' /\ PendingInv'
  BY <1>1, <1>2, QuietCalls, QuietThreadCalls, QuietEventCalls, EnqueueAsyncKeeps,
     EnqueueLockKeeps DEF Call
<1>3. ASSUME NEW t \in Thread, Proceed(t) PROVE EventInv' /\ PendingInv'
  BY <1>1, <1>3, QuietProceeds, EnqueueBlockingKeeps DEF Proceed
<1>4. ASSUME NEW q \in Queue, Work(q) PROVE EventInv' /\ PendingInv'
  BY <1>1, <1>4, QuietWork, RunKeeps, SignalKeeps, PopKeeps DEF Work
<1>5. CASE Quiet
  <2>1. UNCHANGED <<op, tasks, event, worker, thread>>
    BY <1>5 DEF Quiet, vars
  <2>2. EventQuiet
    BY <2>1, SameOpQuiet DEF IndInv
  <2> QED
    BY <1>1, <2>2
<1> QED
  BY <1>2, <1>3, <1>4, <1>5 DEF Next

\* Initially nothing is submitted, enqueued or called.
LEMMA InitInv == Init => IndInv
<1> SUFFICES ASSUME Init PROVE IndInv
  OBVIOUS
<1>0. /\ op = <<>> /\ Ids = {} /\ executed = {}
      /\ \A q \in Queue : /\ tasks[q] = <<>> /\ worker[q] = "idle" /\ depth[q] = 0
                          /\ running[q] = <<>> /\ need[q] = {} /\ qLock[q] = None
      /\ \A t \in Thread : thread[t] = Idle
      /\ \A e \in Event : event[e] = [count |-> 0, last |-> 0, future |-> 0, covers |-> {}]
  BY DEF Init, Ids
<1>1. TypeInv
  BY InitType
<1>2. Idle.at = "idle"
  BY DEF Idle
<1>3. LockInv
  BY <1>0, <1>2 DEF LockInv
<1>4. WorkerInv
  BY <1>0 DEF WorkerInv
<1>5. OrderInv
  BY <1>0 DEF OrderInv, OperationsInOrder, TaskOrder, NeedOrder, RunningOrder
<1>6. EventInv
  BY <1>0, <1>2 DEF EventInv, Covered, IsReady
<1>7. PendingInv
  BY <1>0 DEF PendingInv, IsReady
<1> QED
  BY <1>1, <1>3, <1>4, <1>5, <1>6, <1>7 DEF IndInv

\* Every step keeps the invariant, and one that changes nothing does.
LEMMA StepInv == IndInv /\ [Next]_vars => IndInv'
<1> SUFFICES ASSUME IndInv, [Next]_vars PROVE IndInv'
  OBVIOUS
<1>1. CASE Next
  <2>1. TypeInv' /\ LockInv' /\ Grows
    BY <1>1, StepTypes DEF IndInv
  <2>2. WorkerInv' /\ OrderInv'
    BY <1>1, <2>1, WorkerStep, OrderInvStep
  <2>3. EventInv' /\ PendingInv'
    BY <1>1, <2>1, <2>2, EventStep
  <2> QED
    BY <2>1, <2>2, <2>3 DEF IndInv
<1>2. CASE UNCHANGED vars
  <2>1. Ids' = Ids
    BY <1>2 DEF vars, Ids
  <2>2. TypeInv' /\ LockInv'
    BY <1>2, <2>1 DEF vars, IndInv, TypeInv, TypeOK, LockInv
  <2>3. WorkerInv'
    BY <1>2, <2>1 DEF vars, IndInv, WorkerInv
  <2>4. OrderInv'
    BY <1>2, <2>1 DEF vars, IndInv, OrderInv, OperationsInOrder, TaskOrder, NeedOrder,
                      RunningOrder, Ahead, Awaited
  <2>5. EventInv' /\ PendingInv'
    BY <1>2, <2>1 DEF vars, IndInv, EventInv, PendingInv, Covered, IsReady
  <2> QED
    BY <2>2, <2>3, <2>4, <2>5 DEF IndInv
<1> QED
  BY <1>1, <1>2
-----------------------------------------------------------------------------
(* The theorems.                                                           *)

\* The strengthening of the safety properties below: whichever threads submit,
\* enqueue, wait and drop, in whichever order the callback threads answer.
THEOREM Invariance == Spec => []IndInv
  BY InitInv, StepInv, PTL DEF Spec

\* The state of queues, events and calls stays in range: every task that a
\* callback thread holds was submitted, nothing is set before it ran.
THEOREM TypeCorrect == Spec => []TypeOK
<1>1. IndInv => TypeOK
  BY DEF IndInv, TypeInv
<1> QED
  BY <1>1, Invariance, PTL

\* "Operations inside one queue execute in FIFO order", and what waitFor
\* inserts between queues is kept: an operation is executed after everything
\* its queue and the events it waits for put before it.
THEOREM ExecutionInOrder == Spec => []OperationsInOrder
<1>1. IndInv => OperationsInOrder
  BY DEF IndInv, OrderInv
<1> QED
  BY <1>1, Invariance, PTL

\* An event that nobody is enqueuing and that is ready covers executed work
\* only, also when it was enqueued again before its earlier task ran.
THEOREM ReadyMeansExecuted == Spec => []ReadyEventCoversItsWork
<1>1. IndInv => ReadyEventCoversItsWork
  BY DEF IndInv, EventInv, ReadyEventCoversItsWork
<1> QED
  BY <1>1, Invariance, PTL

\* ~Event never waits: when no task and no thread refers to the event any more
\* it is ready, so that a callback thread that destroys it cannot wait for
\* itself.
THEOREM DestructorReturns == Spec => []EventDestructorNeverBlocks
<1>1. ASSUME IndInv PROVE EventDestructorNeverBlocks
  <2> SUFFICES ASSUME NEW e \in Event, \A q \in Queue : ~Refers(q, e),
                      \A t \in Thread : thread[t].e # e, ~IsReady(e)
               PROVE  FALSE
    BY DEF EventDestructorNeverBlocks
  <2>1. PICK q \in Queue : \E n \in 1..Len(tasks[q]) : op[tasks[q][n]].e = e
    BY <1>1 DEF IndInv, PendingInv
  <2> QED
    BY <2>1 DEF Refers
<1> QED
  BY <1>1, Invariance, PTL
-----------------------------------------------------------------------------
(* Waits.                                                                  *)

Waits == {"waitQueues", "marker"}

\* The parts of WaitInv and HeldInv about one thread.
WaitOf(t) ==
    thread[t].at \in Waits =>
        \A j \in thread[t].goal :
            \/ j \in executed
            \/ \E q \in thread[t].rest : j \in need[q]
            \/ /\ thread[t].at = "marker"
               /\ IF thread[t].q \in Blocking THEN j \in need[thread[t].q]
                  ELSE thread[t].future \in Ids /\ j \in op[thread[t].future].before

HeldOf(t) ==
    /\ thread[t].at = "waitQueues" /\ thread[t].rest # {} =>
          \/ Calls("waitDevice")
          \/ thread[t].q \in held /\ thread[t].rest = {thread[t].q}
    /\ thread[t].at = "marker" => thread[t].q \in Queue
    /\ thread[t].at = "marker" /\ thread[t].rest # {} => Calls("waitDevice")

\* what a step does to the waits and the handles
WaitStep ==
    /\ promised' \subseteq executed'
    /\ UNCHANGED program
    /\ \/ UNCHANGED held
       \/ Calls("drop") /\ \E q \in Queue : /\ held' = held \ {q}
                                            /\ \A u \in Thread : thread[u].q # q
    /\ \A u \in Thread : \/ UNCHANGED thread[u]
                         \/ thread'[u].at \notin Waits
                         \/ WaitOf(u)' /\ HeldOf(u)'

\* The waits are looked at thread by thread.
LEMMA WaitParts ==
    /\ WaitInv <=> promised \subseteq executed /\ \A t \in Thread : WaitOf(t)
    /\ HeldInv <=> (~Calls("drop") => held = Queue) /\ \A t \in Thread : HeldOf(t)
  BY DEF WaitInv, HeldInv, WaitOf, HeldOf, Waits

\* A queue never comes to need less.
LEMMA NeedGrows ==
    ASSUME IndInv, Next, NEW p \in Queue
    PROVE  need[p] \subseteq need'[p]
<1>0. need \in [Queue -> SUBSET Ids]
  BY TypeFacts DEF IndInv
<1>1. ASSUME NEW q \in Queue, NEW S, Needs(q, S) PROVE need[p] \subseteq need'[p]
  BY <1>0, <1>1 DEF Needs
<1>2. ASSUME NEW q \in Queue, Finishes(q) \/ Runs(q) \/ WorkerPop(q) \/ WorkerSet(q)
      PROVE  need[p] \subseteq need'[p]
  BY <1>2 DEF Finishes, Runs, WorkerPop, WorkerSet, historyVars
<1>3. ASSUME NEW kind, NEW q \in Queue, NEW e, NEW number, NEW after,
             Adds(kind, q, e, number, after)
      PROVE  need[p] \subseteq need'[p]
  BY <1>3 DEF Adds, Posted
<1>4. ASSUME NEW q \in Queue, Starts(q) PROVE need[p] \subseteq need'[p]
  BY <1>4 DEF Starts, Started
<1>5. ASSUME NEW q \in Queue, FreedAtOnce(q, op[current[q]]) PROVE need[p] \subseteq need'[p]
  BY <1>0, <1>5 DEF FreedAtOnce
<1>6. CASE UNCHANGED orderVars
  BY <1>6 DEF orderVars
<1>7. OrderStep
  BY OrderEffects
<1> QED
  BY <1>1, <1>2, <1>3, <1>4, <1>5, <1>6, <1>7 DEF OrderStep

\* A wait that a step leaves alone still covers its goal.
LEMMA WaitSame ==
    ASSUME Grows, NEW t \in Thread, thread[t] \in ThreadType, WaitOf(t), thread'[t] = thread[t],
           \A p \in Queue : need[p] \subseteq need'[p]
    PROVE  WaitOf(t)'
<1> SUFFICES ASSUME thread[t].at \in Waits, NEW j \in thread[t].goal, j \notin executed'
             PROVE  \/ \E q \in thread[t].rest : j \in need'[q]
                    \/ /\ thread[t].at = "marker"
                       /\ IF thread[t].q \in Blocking THEN j \in need'[thread[t].q]
                          ELSE /\ thread[t].future \in Ids'
                               /\ j \in op'[thread[t].future].before
  BY DEF WaitOf
<1>1. /\ executed \subseteq executed' /\ Ids \subseteq Ids' /\ \A i \in Ids : op'[i] = op[i]
      /\ thread[t].rest \subseteq Queue
      /\ Blocking \subseteq Queue
  BY ThreadStates, HostQueueAssumption DEF Grows
<1>2. CASE \E q \in thread[t].rest : j \in need[q]
  BY <1>1, <1>2
<1>3. CASE thread[t].at = "marker" /\ thread[t].q \in Blocking /\ j \in need[thread[t].q]
  BY <1>1, <1>3
<1>4. CASE /\ thread[t].at = "marker" /\ thread[t].q \notin Blocking
           /\ thread[t].future \in Ids /\ j \in op[thread[t].future].before
  BY <1>1, <1>4
<1> QED
  BY <1>1, <1>2, <1>3, <1>4 DEF WaitOf

\* Such a step keeps what waits rely on.
LEMMA WaitStepKeeps ==
    ASSUME TypeInv, Grows, HeldInv, WaitInv, WaitStep,
           \A p \in Queue : need[p] \subseteq need'[p]
    PROVE  HeldInv' /\ WaitInv'
<1>1. ~Calls("drop")' => held' = Queue
  BY DEF WaitStep, HeldInv, Calls
<1>2. ASSUME NEW u \in Thread PROVE WaitOf(u)' /\ HeldOf(u)'
  <2>1. CASE thread'[u] = thread[u]
    <3>1. thread[u] \in ThreadType
      BY TypeFacts
    <3>2. WaitOf(u)'
      BY <2>1, <3>1, WaitParts, WaitSame
    <3>3. HeldOf(u)
      BY WaitParts
    <3>4. (thread[u].q \in held => thread[u].q \in held') /\ (Calls("waitDevice") => Calls("waitDevice")')
      BY DEF WaitStep, Calls
    <3>5. HeldOf(u)'
      BY <2>1, <3>3, <3>4 DEF HeldOf
    <3> QED
      BY <3>2, <3>5
  <2>2. CASE thread'[u].at \notin Waits
    BY <2>2 DEF WaitOf, HeldOf, Waits
  <2> QED
    BY <2>1, <2>2 DEF WaitStep
<1>3. HeldInv'
  BY <1>1, <1>2 DEF HeldInv, HeldOf
<1>4. WaitInv'
  BY <1>2 DEF WaitInv, WaitOf, WaitStep, Waits
<1> QED
  BY <1>3, <1>4

\* Calls that wait for no queue.
LEMMA CallWaitsNot ==
    ASSUME TypeInv, NEW t \in Thread, NEW call, NEW p, NEW x, MayCall(t, call, p, x),
           NEW y, Called(t, y), y.at \notin Waits, promised' \subseteq executed',
           UNCHANGED <<program, held>>
    PROVE  WaitStep
  BY CallThread DEF WaitStep

\* A call that returns at once reports what a ready event covers, if anything;
\* one that starts to wait starts with queues that cover its goal.
LEMMA CallWaits ==
    ASSUME IndInv, HeldInv, WaitInv, Grows, NEW t \in Thread, Call(t)
    PROVE  WaitStep
<1> USE DEF IndInv
<1>0. promised \subseteq executed' /\ UNCHANGED program
  BY DEF WaitInv, Grows, Call
<1>1. ASSUME NEW call, NEW p, NEW x, MayCall(t, call, p, x), NEW y, Called(t, y),
             y.at \notin Waits, UNCHANGED <<held, promised>>
      PROVE  WaitStep
  BY <1>0, <1>1, CallWaitsNot
<1>2. Idle.at \notin Waits
  BY DEF Idle, Waits
<1>3. ASSUME NEW q \in Queue, NEW to, NEW call, NEW kind, Deferred(t, q, to, call, kind)
      PROVE  WaitStep
  BY <1>1, <1>2, <1>3 DEF Deferred
<1>4. ASSUME NEW q \in Queue, SubmitAsync(t, q) PROVE WaitStep
  BY <1>1, <1>2, <1>4 DEF SubmitAsync
<1>5. ASSUME NEW q \in Queue, SubmitBlocking(t, q) PROVE WaitStep
  <2> DEFINE y == [Idle EXCEPT !.at = "running", !.q = q]
  <2>1. MayCall(t, "submit", q, None) /\ Called(t, y) /\ UNCHANGED <<held, promised>>
    BY <1>5 DEF SubmitBlocking
  <2>2. y.at \notin Waits
    BY DEF Idle, Waits
  <2> HIDE DEF y
  <2> QED
    BY <1>1, <2>1, <2>2
<1>6. ASSUME NEW q \in Queue, NEW e \in Event, EnqueueEventAsync(t, q, e) \/ WaitForReady(t, q, e)
      PROVE  WaitStep
  BY <1>1, <1>2, <1>6 DEF EnqueueEventAsync, WaitForReady
<1>7. ASSUME NEW q \in Queue, NEW e \in Event, EnqueueEventLock(t, q, e) PROVE WaitStep
  <2> DEFINE y == [Idle EXCEPT !.at = "eventLocked", !.q = q, !.e = e]
  <2>1. MayCall(t, "event", q, e) /\ Called(t, y) /\ UNCHANGED <<held, promised>>
    BY <1>7 DEF EnqueueEventLock, historyVars
  <2>2. y.at \notin Waits
    BY DEF Idle, Waits
  <2> HIDE DEF y
  <2> QED
    BY <1>1, <2>1, <2>2
<1>8. ASSUME NEW q \in Queue, NEW e \in Event, WaitForAsync(t, q, e) PROVE WaitStep
  <2> DEFINE y == [Idle EXCEPT !.at = "futureCopied", !.q = q, !.e = e,
                               !.future = event[e].future, !.goal = event[e].covers]
  <2>1. MayCall(t, "waitFor", q, e) /\ Called(t, y) /\ UNCHANGED <<held, promised>>
    BY <1>8 DEF WaitForAsync, historyVars
  <2>2. y.at \notin Waits
    BY DEF Idle, Waits
  <2> HIDE DEF y
  <2> QED
    BY <1>1, <2>1, <2>2
<1>9. ASSUME NEW q \in Queue, NEW e \in Event, WaitForLock(t, q, e) PROVE WaitStep
  <2> DEFINE y == [Idle EXCEPT !.at = "waitForLocked", !.q = q, !.e = e]
  <2>1. MayCall(t, "waitFor", q, e) /\ Called(t, y) /\ UNCHANGED <<held, promised>>
    BY <1>9 DEF WaitForLock, historyVars
  <2>2. y.at \notin Waits
    BY DEF Idle, Waits
  <2> HIDE DEF y
  <2> QED
    BY <1>1, <2>1, <2>2
<1>10. ASSUME NEW e \in Event, IsComplete(t, e) PROVE WaitStep
  <2>1. /\ MayCall(t, "isComplete", None, e) /\ Called(t, Idle) /\ IsReady(e)
        /\ promised' = promised \cup event[e].covers /\ UNCHANGED held
    BY <1>10 DEF IsComplete
  <2>2. promised' \subseteq executed'
    BY <1>0, <2>1 DEF EventInv, Grows
  <2> QED
    BY <1>0, <1>2, <2>1, <2>2, CallWaitsNot
<1>11. ASSUME NEW e \in Event, WaitEvent(t, e) PROVE WaitStep
  <2> DEFINE y == [Idle EXCEPT !.at = "waitEvent", !.e = e, !.future = event[e].future,
                               !.count = event[e].count, !.goal = event[e].covers]
  <2>1. /\ MayCall(t, "waitEvent", None, e) /\ UNCHANGED held
        /\ \/ Called(t, y) /\ UNCHANGED promised
           \/ /\ ~(event[e].count > event[e].last) /\ Called(t, Idle)
              /\ promised' = promised \cup event[e].covers
    BY <1>11 DEF WaitEvent
  <2>2. y.at \notin Waits
    BY DEF Idle, Waits
  <2> HIDE DEF y
  <2>3. CASE Called(t, y) /\ UNCHANGED promised
    BY <1>1, <2>1, <2>2, <2>3
  <2>4. CASE /\ ~(event[e].count > event[e].last) /\ Called(t, Idle)
             /\ promised' = promised \cup event[e].covers
    <3>1. event[e].count \in Nat /\ event[e].last \in Nat /\ event[e].last <= event[e].count
      BY TypeFacts DEF EventInv
    <3>2. IsReady(e)
      BY <2>4, <3>1 DEF IsReady
    <3>3. promised' \subseteq executed'
      BY <1>0, <2>4, <3>2 DEF EventInv, Grows
    <3> QED
      BY <1>0, <1>2, <2>1, <2>4, <3>3, CallWaitsNot
  <2> QED
    BY <2>1, <2>3, <2>4
<1>12. ASSUME NEW q \in Queue, WaitQueue(t, q) PROVE WaitStep
  <2> DEFINE y == [Idle EXCEPT !.at = "waitQueues", !.q = q, !.rest = {q}, !.goal = need[q]]
  <2>1. /\ MayCall(t, "waitQueue", q, None) /\ Called(t, y)
        /\ UNCHANGED <<held, need, promised>> /\ q \in held
    BY <1>12, HostQueueAssumption DEF WaitQueue, MayCall, historyVars
  <2>2. y.at = "waitQueues" /\ y.q = q /\ y.rest = {q} /\ y.goal = need[q]
    BY DEF Idle
  <2> HIDE DEF y
  <2>3. thread'[t] = y /\ \A u \in Thread \ {t} : thread'[u] = thread[u]
    BY <2>1, CallThread
  <2>4. WaitOf(t)' /\ HeldOf(t)'
    BY <2>1, <2>2, <2>3 DEF WaitOf, HeldOf
  <2> QED
    BY <1>0, <2>1, <2>3, <2>4 DEF WaitStep
<1>13. ASSUME WaitDevice(t) PROVE WaitStep
  <2> DEFINE y == [Idle EXCEPT !.at = "waitQueues", !.rest = Queue,
                               !.goal = UNION {need[p] : p \in Queue}]
  <2>1. /\ MayCall(t, "waitDevice", None, None) /\ Called(t, y)
        /\ UNCHANGED <<held, need, promised>>
    BY <1>13 DEF WaitDevice, historyVars
  <2>2. y.at = "waitQueues" /\ y.rest = Queue /\ \A j \in y.goal : \E p \in Queue : j \in need[p]
    BY DEF Idle
  <2> HIDE DEF y
  <2>3. thread'[t] = y /\ \A u \in Thread \ {t} : thread'[u] = thread[u]
    BY <2>1, CallThread
  <2>4. Calls("waitDevice")'
    BY <1>0, <2>1 DEF MayCall, Calls
  <2>5. WaitOf(t)' /\ HeldOf(t)'
    BY <2>1, <2>2, <2>3, <2>4 DEF WaitOf, HeldOf
  <2> QED
    BY <1>0, <2>1, <2>3, <2>5 DEF WaitStep
<1>14. ASSUME NEW q \in Queue, DropQueue(t, q) PROVE WaitStep
  <2> DEFINE y == [Idle EXCEPT !.at = "join", !.q = q]
  <2>1. /\ MayCall(t, "drop", q, None) /\ Called(t, y) /\ UNCHANGED promised
        /\ held' = held \ {q} /\ \A u \in Thread : thread[u].q # q
    BY <1>14 DEF DropQueue, historyVars
  <2>2. y.at \notin Waits
    BY DEF Idle, Waits
  <2> HIDE DEF y
  <2>3. thread'[t] = y /\ \A u \in Thread \ {t} : thread'[u] = thread[u]
    BY <2>1, CallThread
  <2>4. Calls("drop")
    BY <2>1 DEF MayCall, Calls
  <2> QED
    BY <1>0, <2>1, <2>2, <2>3, <2>4 DEF WaitStep
<1>15. ASSUME SubmitNested(t) PROVE WaitStep
  BY <1>0, <1>15 DEF SubmitNested, WaitStep
<1> HIDE DEF IndInv
<1> QED
  BY <1>3, <1>4, <1>5, <1>6, <1>7, <1>8, <1>9, <1>10, <1>11, <1>12, <1>13, <1>14, <1>15
     DEF Call, EnqueueDeferred, KeepAlive

\* A queue that is empty has executed all that it needs.
LEMMA EmptyQueue ==
    ASSUME IndInv, NEW q \in Queue, IsQueueEmpty(q)
    PROVE  need[q] \subseteq executed
<1> USE DEF IndInv
<1>1. CASE q \in Blocking
  <2>1. Len(running[q]) = 0 /\ running[q] \in Seq(Nat)
    BY <1>1, TypeFacts DEF LockInv, IsQueueEmpty
  <2>2. \A m \in 1..Len(running[q]) : FALSE
    BY <2>1
  <2> QED
    BY <1>1, <2>2 DEF OrderInv, NeedOrder
<1>2. CASE q \notin Blocking
  <2>1. tasks[q] = <<>>
    BY <1>2 DEF IsQueueEmpty
  <2>2. Len(tasks[q]) = 0
    BY <2>1
  <2>3. \A m \in 1..Len(tasks[q]) : FALSE
    BY <2>2
  <2> QED
    BY <1>2, <2>3 DEF OrderInv, NeedOrder, Ahead
<1> QED
  BY <1>1, <1>2

\* A step inside a call: a wait leaves out a queue that is empty, awaits a
\* marker behind what a queue needs, and returns when its goal is executed.
LEMMA ProceedWaits ==
    ASSUME IndInv, HeldInv, WaitInv, Grows, ~Calls("waitDevice") \/ ~Calls("drop"),
           NEW t \in Thread, Proceed(t)
    PROVE  WaitStep
<1> USE DEF IndInv
<1>0. /\ promised \subseteq executed' /\ executed \subseteq executed' /\ UNCHANGED program
      /\ \A p \in Queue : need[p] \subseteq Ids
      /\ WaitOf(t) /\ HeldOf(t)
  BY WaitParts, TypeFacts DEF WaitInv, Grows, Proceed
<1>t. /\ thread \in [Thread -> ThreadType] /\ thread[t] \in ThreadType
      /\ thread[t].rest \in SUBSET Queue
  BY TypeFacts, ThreadStates
<1>1. ASSUME promised' \subseteq executed', UNCHANGED held, NEW y,
             thread' = [thread EXCEPT ![t] = y], y.at \notin Waits \/ (WaitOf(t)' /\ HeldOf(t)')
      PROVE  WaitStep
  <2>1. thread'[t] = y /\ \A u \in Thread \ {t} : thread'[u] = thread[u]
    BY <1>1, <1>t
  <2> QED
    BY <1>0, <1>1, <2>1 DEF WaitStep
<1>2. Idle.at \notin Waits
  BY DEF Idle, Waits
<1>3. CASE FinishBlocking(t)
  <2>1. /\ UNCHANGED <<held, promised>>
        /\ (thread' = thread \/ thread' = [thread EXCEPT ![t] = Idle])
    BY <1>3 DEF FinishBlocking, historyVars
  <2>2. CASE thread' = thread
    BY <1>0, <2>1, <2>2 DEF WaitStep
  <2> QED
    BY <1>0, <1>1, <1>2, <2>1, <2>2
<1>4. CASE EnqueueEventBlocking(t) \/ WaitForSubmit(t) \/ WaitForReturns(t) \/ DropReturns(t)
  <2>1. UNCHANGED <<held, promised>> /\ thread' = [thread EXCEPT ![t] = Idle]
    BY <1>4 DEF EnqueueEventBlocking, WaitForSubmit, WaitForReturns, DropReturns, historyVars
  <2> QED
    BY <1>0, <1>1, <1>2, <2>1
<1>5. CASE WaitForBlocking(t)
  <2> DEFINE y == [thread[t] EXCEPT !.at = "waitForFuture", !.future = event[thread[t].e].future,
                                    !.goal = event[thread[t].e].covers]
  <2>1. UNCHANGED <<held, promised>> /\ thread' = [thread EXCEPT ![t] = y]
    BY <1>5 DEF WaitForBlocking, historyVars
  <2>2. y.at \notin Waits
    BY <1>t DEF ThreadType, Waits
  <2> HIDE DEF y
  <2> QED
    BY <1>0, <1>1, <2>1, <2>2
<1>6. CASE WaitEventLoop(t)
  <2> DEFINE f == event[thread[t].e].future
             y == [thread[t] EXCEPT !.future = f]
  <2>1. /\ thread[t].at = "waitEvent" /\ IsSet(thread[t].future) /\ UNCHANGED held
        /\ \/ thread' = [thread EXCEPT ![t] = y] /\ UNCHANGED promised
           \/ thread' = [thread EXCEPT ![t] = Idle] /\ promised' = promised \cup thread[t].goal
    BY <1>6 DEF WaitEventLoop
  <2>2. thread[t].goal \subseteq executed
    <3>1. Covered(thread[t].future, thread[t].goal) /\ thread[t].future \in Nat
      BY <1>t, <2>1, ThreadStates DEF EventInv
    <3> QED
      BY <2>1, <3>1, SetFuture DEF OrderInv
  <2> HIDE DEF f
  <2>3. y.at \notin Waits
    BY <1>t, <2>1 DEF ThreadType, Waits
  <2> HIDE DEF y
  <2>4. CASE thread' = [thread EXCEPT ![t] = y] /\ UNCHANGED promised
    BY <1>0, <1>1, <2>1, <2>3, <2>4
  <2>5. CASE thread' = [thread EXCEPT ![t] = Idle] /\ promised' = promised \cup thread[t].goal
    BY <1>0, <1>1, <1>2, <2>1, <2>2, <2>5
  <2> QED
    BY <2>1, <2>4, <2>5
<1>7. ASSUME NEW q \in Queue, SkipQueue(t, q) PROVE WaitStep
  <2> DEFINE y == [thread[t] EXCEPT !.rest = @ \ {q}]
  <2>1. /\ thread[t].at = "waitQueues" /\ q \in thread[t].rest /\ (q \in held => IsQueueEmpty(q))
        /\ thread' = [thread EXCEPT ![t] = y]
        /\ UNCHANGED <<held, need, promised>>
    BY <1>7 DEF SkipQueue, historyVars
  <2>2. y.at = "waitQueues" /\ y.rest = thread[t].rest \ {q} /\ y.goal = thread[t].goal /\ y.q = thread[t].q
    BY <1>t, <2>1 DEF ThreadType
  <2> HIDE DEF y
  <2>3. q \in held
    BY <1>0, <2>1 DEF HeldOf, HeldInv
  <2>4. need[q] \subseteq executed
    BY <2>1, <2>3, EmptyQueue
  <2>5. thread'[t] = y
    BY <1>t, <2>1
  <2>6. WaitOf(t)'
    BY <1>0, <2>1, <2>2, <2>4, <2>5 DEF WaitOf, Waits
  <2>7. HeldOf(t)'
    BY <1>0, <2>1, <2>2, <2>5 DEF HeldOf, Calls
  <2> QED
    BY <1>0, <1>1, <2>1, <2>6, <2>7
<1>8. ASSUME NEW q \in Queue, SubmitMarker(t, q) PROVE WaitStep
  <2>i. PICK i : i = NewId
    OBVIOUS
  <2> DEFINE y == [thread[t] EXCEPT !.at = "marker", !.q = q, !.rest = @ \ {q},
                                    !.future = IF q \in Blocking THEN 0 ELSE i]
  <2>1. /\ thread[t].at = "waitQueues" /\ q \in thread[t].rest
        /\ thread' = [thread EXCEPT ![t] = y]
        /\ UNCHANGED <<held, promised>>
        /\ IF q \in Blocking THEN UNCHANGED need ELSE Post("marker", q, None, 0, {})
    BY <1>8, <1>t, <2>i DEF SubmitMarker
  <2>2. /\ y.at = "marker" /\ y.rest = thread[t].rest \ {q} /\ y.goal = thread[t].goal /\ y.q = q
        /\ q \notin Blocking => y.future = i
    BY <1>t DEF ThreadType
  <2> HIDE DEF y
  <2>3. thread'[t] = y
    BY <1>t, <2>1
  <2>4. q \notin Blocking => i \in Ids' /\ op'[i].before = need[q] /\ \A p \in Queue : need[p] \subseteq need'[p]
    <3>1. "marker" \in Kinds /\ None \in Event \cup Queue \cup {None} /\ 0 \in Nat /\ {} \in SUBSET Ids
      BY DEF Kinds
    <3> SUFFICES ASSUME q \notin Blocking
                 PROVE  i \in Ids' /\ op'[i].before = need[q] /\ \A p \in Queue : need[p] \subseteq need'[p]
      OBVIOUS
    <3>2. Posted("marker", q, None, 0, {})
      BY <2>1, <3>1, PostEffect
    <3> QED
      BY <2>i, <3>2 DEF Posted
  <2>5. \A p \in Queue : need[p] \subseteq need'[p]
    BY <2>1, <2>4
  <2>6. ASSUME NEW j \in y.goal, j \notin executed'
        PROVE  \/ \E p \in y.rest : j \in need'[p]
               \/ IF q \in Blocking THEN j \in need'[q] ELSE i \in Ids' /\ j \in op'[i].before
    <3>1. PICK p \in thread[t].rest : j \in need[p]
      BY <1>0, <2>1, <2>2, <2>6 DEF WaitOf, Waits
    <3>2. CASE p = q
      BY <2>1, <2>4, <3>1, <3>2
    <3>3. CASE p # q
      BY <1>t, <2>2, <2>5, <3>1, <3>3
    <3> QED
      BY <3>2, <3>3
  <2>7. WaitOf(t)'
    BY <2>2, <2>3, <2>6 DEF WaitOf
  <2>8. HeldOf(t)'
    BY <1>0, <2>1, <2>2, <2>3 DEF HeldOf, Calls
  <2> QED
    BY <1>0, <1>1, <2>1, <2>7, <2>8
<1>9. CASE MarkerReturns(t)
  <2> DEFINE q == thread[t].q
             y == [thread[t] EXCEPT !.at = "waitQueues", !.q = None, !.future = 0]
  <2>1. /\ thread[t].at = "marker" /\ thread' = [thread EXCEPT ![t] = y]
        /\ IF q \in Blocking THEN qLock[q] = None ELSE IsSet(thread[t].future)
        /\ UNCHANGED <<held, need, promised>>
    BY <1>9 DEF MarkerReturns, historyVars
  <2>2. y.at = "waitQueues" /\ y.rest = thread[t].rest /\ y.goal = thread[t].goal
    BY <1>t DEF ThreadType
  <2> HIDE DEF y
  <2>3. thread'[t] = y
    BY <1>t, <2>1
  <2>4. q \in Blocking => need[q] \subseteq executed
    BY <2>1, HostQueueAssumption, QuietQueue
  <2>5. q \notin Blocking /\ thread[t].future \in Ids => op[thread[t].future].before \subseteq executed
    <3>1. thread[t].future \in Ids => thread[t].future # 0
      BY DEF Ids
    <3>2. ready \subseteq executed
      BY TypeFacts
    <3> QED
      BY <2>1, <3>1, <3>2 DEF IsSet, OrderInv, OperationsInOrder
  <2>6. WaitOf(t)'
    BY <1>0, <2>1, <2>2, <2>3, <2>4, <2>5 DEF WaitOf, Waits
  <2>7. HeldOf(t)'
    BY <1>0, <2>1, <2>2, <2>3 DEF HeldOf, Calls
  <2> QED
    BY <1>0, <1>1, <2>1, <2>6, <2>7
<1>10. CASE WaitQueuesReturns(t)
  <2>1. /\ thread[t].at = "waitQueues" /\ thread[t].rest = {} /\ UNCHANGED held
        /\ thread' = [thread EXCEPT ![t] = Idle] /\ promised' = promised \cup thread[t].goal
    BY <1>10 DEF WaitQueuesReturns
  <2>2. thread[t].goal \subseteq executed
    BY <1>0, <2>1 DEF WaitOf, Waits
  <2> QED
    BY <1>0, <1>1, <1>2, <2>1, <2>2
<1> HIDE DEF IndInv
<1> QED
  BY <1>3, <1>4, <1>5, <1>6, <1>7, <1>8, <1>9, <1>10 DEF Proceed

\* the program does not both wait for the device and drop queues
DeviceKeepsQueues == ~Calls("waitDevice") \/ ~Calls("drop")

\* Every step of such a program keeps what its waits rely on.
LEMMA WaitsStep ==
    ASSUME IndInv, HeldInv, WaitInv, DeviceKeepsQueues, [Next]_vars
    PROVE  HeldInv' /\ WaitInv'
<1>1. CASE Next
  <2>1. Grows /\ TypeInv
    BY <1>1, StepTypes DEF IndInv
  <2>2. ASSUME UNCHANGED <<program, thread, held, promised>> PROVE WaitStep
    BY <2>1, <2>2 DEF WaitStep, WaitInv, Grows
  <2>3. ASSUME (\E q \in Queue : Work(q)) \/ Quiet PROVE WaitStep
    <3>1. ASSUME NEW q \in Queue, Work(q) PROVE UNCHANGED <<program, thread, held, promised>>
      BY <3>1 DEF Work, WorkerRun, WorkerRunEvent, WorkerPop, WorkerFreeAsync,
                  WorkerFreeBlocking, WorkerSet, historyVars
    <3>2. ASSUME Quiet PROVE UNCHANGED <<program, thread, held, promised>>
      BY <3>2 DEF Quiet, vars
    <3> QED
      BY <2>2, <2>3, <3>1, <3>2
  <2>4. ASSUME NEW t \in Thread, Call(t) PROVE WaitStep
    BY <2>1, <2>4, CallWaits
  <2>5. ASSUME NEW t \in Thread, Proceed(t) PROVE WaitStep
    <3>1. ~Calls("waitDevice") \/ ~Calls("drop")
      BY DEF DeviceKeepsQueues
    <3> QED
      BY <2>1, <2>5, <3>1, ProceedWaits
  <2>6. WaitStep
    BY <1>1, <2>3, <2>4, <2>5 DEF Next
  <2>7. \A p \in Queue : need[p] \subseteq need'[p]
    BY <1>1, NeedGrows
  <2> QED
    BY <2>1, <2>6, <2>7, WaitStepKeeps
<1>2. CASE UNCHANGED vars
  <2>1. HeldInv'
    BY <1>2 DEF vars, HeldInv, Calls
  <2>2. WaitInv'
    BY <1>2 DEF vars, WaitInv, Ids
  <2> QED
    BY <2>1, <2>2
<1> QED
  BY <1>1, <1>2

\* What wait(queue), wait(event), wait(device) and isComplete() have reported is
\* executed, in every program that does not drop queues while it may be waiting
\* for the device: Device::wait leaves out a queue whose last handle is gone.
THEOREM WaitsAreTrue == Spec => [](DeviceKeepsQueues => WaitsReportFinishedWork)
<1> DEFINE I == DeviceKeepsQueues => HeldInv /\ WaitInv
<1>1. Init => I
  <2> SUFFICES ASSUME Init PROVE HeldInv /\ WaitInv
    OBVIOUS
  <2>1. held = Queue /\ promised = {} /\ \A t \in Thread : thread[t].at = "idle"
    BY DEF Init, Idle
  <2> QED
    BY <2>1 DEF HeldInv, WaitInv
<1>2. IndInv /\ I /\ [Next]_vars => I'
  <2> SUFFICES ASSUME IndInv, I, [Next]_vars, DeviceKeepsQueues'
               PROVE  HeldInv' /\ WaitInv'
    OBVIOUS
  <2>1. program' = program
    BY DEF Next, Call, Proceed, Work, Quiet, vars
  <2>2. DeviceKeepsQueues
    BY <2>1 DEF DeviceKeepsQueues, Calls
  <2> QED
    BY <2>2, WaitsStep
<1>3. I => (DeviceKeepsQueues => WaitsReportFinishedWork)
  BY DEF WaitInv, WaitsReportFinishedWork
<1> QED
  BY <1>1, <1>2, <1>3, Invariance, PTL DEF Spec
===============================================================================
