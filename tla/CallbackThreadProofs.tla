------------------------- MODULE CallbackThreadProofs -------------------------
(***************************************************************************)
(* Proofs about CallbackThread, for any number of clients and tasks and    *)
(* any closures.                                                           *)
(***************************************************************************)
EXTENDS CallbackThread, SequenceTheorems, TLAPS

-----------------------------------------------------------------------------
(* What appending, and dropping the front, does to a queue of tasks.       *)

\* The elements of a sequence after Append.
LEMMA AppendRange ==
    ASSUME NEW S, NEW s \in Seq(S), NEW x \in S
    PROVE  /\ Append(s, x) \in Seq(S)
           /\ \A y : (\E i \in 1..Len(Append(s, x)) : Append(s, x)[i] = y)
                       <=> (\E i \in 1..Len(s) : s[i] = y) \/ y = x
           /\ (\A i, j \in 1..Len(s) : s[i] = s[j] => i = j)
              /\ (\A i \in 1..Len(s) : s[i] # x)
              => \A i, j \in 1..Len(Append(s, x)) : Append(s, x)[i] = Append(s, x)[j] => i = j
  BY AppendProperties

\* The elements of a sequence without duplicates after its front is dropped.
LEMMA TailRange ==
    ASSUME NEW S, NEW s \in Seq(S), s # <<>>,
           \A i, j \in 1..Len(s) : s[i] = s[j] => i = j
    PROVE  /\ Tail(s) \in Seq(S)
           /\ Len(Tail(s)) = Len(s) - 1
           /\ Head(s) \in S
           /\ \A i, j \in 1..Len(Tail(s)) : Tail(s)[i] = Tail(s)[j] => i = j
           /\ \A y : (\E i \in 1..Len(Tail(s)) : Tail(s)[i] = y)
                       <=> (\E i \in 1..Len(s) : s[i] = y) /\ y # Head(s)
           /\ \E i \in 1..Len(s) : s[i] = Head(s)
<1>1. /\ Tail(s) \in Seq(S)
      /\ Len(Tail(s)) = Len(s) - 1
      /\ \A i \in 1..Len(Tail(s)) : Tail(s)[i] = s[i + 1]
      /\ Len(s) \in Nat /\ Len(s) > 0
      /\ Head(s) = s[1]
      /\ Head(s) \in S
  OBVIOUS
<1>2. \A i, j \in 1..Len(Tail(s)) : Tail(s)[i] = Tail(s)[j] => i = j
  <2>1. SUFFICES ASSUME NEW i \in 1..Len(Tail(s)), NEW j \in 1..Len(Tail(s)),
                        Tail(s)[i] = Tail(s)[j]
                 PROVE  i = j
    OBVIOUS
  <2>2. s[i + 1] = s[j + 1] /\ i + 1 \in 1..Len(s) /\ j + 1 \in 1..Len(s)
    BY <1>1, <2>1
  <2>3. i + 1 = j + 1
    BY <2>2
  <2> QED
    BY <2>3
<1>3. ASSUME NEW y
      PROVE  (\E i \in 1..Len(Tail(s)) : Tail(s)[i] = y)
               <=> (\E i \in 1..Len(s) : s[i] = y) /\ y # Head(s)
  <2>1. ASSUME NEW i \in 1..Len(Tail(s)), Tail(s)[i] = y
        PROVE  (\E k \in 1..Len(s) : s[k] = y) /\ y # Head(s)
    <3>1. s[i + 1] = y /\ i + 1 \in 1..Len(s) /\ 1 \in 1..Len(s) /\ i + 1 # 1
      BY <1>1, <2>1
    <3> QED
      BY <3>1, <1>1
  <2>2. ASSUME NEW i \in 1..Len(s), s[i] = y, y # Head(s)
        PROVE  \E k \in 1..Len(Tail(s)) : Tail(s)[k] = y
    <3>1. i # 1
      BY <1>1, <2>2
    <3>2. i - 1 \in 1..Len(Tail(s)) /\ Tail(s)[i - 1] = y
      BY <1>1, <2>2, <3>1
    <3> QED
      BY <3>2
  <2> QED
    BY <2>1, <2>2
<1> QED
  BY <1>1, <1>2, <1>3
-----------------------------------------------------------------------------
(* Init and the steps establish and keep the inductive invariant.          *)

\* The initial state satisfies the inductive invariant.
LEMMA InitIndInv == Init => IndInv
<1> SUFFICES ASSUME Init PROVE IndInv
  OBVIOUS
<1> USE DEF Init
<1>1. TypeOK
  <2>1. tasks \in Seq(Task) /\ ran \in Seq(Task)
    OBVIOUS
  <2>2. holders \subseteq Client \cup Owning /\ alive \subseteq Task
    OBVIOUS
  <2>3. /\ client \in [Client -> ClientPc]
        /\ waitsOn \in [Client -> Task \cup {NoTask}]
        /\ outcome \in [Task -> {"none", "value", "exception"}]
    BY DEF ClientPc
  <2> QED
    BY <2>1, <2>2, <2>3 DEF TypeOK, WorkerPc
<1>2. Len(tasks) = 0 /\ Len(ran) = 0
  OBVIOUS
<1>3. CurrentInv /\ LifeCycleInv
  BY <1>2, CallbackThreadAssumption DEF CurrentInv, LifeCycleInv, Queued
<1>4. RanInv
  BY <1>2 DEF RanInv, RunsAtMostOnce, SeqRange
<1>5. HoldersInv /\ DestructorInv
  BY CallbackThreadAssumption DEF HoldersInv, DestructorInv, Destroying
<1> QED
  BY <1>1, <1>3, <1>4, <1>5 DEF IndInv

\* What Submit does to the queue, by whoever calls it.
LEMMA SubmitQueue ==
    ASSUME TypeOK, LifeCycleInv, NEW t \in Task, NEW w, Submit(t, w)
    PROVE  /\ tasks' \in Seq(Task)
           /\ tasks' # <<>>
           /\ tasks # <<>> => Head(tasks') = Head(tasks)
           /\ \A u : Queued(u)' <=> Queued(u) \/ u = t
           /\ \A i, j \in 1..Len(tasks') : tasks'[i] = tasks'[j] => i = j
<1>1. tasks \in Seq(Task) /\ tasks' = Append(tasks, t) /\ ~Queued(t)
  BY DEF TypeOK, Submit, Unsubmitted
<1>2. /\ tasks' \in Seq(Task)
      /\ tasks' # <<>>
      /\ tasks # <<>> => Head(tasks') = Head(tasks)
  BY <1>1, AppendProperties, HeadTailAppend
<1>3. \A u : Queued(u)' <=> Queued(u) \/ u = t
  BY <1>1, AppendRange DEF Queued
<1>4. \A i, j \in 1..Len(tasks') : tasks'[i] = tasks'[j] => i = j
  BY <1>1, AppendRange DEF Queued, LifeCycleInv
<1> QED
  BY <1>2, <1>3, <1>4

\* A client's submit keeps the inductive invariant.
LEMMA ClientSubmitIndInv ==
    ASSUME IndInv, NEW c \in Client, NEW t \in Task, ClientSubmit(c, t)
    PROVE  IndInv'
<1> USE DEF IndInv
<1>1. /\ Submit(t, worker)
      /\ c \in holders
      /\ Unsubmitted(t)
      /\ UNCHANGED <<current, thrown, stop, client, waitsOn, outcome, ran>>
  BY DEF ClientSubmit, Submit, clientVars
<1>2. /\ tasks' \in Seq(Task)
      /\ tasks' # <<>>
      /\ tasks # <<>> => Head(tasks') = Head(tasks)
      /\ \A u : Queued(u)' <=> Queued(u) \/ u = t
      /\ \A i, j \in 1..Len(tasks') : tasks'[i] = tasks'[j] => i = j
  BY <1>1, SubmitQueue
<1>3. /\ worker' = IF worker \in {"none", "asleep"} THEN "loop" ELSE worker
      /\ worker # "exited"
      /\ joinable' = TRUE
      /\ ~stop
      /\ alive' = alive \cup {t}
      /\ holders' = IF t \in Owning THEN holders \cup {t} ELSE holders
  BY <1>1 DEF Submit, Woken, HoldersInv, DestructorInv
<1>4. TypeOK'
  BY <1>1, <1>2, <1>3 DEF TypeOK, WorkerPc
<1>5. CurrentInv'
  BY <1>1, <1>2, <1>3 DEF CurrentInv, Unsubmitted
<1>6. LifeCycleInv'
  BY <1>1, <1>2, <1>3 DEF LifeCycleInv, Unsubmitted
<1>7. RanInv'
  BY <1>1, <1>2, <1>3 DEF RanInv, RunsAtMostOnce, SeqRange
<1>8. HoldersInv'
  BY <1>1, <1>2, <1>3, CallbackThreadAssumption DEF HoldersInv, TypeOK
<1>9. DestructorInv'
  BY <1>1, <1>2, <1>3 DEF DestructorInv
<1> QED
  BY <1>4, <1>5, <1>6, <1>7, <1>8, <1>9
\* Client steps that leave the queue and the worker's task alone.
LEMMA ClientStepIndInv ==
    ASSUME IndInv, NEW c \in Client,
           \/ \E t \in Task : ClientWait(c, t)
           \/ ClientWaitReturns(c)
           \/ ClientDrop(c)
           \/ ClientRequestStop(c)
           \/ ClientJoin(c)
    PROVE  IndInv'
<1> USE DEF IndInv, queueVars, workerVars
<1>1. UNCHANGED <<tasks, current, thrown, outcome, alive, ran>>
  BY DEF ClientWait, ClientWaitReturns, ClientDrop, ClientRequestStop, ClientJoin
<1>2. \A u : Queued(u)' <=> Queued(u)
  BY <1>1 DEF Queued
<1>3. /\ worker \in WorkerPc
      /\ worker' = worker \/ (worker = "asleep" /\ worker' = "loop")
  BY DEF ClientWait, ClientWaitReturns, ClientDrop, ClientRequestStop, ClientJoin,
         RequestStop, Woken, TypeOK
<1>4. CurrentInv' /\ LifeCycleInv' /\ RanInv'
  BY <1>1, <1>2, <1>3 DEF CurrentInv, LifeCycleInv, RanInv, RunsAtMostOnce, SeqRange
<1>5. CASE \E t \in Task : ClientWait(c, t)
  BY <1>1, <1>4, <1>5 DEF ClientWait, TypeOK, HoldersInv, DestructorInv, ClientPc, Destroying
<1>6. CASE ClientWaitReturns(c)
  BY <1>1, <1>4, <1>6 DEF ClientWaitReturns, TypeOK, HoldersInv, DestructorInv, ClientPc,
                          Destroying
<1>7. CASE ClientDrop(c)
  <2>1. TypeOK'
    BY <1>1, <1>7 DEF ClientDrop, TypeOK, ClientPc
  <2>2. HoldersInv'
    BY <1>1, <1>7, CallbackThreadAssumption DEF ClientDrop, TypeOK, HoldersInv
  <2>3. \A d \in Client : client[d] \notin Destroying
    BY <1>7 DEF ClientDrop, DestructorInv
  <2>4. holders = {c} => \A d \in Client \ {c} : client[d] = "gone"
    BY <2>3 DEF HoldersInv, TypeOK, ClientPc, Destroying
  <2>5. DestructorInv'
    BY <1>1, <1>7, <2>3, <2>4 DEF ClientDrop, TypeOK, HoldersInv, DestructorInv, Destroying
  <2> QED
    BY <1>4, <2>1, <2>2, <2>5
<1>8. CASE ClientRequestStop(c)
  <2>1. TypeOK'
    BY <1>1, <1>8 DEF ClientRequestStop, RequestStop, Woken, TypeOK, ClientPc, WorkerPc
  <2>2. HoldersInv'
    BY <1>1, <1>8 DEF ClientRequestStop, RequestStop, Woken, TypeOK, HoldersInv,
                      DestructorInv, Destroying
  <2>3. DestructorInv'
    BY <1>1, <1>8 DEF ClientRequestStop, RequestStop, Woken, TypeOK, DestructorInv,
                      Destroying
  <2> QED
    BY <1>4, <2>1, <2>2, <2>3
<1>9. CASE ClientJoin(c)
  <2>1. TypeOK'
    BY <1>1, <1>9 DEF ClientJoin, TypeOK, ClientPc
  <2>2. HoldersInv'
    BY <1>1, <1>9 DEF ClientJoin, TypeOK, HoldersInv, DestructorInv, Destroying
  <2>3. DestructorInv'
    BY <1>1, <1>9 DEF ClientJoin, TypeOK, DestructorInv, Destroying
  <2> QED
    BY <1>4, <2>1, <2>2, <2>3
<1> QED
  BY <1>5, <1>6, <1>7, <1>8, <1>9

\* Worker steps that leave the queue alone.
LEMMA WorkerLoopIndInv ==
    ASSUME IndInv,
           \/ WorkerSleep \/ WorkerSpuriousWakeup \/ WorkerExit \/ WorkerTake
           \/ WorkerRequestStop \/ WorkerDetach
    PROVE  IndInv'
<1> USE DEF IndInv, queueVars, clientVars
<1>1. UNCHANGED <<tasks, client, waitsOn, holders, outcome, alive, ran>>
  BY DEF WorkerSleep, WorkerSpuriousWakeup, WorkerExit, WorkerTake, WorkerRequestStop,
         WorkerDetach
<1>2. \A u : Queued(u)' <=> Queued(u)
  BY <1>1 DEF Queued
<1>3. CASE WorkerSleep \/ WorkerSpuriousWakeup \/ WorkerExit
  <2>1. TypeOK'
    BY <1>1, <1>3 DEF WorkerSleep, WorkerSpuriousWakeup, WorkerExit, TypeOK, WorkerPc
  <2>2. CurrentInv' /\ LifeCycleInv' /\ RanInv'
    BY <1>1, <1>2, <1>3 DEF WorkerSleep, WorkerSpuriousWakeup, WorkerExit, CurrentInv,
                            LifeCycleInv, RanInv, RunsAtMostOnce, SeqRange
  <2>3. HoldersInv' /\ DestructorInv'
    BY <1>1, <1>3 DEF WorkerSleep, WorkerSpuriousWakeup, WorkerExit, HoldersInv,
                      DestructorInv
  <2> QED
    BY <2>1, <2>2, <2>3
<1>4. CASE WorkerTake
  <2>1. Head(tasks) \in Task /\ Queued(Head(tasks))
    BY <1>4, TailRange DEF WorkerTake, TypeOK, LifeCycleInv, Queued
  <2>2. TypeOK'
    BY <1>1, <1>4, <2>1 DEF WorkerTake, TypeOK, WorkerPc
  <2>3. CurrentInv' /\ LifeCycleInv'
    BY <1>1, <1>2, <1>4, <2>1 DEF WorkerTake, CurrentInv, LifeCycleInv
  <2>4. RanInv'
    BY <1>1, <1>4 DEF WorkerTake, RanInv, RunsAtMostOnce, SeqRange
  <2>5. HoldersInv' /\ DestructorInv'
    BY <1>1, <1>4 DEF WorkerTake, HoldersInv, DestructorInv
  <2> QED
    BY <2>2, <2>3, <2>4, <2>5
<1>5. CASE WorkerRequestStop \/ WorkerDetach
  <2>1. TypeOK'
    BY <1>1, <1>5 DEF WorkerRequestStop, WorkerDetach, RequestStop, TypeOK, WorkerPc
  <2>2. CurrentInv' /\ LifeCycleInv' /\ RanInv'
    BY <1>1, <1>2, <1>5 DEF WorkerRequestStop, WorkerDetach, RequestStop, CurrentInv,
                            LifeCycleInv, RanInv, RunsAtMostOnce, SeqRange
  <2>3. HoldersInv' /\ DestructorInv'
    BY <1>1, <1>5 DEF WorkerRequestStop, WorkerDetach, RequestStop, HoldersInv,
                      DestructorInv
  <2> QED
    BY <2>1, <2>2, <2>3
<1> QED
  BY <1>3, <1>4, <1>5
\* The task is run: it moves from the queue's front to the history.
LEMMA WorkerRunIndInv ==
    ASSUME IndInv, WorkerRun
    PROVE  IndInv'
<1> USE DEF IndInv, queueVars, clientVars, WorkerRun
<1>1. /\ current \in Task
      /\ Queued(current)
      /\ outcome[current] = "none"
      /\ current \notin SeqRange(ran)
  <2>1. tasks # <<>> /\ current = Head(tasks)
    BY DEF CurrentInv
  <2>2. current \in Task /\ Queued(current)
    BY <2>1, TailRange DEF TypeOK, LifeCycleInv, Queued
  <2> QED
    BY <2>2 DEF LifeCycleInv, RanInv, TypeOK
<1>2. \A u : Queued(u)' <=> Queued(u)
  BY DEF Queued
<1>3. TypeOK'
  BY <1>1, AppendProperties DEF TypeOK, WorkerPc
<1>4. CurrentInv' /\ LifeCycleInv'
  BY <1>1, <1>2 DEF CurrentInv, LifeCycleInv
<1>5. RanInv'
  <2>1. ran \in Seq(Task) /\ ran' = Append(ran, current)
    BY DEF TypeOK
  <2>2. \A u : u \in SeqRange(ran') <=> u \in SeqRange(ran) \/ u = current
    BY <1>1, <2>1, AppendRange DEF SeqRange
  <2>3. RunsAtMostOnce'
    BY <1>1, <2>1, AppendRange DEF RanInv, RunsAtMostOnce, SeqRange
  <2> QED
    BY <1>1, <2>2, <2>3 DEF RanInv, SeqRange
<1>6. HoldersInv' /\ DestructorInv'
  BY DEF HoldersInv, DestructorInv
<1> QED
  BY <1>3, <1>4, <1>5, <1>6

\* The front is popped: the worker alone holds the task now.
LEMMA WorkerPopIndInv ==
    ASSUME IndInv, WorkerPop
    PROVE  IndInv'
<1> USE DEF IndInv, clientVars, WorkerPop
<1>1. tasks \in Seq(Task) /\ tasks # <<>> /\ current = Head(tasks)
  BY DEF CurrentInv, TypeOK
<1>2. /\ tasks' \in Seq(Task)
      /\ current \in Task
      /\ Queued(current)
      /\ \A u : Queued(u)' <=> Queued(u) /\ u # current
      /\ \A i, j \in 1..Len(tasks') : tasks'[i] = tasks'[j] => i = j
  BY <1>1, TailRange DEF Queued, LifeCycleInv
<1>3. TypeOK'
  BY <1>2 DEF TypeOK, WorkerPc
<1>4. CurrentInv'
  BY <1>2 DEF CurrentInv
<1>5. LifeCycleInv'
  BY <1>2 DEF LifeCycleInv
<1>6. RanInv'
  BY DEF RanInv, RunsAtMostOnce, SeqRange
<1>7. HoldersInv' /\ DestructorInv'
  BY DEF HoldersInv, DestructorInv
<1> QED
  BY <1>3, <1>4, <1>5, <1>6, <1>7

\* The destructor of a closure submits a task.
LEMMA WorkerDestroySubmitsIndInv ==
    ASSUME IndInv, WorkerDestroySubmits
    PROVE  IndInv'
<1> USE DEF IndInv, clientVars
<1> DEFINE t == FollowUp[current]
<1>1. /\ Submit(t, worker)
      /\ worker = "destroy" /\ worker' = "destroy"
      /\ Unsubmitted(t)
      /\ current \in Task
      /\ t \in Task
      /\ current \in Owning
      /\ UNCHANGED <<current, thrown, stop, client, waitsOn, outcome, ran>>
  BY CallbackThreadAssumption DEF WorkerDestroySubmits, Submit, CurrentInv
<1>2. current \in holders
  BY <1>1 DEF LifeCycleInv, HoldersInv
<1> HIDE DEF t
<1>3. /\ tasks' \in Seq(Task)
      /\ \A u : Queued(u)' <=> Queued(u) \/ u = t
      /\ \A i, j \in 1..Len(tasks') : tasks'[i] = tasks'[j] => i = j
  BY <1>1, SubmitQueue
<1>4. /\ joinable' = TRUE
      /\ ~stop
      /\ alive' = alive \cup {t}
      /\ holders' = IF t \in Owning THEN holders \cup {t} ELSE holders
  BY <1>1, <1>2 DEF Submit, HoldersInv
<1>5. TypeOK'
  BY <1>1, <1>3, <1>4 DEF TypeOK, WorkerPc
<1>6. CurrentInv' /\ LifeCycleInv'
  BY <1>1, <1>3, <1>4 DEF CurrentInv, LifeCycleInv, Unsubmitted
<1>7. RanInv'
  BY <1>1 DEF RanInv, RunsAtMostOnce, SeqRange
<1>8. HoldersInv'
  BY <1>1, <1>2, <1>4, CallbackThreadAssumption DEF HoldersInv, TypeOK
<1>9. DestructorInv'
  BY <1>1, <1>2, <1>4 DEF DestructorInv
<1> QED
  BY <1>5, <1>6, <1>7, <1>8, <1>9

\* The closure is destroyed, which may drop the last reference.
LEMMA WorkerDestroyIndInv ==
    ASSUME IndInv, WorkerDestroy
    PROVE  IndInv'
<1> USE DEF IndInv, queueVars, clientVars, WorkerDestroy
<1>1. current \in Task /\ ~Queued(current) /\ current \in alive
  BY DEF CurrentInv, LifeCycleInv
<1>2. \A u : Queued(u)' <=> Queued(u)
  BY DEF Queued
<1>3. TypeOK'
  BY DEF TypeOK, WorkerPc
<1>4. CurrentInv' /\ LifeCycleInv'
  BY <1>1, <1>2 DEF CurrentInv, LifeCycleInv
<1>5. RanInv'
  BY DEF RanInv, RunsAtMostOnce, SeqRange
<1>6. HoldersInv'
  BY <1>1, CallbackThreadAssumption DEF HoldersInv
<1>7. DestructorInv'
  BY <1>1 DEF HoldersInv, DestructorInv
<1> QED
  BY <1>3, <1>4, <1>5, <1>6, <1>7

\* The promise is set.
LEMMA WorkerSetPromiseIndInv ==
    ASSUME IndInv, WorkerSetPromise
    PROVE  IndInv'
<1> USE DEF IndInv, queueVars, clientVars, WorkerSetPromise
<1>1. current \in Task /\ ~Queued(current) /\ current \notin alive
  BY DEF CurrentInv, LifeCycleInv
<1>2. \A u : Queued(u)' <=> Queued(u)
  BY DEF Queued
<1>3. TypeOK'
  BY DEF TypeOK, WorkerPc
<1>4. CurrentInv' /\ LifeCycleInv'
  BY <1>1, <1>2, CallbackThreadAssumption DEF CurrentInv, LifeCycleInv, TypeOK
<1>5. RanInv'
  BY <1>1, CallbackThreadAssumption DEF RanInv, RunsAtMostOnce, SeqRange, TypeOK
<1>6. HoldersInv' /\ DestructorInv'
  BY DEF HoldersInv, DestructorInv
<1> QED
  BY <1>3, <1>4, <1>5, <1>6

\* The conjunction is inductive.
LEMMA NextIndInv == IndInv /\ [Next]_vars => IndInv'
<1> SUFFICES ASSUME IndInv, [Next]_vars PROVE IndInv'
  OBVIOUS
<1>1. CASE UNCHANGED vars
  <2> USE <1>1 DEF vars, IndInv
  <2>1. \A u : Queued(u)' <=> Queued(u)
    BY DEF Queued
  <2>2. TypeOK'
    BY DEF TypeOK
  <2>3. CurrentInv' /\ LifeCycleInv'
    BY <2>1 DEF CurrentInv, LifeCycleInv
  <2>4. RanInv'
    BY DEF RanInv, RunsAtMostOnce, SeqRange
  <2>5. HoldersInv' /\ DestructorInv'
    BY DEF HoldersInv, DestructorInv
  <2> QED
    BY <2>2, <2>3, <2>4, <2>5
<1>2. CASE \E c \in Client, t \in Task : ClientSubmit(c, t) \/ ClientWait(c, t)
  BY <1>2, ClientSubmitIndInv, ClientStepIndInv
<1>3. CASE \E c \in Client : \/ ClientWaitReturns(c) \/ ClientDrop(c)
                            \/ ClientRequestStop(c) \/ ClientJoin(c)
  BY <1>3, ClientStepIndInv
<1>4. CASE WorkerSpuriousWakeup
  BY <1>4, WorkerLoopIndInv
<1>5. CASE WorkerStep
  BY <1>5, WorkerLoopIndInv, WorkerRunIndInv, WorkerPopIndInv, WorkerDestroySubmitsIndInv,
     WorkerDestroyIndInv, WorkerSetPromiseIndInv DEF WorkerStep
<1> QED
  BY <1>1, <1>2, <1>3, <1>4, <1>5 DEF Next, Terminated

-----------------------------------------------------------------------------
(* The theorems.                                                           *)

\* Every reachable state satisfies the inductive invariant.
THEOREM InductiveInvariant == Spec => []IndInv
  BY InitIndInv, NextIndInv, PTL DEF Spec

\* The state is well typed.
THEOREM TypeCorrect == Spec => []TypeOK
<1>1. IndInv => TypeOK
  BY DEF IndInv
<1> QED
  BY <1>1, InductiveInvariant, PTL

\* A ready future means a task that ran and whose closure is destroyed.
THEOREM FutureGuarantee == Spec => []FutureSetAfterDestruction
<1>1. IndInv => FutureSetAfterDestruction
  BY DEF IndInv, LifeCycleInv, RanInv, FutureSetAfterDestruction
<1> QED
  BY <1>1, InductiveInvariant, PTL

\* No task runs twice.
THEOREM AtMostOnce == Spec => []RunsAtMostOnce
<1>1. IndInv => RunsAtMostOnce
  BY DEF IndInv, RanInv
<1> QED
  BY <1>1, InductiveInvariant, PTL

\* ~CallbackThread returns to a client only after every task has completed.
THEOREM DestructorGuarantee == Spec => []DestructorDrains
<1>1. IndInv => DestructorDrains
  <2> SUFFICES ASSUME IndInv, NEW c \in Client, client[c] = "destroyed"
               PROVE  /\ worker \in {"none", "exited"}
                      /\ tasks = <<>>
                      /\ alive = {}
                      /\ \A t \in Task : Unsubmitted(t) \/ outcome[t] # "none"
    BY DEF DestructorDrains
  <2>1. worker \in {"none", "exited"} /\ tasks = <<>> /\ current = NoTask
    BY DEF IndInv, DestructorInv, Destroying, CurrentInv
  <2>2. \A t : ~Queued(t)
    BY <2>1 DEF Queued
  <2>3. alive = {}
    BY <2>1, <2>2 DEF IndInv, LifeCycleInv, TypeOK
  <2> QED
    BY <2>1, <2>2, <2>3, CallbackThreadAssumption DEF Unsubmitted
<1> QED
  BY <1>1, InductiveInvariant, PTL
\* After the last reference is dropped the object is not used any more.
THEOREM DestructionIsFinal == Spec => NoUseAfterDestruction
<1>1. ASSUME IndInv, [Next]_vars, holders = {}
      PROVE  holders' = {} /\ Len(tasks') <= Len(tasks)
  <2> USE <1>1 DEF IndInv, queueVars, clientVars, workerVars
  <2>1. tasks \in Seq(Task) /\ Len(tasks) \in Nat
    BY DEF TypeOK
  <2>2. CASE UNCHANGED <<holders, tasks>>
    BY <2>1, <2>2
  <2>3. CASE WorkerPop
    <3>1. tasks # <<>>
      BY <2>3 DEF WorkerPop, CurrentInv
    <3> QED
      BY <2>1, <2>3, <3>1, HeadTailProperties DEF WorkerPop
  <2>4. CASE WorkerDestroySubmits
    <3>1. current \in Task /\ current \in Owning
      BY <2>4, CallbackThreadAssumption DEF WorkerDestroySubmits, CurrentInv
    <3> QED
      BY <2>4, <3>1 DEF WorkerDestroySubmits, LifeCycleInv, HoldersInv
  <2>5. CASE WorkerDestroy
    BY <2>1, <2>5 DEF WorkerDestroy
  <2>6. ASSUME NEW c \in Client, NEW t \in Task, ClientSubmit(c, t)
        PROVE  FALSE
    BY <2>6 DEF ClientSubmit
  <2>7. ASSUME NEW c \in Client, ClientDrop(c)
        PROVE  FALSE
    BY <2>7 DEF ClientDrop
  <2>8. CASE Next
    BY <2>8, <2>2, <2>3, <2>4, <2>5, <2>6, <2>7
       DEF Next, WorkerStep, ClientWait, ClientWaitReturns, ClientRequestStop, ClientJoin,
           WorkerSleep, WorkerSpuriousWakeup, WorkerExit, WorkerTake, WorkerRun,
           WorkerRequestStop, WorkerDetach, WorkerSetPromise, Terminated, vars
  <2> QED
    BY <2>2, <2>8 DEF vars
<1>2. IndInv /\ [Next]_vars
        => [holders = {} => holders' = {} /\ Len(tasks') <= Len(tasks)]_vars
  BY <1>1
<1> QED
  BY <1>2, InductiveInvariant, PTL DEF Spec, NoUseAfterDestruction

-----------------------------------------------------------------------------
(* Refinement of the abstract task queue.                                  *)

\* Sequences as the refinement mapping uses them.
LEMMA ConcatSingleton ==
    ASSUME NEW S, NEW x \in S, NEW s \in Seq(S)
    PROVE  /\ <<x>> \o s \in Seq(S)
           /\ <<x>> \o s # <<>>
           /\ Head(<<x>> \o s) = x
           /\ Tail(<<x>> \o s) = s
           /\ s # <<>> => <<Head(s)>> \o Tail(s) = s
           /\ \A y \in S : <<x>> \o Append(s, y) = Append(<<x>> \o s, y)
           /\ \A i \in 1..Len(<<x>> \o s) :
                 (<<x>> \o s)[i] = x \/ \E j \in 1..Len(s) : s[j] = (<<x>> \o s)[i]
<1>1. <<x>> \in Seq(S) /\ Len(<<x>>) = 1
  OBVIOUS
<1>2. /\ <<x>> \o s \in Seq(S)
      /\ Len(<<x>> \o s) = 1 + Len(s)
      /\ \A i \in 1..1 + Len(s) : (<<x>> \o s)[i] = IF i <= 1 THEN x ELSE s[i - 1]
  BY <1>1, ConcatProperties
<1>3. <<x>> \o s # <<>> /\ Head(<<x>> \o s) = x
  BY <1>2
<1>4. Tail(<<x>> \o s) = s
  <2>1. /\ Tail(<<x>> \o s) \in Seq(S)
        /\ Len(Tail(<<x>> \o s)) = Len(s)
        /\ \A i \in 1..Len(s) : Tail(<<x>> \o s)[i] = s[i]
    BY <1>2, <1>3, HeadTailProperties
  <2> QED
    BY <2>1, SeqEqual
<1>5. ASSUME s # <<>> PROVE <<Head(s)>> \o Tail(s) = s
  <2>1. /\ Head(s) \in S /\ Tail(s) \in Seq(S) /\ Len(Tail(s)) = Len(s) - 1
        /\ \A i \in 1..Len(Tail(s)) : Tail(s)[i] = s[i + 1]
        /\ Head(s) = s[1]
    BY <1>5, HeadTailProperties
  <2>2. /\ <<Head(s)>> \o Tail(s) \in Seq(S)
        /\ Len(<<Head(s)>> \o Tail(s)) = 1 + Len(Tail(s))
        /\ \A i \in 1..1 + Len(Tail(s)) :
              (<<Head(s)>> \o Tail(s))[i] = IF i <= 1 THEN Head(s) ELSE Tail(s)[i - 1]
    <3>1. <<Head(s)>> \in Seq(S) /\ Len(<<Head(s)>>) = 1 /\ <<Head(s)>>[1] = Head(s)
      BY <2>1
    <3> QED
      BY <2>1, <3>1, ConcatProperties
  <2>3. \A i \in 1..Len(s) : (<<Head(s)>> \o Tail(s))[i] = s[i]
    BY <2>1, <2>2
  <2> QED
    BY <2>1, <2>2, <2>3, SeqEqual
<1>6. ASSUME NEW y \in S
      PROVE  <<x>> \o Append(s, y) = Append(<<x>> \o s, y)
  <2>1. <<y>> \in Seq(S)
    OBVIOUS
  <2>2. Append(s, y) = s \o <<y>> /\ Append(<<x>> \o s, y) = (<<x>> \o s) \o <<y>>
    BY <1>2, AppendIsConcat
  <2> QED
    BY <1>1, <2>1, <2>2, ConcatAssociative
<1>7. \A i \in 1..Len(<<x>> \o s) :
        (<<x>> \o s)[i] = x \/ \E j \in 1..Len(s) : s[j] = (<<x>> \o s)[i]
  BY <1>2
<1> QED
  BY <1>2, <1>3, <1>4, <1>5, <1>6, <1>7

\* Initial states map to initial states.
LEMMA InitRefines == Init => TQ!TQInit
  BY DEF Init, TQ!TQInit, InFlight

\* A submit is an abstract submit.
LEMMA SubmitRefines ==
    ASSUME IndInv, NEW t \in Task, NEW w, Submit(t, w), UNCHANGED <<outcome, current>>,
           InFlight' = InFlight
    PROVE  TQ!TQSubmit(t)
<1>1. /\ tasks \in Seq(Task) /\ tasks' = Append(tasks, t)
      /\ ~Queued(t) /\ t # current /\ outcome[t] = "none"
  BY DEF IndInv, TypeOK, Submit, Unsubmitted
<1>2. CASE InFlight = <<>>
  <2>1. InFlight \o tasks = tasks /\ (InFlight \o tasks)' = tasks'
    BY <1>1, <1>2, AppendProperties, ConcatEmptySeq
  <2> QED
    BY <1>1, <2>1 DEF TQ!TQSubmit, Queued
<1>3. CASE InFlight = <<current>> /\ current \in Task
  <2>1. (InFlight \o tasks)' = Append(InFlight \o tasks, t)
    BY <1>1, <1>3, ConcatSingleton
  <2>2. \A i \in 1..Len(InFlight \o tasks) : (InFlight \o tasks)[i] # t
    BY <1>1, <1>3, ConcatSingleton DEF Queued
  <2> QED
    BY <1>1, <2>1, <2>2 DEF TQ!TQSubmit
<1> QED
  BY <1>2, <1>3 DEF InFlight, IndInv, CurrentInv

\* Every step is an abstract step or leaves the abstract state alone.
LEMMA NextRefines == IndInv /\ [Next]_vars => [TQ!TQNext]_(TQ!tqVars)
<1> SUFFICES ASSUME IndInv, [Next]_vars PROVE [TQ!TQNext]_(TQ!tqVars)
  OBVIOUS
<1> USE DEF IndInv, queueVars, clientVars, workerVars
<1>1. tasks \in Seq(Task)
  BY DEF TypeOK
<1>2. CASE UNCHANGED <<tasks, outcome>> /\ InFlight' = InFlight
  BY <1>2 DEF TQ!tqVars
<1>3. ASSUME NEW c \in Client, NEW t \in Task, ClientSubmit(c, t)
      PROVE  TQ!TQNext
  <2>1. Submit(t, worker) /\ UNCHANGED <<outcome, current>> /\ c \in holders
    BY <1>3 DEF ClientSubmit
  <2>2. InFlight' = InFlight
    BY <2>1 DEF InFlight, Submit, Woken, HoldersInv
  <2> QED
    BY <2>1, <2>2, SubmitRefines DEF TQ!TQNext
<1>4. CASE WorkerDestroySubmits
  <2>1. /\ Submit(FollowUp[current], worker)
        /\ UNCHANGED <<outcome, current>>
        /\ FollowUp[current] \in Task
    BY <1>4, CallbackThreadAssumption DEF WorkerDestroySubmits, CurrentInv
  <2>2. InFlight' = InFlight
    BY <1>4 DEF InFlight, WorkerDestroySubmits
  <2> QED
    BY <2>1, <2>2, SubmitRefines DEF TQ!TQNext
<1>5. CASE WorkerPop
  <2>1. tasks # <<>> /\ current = Head(tasks) /\ tasks' = Tail(tasks) /\ outcome' = outcome
    BY <1>5 DEF WorkerPop, CurrentInv
  <2>2. InFlight = <<>> /\ InFlight' = <<current>>
    BY <1>5 DEF WorkerPop, InFlight
  <2>3. InFlight \o tasks = tasks
    BY <1>1, <2>2, ConcatEmptySeq
  <2>4. (InFlight \o tasks)' = tasks
    BY <1>1, <2>1, <2>2, HeadTailProperties, ConcatSingleton
  <2> QED
    BY <2>1, <2>3, <2>4 DEF TQ!tqVars
<1>6. CASE WorkerSetPromise
  <2>1. /\ current \in Task
        /\ tasks' = tasks
        /\ InFlight = <<current>> /\ InFlight' = <<>>
    BY <1>6 DEF WorkerSetPromise, InFlight, CurrentInv
  <2>2. /\ InFlight \o tasks # <<>>
        /\ Head(InFlight \o tasks) = current
        /\ Tail(InFlight \o tasks) = tasks
    BY <1>1, <2>1, ConcatSingleton
  <2>3. (InFlight \o tasks)' = tasks
    BY <1>1, <2>1, ConcatEmptySeq
  <2>4. PICK r \in {"value", "exception"} : outcome' = [outcome EXCEPT ![current] = r]
    BY <1>6 DEF WorkerSetPromise
  <2> QED
    BY <2>2, <2>3, <2>4 DEF TQ!TQNext, TQ!TQComplete
<1>7. CASE UNCHANGED vars
  BY <1>2, <1>7 DEF vars, InFlight
<1>8. CASE Next
  BY <1>8, <1>2, <1>3, <1>4, <1>5, <1>6
     DEF Next, WorkerStep, ClientWait, ClientWaitReturns, ClientDrop, ClientRequestStop,
         ClientJoin, RequestStop, Woken, WorkerSleep, WorkerSpuriousWakeup, WorkerExit,
         WorkerTake, WorkerRun, WorkerDestroy, WorkerRequestStop, WorkerDetach,
         Terminated, vars, InFlight
<1> QED
  BY <1>7, <1>8

\* The callback thread implements the abstract task queue.
THEOREM Refinement == Spec => RefinesTaskQueue
  BY InductiveInvariant, InitRefines, NextRefines, PTL DEF Spec, RefinesTaskQueue, TQ!TQSpec
=============================================================================
