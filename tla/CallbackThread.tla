---------------------------- MODULE CallbackThread ----------------------------
(***************************************************************************)
(* core::CallbackThread: a FIFO of tasks guarded by a mutex and a          *)
(* condition variable, one worker thread that is started by the first      *)
(* submit, and a destructor that runs when the last shared_ptr to the      *)
(* object is dropped, by a client thread (which joins the worker) or by    *)
(* the worker itself (which detaches it).                                  *)
(*                                                                         *)
(* A critical section of State::mutex is one action: nothing else touches  *)
(* the fields it guards.  The worker's loop body is one action per section *)
(* and per unlocked part, so a client may act between any two of them.     *)
(***************************************************************************)
EXTENDS Naturals, Sequences, FiniteSets

CONSTANTS Client,       \* threads that hold a shared_ptr to the object
          Task,         \* tasks that may be submitted
          Owning,       \* tasks whose closure holds a shared_ptr to the object
          FollowUp,     \* FollowUp[t]: what the destructor of t's closure submits
          NoTask

ASSUME CallbackThreadAssumption ==
    /\ Client # {}
    /\ Owning \subseteq Task
    /\ NoTask \notin Task
    /\ FollowUp \in [Task -> Task \cup {NoTask}]
    \* only a closure that keeps the object alive can submit to it
    /\ \A t \in Task : FollowUp[t] # NoTask => t \in Owning
    /\ Client \cap Task = {}

VARIABLES tasks,      \* State::tasks; the front stays queued while it runs
          worker,     \* where the worker thread is in its loop
          current,    \* the task the worker has moved out of the queue
          thrown,     \* eptr: the current task's run() threw
          joinable,   \* m_thread.joinable()
          stop,       \* the stop_token's state
          holders,    \* who holds a shared_ptr to the object
          client,     \* what each client thread is doing
          waitsOn,    \* the task whose future a client is waiting for
          outcome,    \* the state of each task's promise
          alive,      \* closures that are constructed and not yet destroyed
          ran         \* the tasks that were run, in order (history)

queueVars == <<tasks, stop, joinable>>
workerVars == <<worker, current, thrown>>
clientVars == <<client, waitsOn>>
vars == <<tasks, worker, current, thrown, joinable, stop, holders, client,
          waitsOn, outcome, alive, ran>>

WorkerPc == {"none", "loop", "asleep", "run", "pop", "destroy", "dtor",
             "detach", "set", "exited"}
\* "gone": dropped a shared_ptr that was not the last; "destroyed": returned
\* from ~CallbackThread
ClientPc == {"idle", "waiting", "gone", "dtor", "join", "destroyed"}

SubmittedByClosure == {FollowUp[t] : t \in Task} \ {NoTask}

Init ==
    /\ tasks = <<>>
    /\ worker = "none"
    /\ current = NoTask
    /\ thrown = FALSE
    /\ joinable = FALSE
    /\ stop = FALSE
    /\ holders = Client
    /\ client = [c \in Client |-> "idle"]
    /\ waitsOn = [c \in Client |-> NoTask]
    /\ outcome = [t \in Task |-> "none"]
    /\ alive = {}
    /\ ran = <<>>

Queued(t) == \E i \in 1..Len(tasks) : tasks[i] = t

Unsubmitted(t) == t \notin alive /\ ~Queued(t) /\ outcome[t] = "none" /\ t # current

\* notify_one: only the worker waits on the condition variable
Woken(w) == IF w = "asleep" THEN "loop" ELSE w

-----------------------------------------------------------------------------
(* The public interface, called by clients and by closures.                *)

\* mutant of Submit: the worker is not notified
SubmitSilently(t, w) ==
    /\ Unsubmitted(t)
    /\ tasks' = Append(tasks, t)
    /\ joinable' = TRUE
    /\ worker' = IF joinable THEN w ELSE "loop"
    /\ alive' = alive \cup {t}
    /\ holders' = IF t \in Owning THEN holders \cup {t} ELSE holders

\* mutant of Submit: the closure refers to the object without owning it
SubmitBorrowing(t, w) ==
    /\ Unsubmitted(t)
    /\ tasks' = Append(tasks, t)
    /\ joinable' = TRUE
    /\ worker' = IF joinable THEN Woken(w) ELSE "loop"
    /\ alive' = alive \cup {t}
    /\ UNCHANGED holders

\* submit: emplace, start the worker if there is none, notify_one.  `w' is
\* where the worker is when the caller is not the worker itself.
Submit(t, w) ==
    /\ Unsubmitted(t)
    /\ tasks' = Append(tasks, t)
    /\ joinable' = TRUE
    /\ worker' = IF joinable THEN Woken(w) ELSE "loop"
    /\ alive' = alive \cup {t}
    /\ holders' = IF t \in Owning THEN holders \cup {t} ELSE holders

ClientSubmit(c, t) ==
    /\ client[c] = "idle"
    /\ c \in holders
    /\ t \notin SubmittedByClosure
    /\ Submit(t, worker)
    /\ UNCHANGED <<current, thrown, stop, clientVars, outcome, ran>>

\* future.wait() on a task that was submitted
ClientWait(c, t) ==
    /\ client[c] = "idle"
    /\ ~Unsubmitted(t)
    /\ client' = [client EXCEPT ![c] = "waiting"]
    /\ waitsOn' = [waitsOn EXCEPT ![c] = t]
    /\ UNCHANGED <<queueVars, workerVars, holders, outcome, alive, ran>>

ClientWaitReturns(c) ==
    /\ client[c] = "waiting"
    /\ outcome[waitsOn[c]] # "none"
    /\ client' = [client EXCEPT ![c] = "idle"]
    /\ waitsOn' = [waitsOn EXCEPT ![c] = NoTask]
    /\ UNCHANGED <<queueVars, workerVars, holders, outcome, alive, ran>>

\* mutant of ClientDrop: destroys the object although others still hold it
ClientDropDestroys(c) ==
    /\ client[c] = "idle"
    /\ c \in holders
    /\ holders' = holders \ {c}
    /\ client' = [client EXCEPT ![c] = "dtor"]
    /\ UNCHANGED <<queueVars, workerVars, waitsOn, outcome, alive, ran>>

\* A client drops its shared_ptr; the last one to do so runs the destructor.
ClientDrop(c) ==
    /\ client[c] = "idle"
    /\ c \in holders
    /\ holders' = holders \ {c}
    /\ client' = [client EXCEPT ![c] = IF holders = {c} THEN "dtor" ELSE "gone"]
    /\ UNCHANGED <<queueVars, workerVars, waitsOn, outcome, alive, ran>>

-----------------------------------------------------------------------------
(* ~CallbackThread.                                                        *)

\* mutant of RequestStop: notify_one is forgotten
RequestStopSilently(w) ==
    /\ stop' = joinable
    /\ worker' = IF worker = "asleep" THEN "asleep" ELSE w

\* the locked part: request_stop (a no-op without a thread) and notify_one
RequestStop(w) ==
    /\ stop' = joinable
    /\ worker' = w

ClientRequestStop(c) ==
    /\ client[c] = "dtor"
    /\ RequestStop(Woken(worker))
    /\ client' = [client EXCEPT ![c] = IF joinable THEN "join" ELSE "destroyed"]
    /\ UNCHANGED <<tasks, joinable, current, thrown, holders, waitsOn, outcome,
                   alive, ran>>

ClientJoin(c) ==
    /\ client[c] = "join"
    /\ worker = "exited"
    /\ joinable' = FALSE
    /\ client' = [client EXCEPT ![c] = "destroyed"]
    /\ UNCHANGED <<tasks, stop, workerVars, holders, waitsOn, outcome, alive, ran>>

-----------------------------------------------------------------------------
(* The worker thread's loop.                                               *)

\* cond.wait found its predicate false
WorkerSleep ==
    /\ worker = "loop"
    /\ ~stop /\ tasks = <<>>
    /\ worker' = "asleep"
    /\ UNCHANGED <<queueVars, current, thrown, holders, clientVars, outcome, alive, ran>>

\* a spurious wakeup re-evaluates the predicate
WorkerSpuriousWakeup ==
    /\ worker = "asleep"
    /\ worker' = "loop"
    /\ UNCHANGED <<queueVars, current, thrown, holders, clientVars, outcome, alive, ran>>

\* mutant of WorkerExit: a requested stop ends the loop with tasks queued
WorkerExitUndrained ==
    /\ worker = "loop"
    /\ stop
    /\ worker' = "exited"
    /\ UNCHANGED <<queueVars, current, thrown, holders, clientVars, outcome, alive, ran>>

\* st.stop_requested() && tasks.empty(): the loop is left
WorkerExit ==
    /\ worker = "loop"
    /\ stop /\ tasks = <<>>
    /\ worker' = "exited"
    /\ UNCHANGED <<queueVars, current, thrown, holders, clientVars, outcome, alive, ran>>

\* mutant of WorkerTake: the front is not moved out of the queue
WorkerTakesNothing ==
    /\ worker = "loop"
    /\ tasks # <<>>
    /\ worker' = "run"
    /\ thrown' = FALSE
    /\ UNCHANGED <<queueVars, current, holders, clientVars, outcome, alive, ran>>

\* task and promise are moved out of the front, which stays in the queue
WorkerTake ==
    /\ worker = "loop"
    /\ tasks # <<>>
    /\ current' = Head(tasks)
    /\ worker' = "run"
    /\ thrown' = FALSE
    /\ UNCHANGED <<queueVars, holders, clientVars, outcome, alive, ran>>

\* task->run(), which may throw
WorkerRun ==
    /\ worker = "run"
    /\ ran' = Append(ran, current)
    /\ thrown' \in BOOLEAN
    /\ worker' = "pop"
    /\ UNCHANGED <<queueVars, current, holders, clientVars, outcome, alive>>

\* mutant of WorkerPop: the promise is set while the closure is still alive
WorkerPopAndSet ==
    /\ worker = "pop"
    /\ tasks' = Tail(tasks)
    /\ outcome' = [outcome EXCEPT ![current] = IF thrown THEN "exception" ELSE "value"]
    /\ worker' = "destroy"
    /\ UNCHANGED <<stop, joinable, current, thrown, holders, clientVars, alive, ran>>

\* mutant of WorkerPop: the front is left in the queue
WorkerForgetsPop ==
    /\ worker = "pop"
    /\ worker' = "destroy"
    /\ UNCHANGED <<tasks, stop, joinable, current, thrown, holders, clientVars,
                   outcome, alive, ran>>

\* the moved-from front leaves the queue
WorkerPop ==
    /\ worker = "pop"
    /\ tasks' = Tail(tasks)
    /\ worker' = "destroy"
    /\ UNCHANGED <<stop, joinable, current, thrown, holders, clientVars, outcome,
                   alive, ran>>

\* ~unique_ptr<Task>: the closure's members are destroyed.  A deferred
\* buffer's deleter submits the free into the queue while doing so.
WorkerDestroySubmits ==
    /\ worker = "destroy"
    /\ FollowUp[current] # NoTask
    /\ Submit(FollowUp[current], worker)
    /\ worker' = "destroy"
    /\ UNCHANGED <<current, thrown, stop, clientVars, outcome, ran>>

\* the closure is gone; releasing the last shared_ptr runs the destructor
WorkerDestroy ==
    /\ worker = "destroy"
    /\ FollowUp[current] # NoTask => ~Unsubmitted(FollowUp[current])
    /\ alive' = alive \ {current}
    /\ holders' = holders \ {current}
    /\ worker' = IF holders = {current} THEN "dtor" ELSE "set"
    /\ UNCHANGED <<queueVars, current, thrown, clientVars, outcome, ran>>

WorkerRequestStop ==
    /\ worker = "dtor"
    /\ RequestStop("detach")
    /\ UNCHANGED <<tasks, joinable, current, thrown, holders, clientVars, outcome,
                   alive, ran>>

\* the worker cannot join itself
WorkerDetach ==
    /\ worker = "detach"
    /\ joinable' = FALSE
    /\ worker' = "set"
    /\ UNCHANGED <<tasks, stop, current, thrown, holders, clientVars, outcome, alive, ran>>

WorkerSetPromise ==
    /\ worker = "set"
    /\ outcome' = [outcome EXCEPT ![current] = IF thrown THEN "exception" ELSE "value"]
    /\ current' = NoTask
    /\ worker' = "loop"
    /\ UNCHANGED <<queueVars, thrown, holders, clientVars, alive, ran>>

-----------------------------------------------------------------------------
WorkerStep ==
    \/ WorkerSleep \/ WorkerExit \/ WorkerTake \/ WorkerRun \/ WorkerPop
    \/ WorkerDestroySubmits \/ WorkerDestroy \/ WorkerRequestStop
    \/ WorkerDetach \/ WorkerSetPromise

\* everything is over: all futures are set and no thread has anything to do
Terminated ==
    /\ \A c \in Client : client[c] \in {"gone", "destroyed"}
    /\ worker \in {"none", "exited"}
    /\ UNCHANGED vars

Next ==
    \/ \E c \in Client, t \in Task : ClientSubmit(c, t) \/ ClientWait(c, t)
    \/ \E c \in Client : \/ ClientWaitReturns(c) \/ ClientDrop(c)
                         \/ ClientRequestStop(c) \/ ClientJoin(c)
    \/ WorkerSpuriousWakeup
    \/ WorkerStep
    \/ Terminated

(* The operating system runs the worker and a client inside a call; nobody *)
(* forces a client to make another call.  A task's run() returns.          *)
Fairness ==
    /\ WF_vars(WorkerStep)
    /\ \A c \in Client : WF_vars(ClientWaitReturns(c) \/ ClientRequestStop(c) \/ ClientJoin(c))

Spec == Init /\ [][Next]_vars
FairSpec == Spec /\ Fairness
-----------------------------------------------------------------------------
(* Properties.                                                             *)

SeqRange(s) == {s[i] : i \in 1..Len(s)}

\* Type invariant of the callback thread's state.
TypeOK ==
    /\ tasks \in Seq(Task)
    /\ worker \in WorkerPc
    /\ current \in Task \cup {NoTask}
    /\ thrown \in BOOLEAN
    /\ joinable \in BOOLEAN
    /\ stop \in BOOLEAN
    /\ holders \subseteq Client \cup Owning
    /\ client \in [Client -> ClientPc]
    /\ waitsOn \in [Client -> Task \cup {NoTask}]
    /\ outcome \in [Task -> {"none", "value", "exception"}]
    /\ alive \subseteq Task
    /\ ran \in Seq(Task)

\* "It is guaranteed that the task is fully destroyed before the future's
\* result is set" (submit): whoever sees the future ready finds the task run,
\* its closure destroyed and the queue's front already popped.
FutureSetAfterDestruction ==
    \A t \in Task : outcome[t] # "none" =>
        /\ t \notin alive
        /\ ~Queued(t)
        /\ t \in SeqRange(ran)

\* No task is run twice, although the front stays in the queue while it runs.
RunsAtMostOnce ==
    \A i, j \in 1..Len(ran) : ran[i] = ran[j] => i = j

\* When ~CallbackThread returns in a client, the worker is gone and left
\* nothing behind: the queue is empty, every closure is destroyed and every
\* future that was handed out is set (submit and destroy race with the worker).
DestructorDrains ==
    \A c \in Client : client[c] = "destroyed" =>
        /\ worker \in {"none", "exited"}
        /\ tasks = <<>>
        /\ alive = {}
        /\ \A t \in Task : Unsubmitted(t) \/ outcome[t] # "none"

\* Once the last shared_ptr is dropped nobody gets a new one and nothing is
\* submitted any more, not even by the destructor of a closure: ~CallbackThread
\* never races with submit.
NoUseAfterDestruction ==
    [][holders = {} => holders' = {} /\ Len(tasks') <= Len(tasks)]_vars

\* Every submitted task completes, whatever the clients do meanwhile: the
\* notification of a submit is never lost, and a task submitted by the
\* closure that held the last reference is still run by the detached worker.
EveryTaskCompletes ==
    \A t \in Task : t \in alive ~> outcome[t] # "none"

\* A client that runs the destructor returns from it: the worker always
\* learns of the stop request, also when it is about to sleep.
DestructorReturns ==
    \A c \in Client : client[c] = "dtor" ~> client[c] = "destroyed"

\* The callback thread implements the abstract task queue: a task is
\* outstanding from submit until its promise is set.
InFlight == IF worker \in {"destroy", "dtor", "detach", "set"} THEN <<current>> ELSE <<>>

TQ == INSTANCE TaskQueue WITH outstanding <- InFlight \o tasks

RefinesTaskQueue == TQ!TQSpec
-----------------------------------------------------------------------------
(* The inductive invariant behind the safety properties.                   *)

Destroying == {"dtor", "join", "destroyed"}

\* Which task the worker holds, relative to the queue.
CurrentInv ==
    /\ worker \in {"run", "pop"} => tasks # <<>> /\ current = Head(tasks)
    /\ worker \in {"destroy", "dtor", "detach", "set"} => current \in Task /\ ~Queued(current)
    /\ worker \in {"none", "loop", "asleep", "exited"} => current = NoTask

\* A task is queued, in the worker's hands, completed or not submitted.
LifeCycleInv ==
    /\ \A i, j \in 1..Len(tasks) : tasks[i] = tasks[j] => i = j
    /\ \A t \in Task :
        /\ t \in alive <=> Queued(t) \/ (worker = "destroy" /\ t = current)
        /\ outcome[t] # "none" => t \notin alive /\ t # current

\* The history holds the completed tasks and the one that was just run.
RanInv ==
    /\ RunsAtMostOnce
    /\ \A t \in Task : t \in SeqRange(ran) <=>
          \/ outcome[t] # "none"
          \/ t = current /\ worker \in {"pop", "destroy", "dtor", "detach", "set"}

\* Who keeps the object alive, and what the worker's existence says of it.
HoldersInv ==
    /\ \A c \in Client : c \in holders <=> client[c] \in {"idle", "waiting"}
    /\ \A t \in Task : t \in holders <=> t \in alive /\ t \in Owning
    /\ holders # {} => ~stop /\ (joinable <=> worker # "none")

\* The destructor is run by one thread, after the last reference is dropped.
DestructorInv ==
    /\ \A c \in Client : client[c] \in Destroying =>
        /\ holders = {}
        /\ worker \notin {"dtor", "detach"}
        /\ \A d \in Client \ {c} : client[d] = "gone"
        /\ client[c] = "dtor" => ~stop /\ (joinable <=> worker # "none")
        /\ client[c] = "join" => stop /\ worker # "none"
        /\ client[c] = "destroyed" => worker \in {"none", "exited"}
    /\ worker \in {"dtor", "detach"} => holders = {}
    /\ worker = "none" => tasks = <<>> /\ ~joinable
    /\ worker = "exited" => tasks = <<>> /\ stop
    /\ stop => holders = {} /\ worker # "asleep"

IndInv ==
    /\ TypeOK
    /\ CurrentInv
    /\ LifeCycleInv
    /\ RanInv
    /\ HoldersInv
    /\ DestructorInv
=============================================================================
