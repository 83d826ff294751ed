------------------------------ MODULE HostQueue ------------------------------
(***************************************************************************)
(* cpu::Queue, cpu::Event and cpu::Device: user threads enqueue work and   *)
(* events, insert dependencies between queues and wait for queues, events  *)
(* and the device.  A non-blocking queue hands its work to a callback      *)
(* thread; a blocking queue runs it in the caller, under the queue's       *)
(* recursive mutex, and uses its callback thread for deferred tasks only.  *)
(*                                                                         *)
(* The callback threads are those of TaskQueue, in the steps a client can  *)
(* tell apart: run the front, pop it, destroy its closure, set its future. *)
(* A lock that is acquired while nothing else is held and released in the  *)
(* same section is a guard; the mutexes of events and blocking queues are  *)
(* variables because some calls hold them while they wait.                 *)
(***************************************************************************)
EXTENDS Naturals, Sequences, FiniteSets

CONSTANTS Thread,        \* user threads
          Queue,
          Blocking,      \* the queues made with queueKind::blocking
          Event,
          None,          \* no thread, queue or event
          Programs       \* the programs: [calls, max], the calls [th, call, q, e]
                         \* a program makes and how many each thread makes (bound)

ASSUME HostQueueAssumption ==
    /\ Blocking \subseteq Queue
    /\ IsFiniteSet(Queue)
    /\ None \notin Thread \cup Queue \cup Event
    /\ \A p \in Programs :
          /\ p.calls \subseteq
                [th : Thread, q : Queue \cup {None}, e : Event \cup Queue \cup {None},
                 call : {"submit", "deferred", "keepAlive", "event", "waitFor", "isComplete",
                         "waitQueue", "waitEvent", "waitDevice", "drop"}]
          /\ p.max \in [Thread -> Nat]

VARIABLES program,    \* the program that runs
          op,         \* op[i]: the i-th operation submitted to any queue
          tasks,      \* tasks[q]: CallbackThread::State::tasks of queue q
          worker,     \* worker[q]: what q's callback thread does with its task
          current,    \* current[q]: the task it does that with
          executed,   \* operations that ran
          ready,      \* operations whose future is set
          event,      \* event[e]: m_enqueueCount, m_lastReadyEnqueueCount, m_future
          eLock,      \* eLock[e]: owner of Event::m_mutex
          qLock,      \* qLock[q]: owner of Queue::m_mutex, of a blocking queue
          depth,      \* depth[q]: m_blockingTaskExecutionDepth
          running,    \* running[q]: nested operations the owner of qLock[q] is in
          thread,     \* thread[t]: the call user thread t is in
          held,       \* queues whose handle is alive
          left,       \* left[t]: how many calls t still makes
          need,       \* need[q]: what a new operation of q must come after (history)
          promised    \* operations some wait has reported as done (history)

callbackVars == <<tasks, worker, current>>
historyVars == <<need, promised>>
vars == <<program, op, tasks, worker, current, executed, ready, event, eLock, qLock, depth,
          running, thread, held, left, need, promised>>

Idle == [at |-> "idle", q |-> None, e |-> None, future |-> 0, count |-> 0,
         goal |-> {}, rest |-> {}]

Init ==
    /\ program \in Programs
    /\ op = <<>>
    /\ tasks = [q \in Queue |-> <<>>]
    /\ worker = [q \in Queue |-> "idle"]
    /\ current = [q \in Queue |-> 0]
    /\ executed = {}
    /\ ready = {}
    /\ event = [e \in Event |-> [count |-> 0, last |-> 0, future |-> 0, covers |-> {}]]
    /\ eLock = [e \in Event |-> None]
    /\ qLock = [q \in Queue |-> None]
    /\ depth = [q \in Queue |-> 0]
    /\ running = [q \in Queue |-> <<>>]
    /\ thread = [t \in Thread |-> Idle]
    /\ held = Queue
    /\ left = program.max
    /\ need = [q \in Queue |-> {}]
    /\ promised = {}

\* The future of a blocking queue's event is fulfilled from the start: it has
\* number 0.
IsSet(future) == future = 0 \/ future \in ready

IsReady(e) == event[e].last = event[e].count

NewId == Len(op) + 1

\* An operation comes after what its queue needs and what `after' adds to it.
Operation(kind, q, e, number, after) ==
    [kind |-> kind, q |-> q, e |-> e, number |-> number, before |-> need[q] \cup after]

\* CallbackThread::submit.  A deferred task of a blocking queue does not hold
\* up the operations that follow it.
Post(kind, q, e, number, after) ==
    /\ op' = Append(op, Operation(kind, q, e, number, after))
    /\ tasks' = [tasks EXCEPT ![q] = Append(@, NewId)]
    /\ need' = IF q \in Blocking THEN need
               ELSE [need EXCEPT ![q] = @ \cup after \cup {NewId}]

MayCall(t, call, q, e) ==
    /\ [th |-> t, call |-> call, q |-> q, e |-> e] \in program.calls
    /\ thread[t] = Idle
    /\ left[t] > 0
    /\ q # None => q \in held

\* the call is made: it is either over or leaves the thread in `state'
Called(t, state) ==
    /\ left' = [left EXCEPT ![t] = @ - 1]
    /\ thread' = [thread EXCEPT ![t] = state]

-----------------------------------------------------------------------------
(* Queue::submit and the operations built on it: kernels, host functions,  *)
(* native functions, memcpy, memset, fill.                                 *)

SubmitAsync(t, q) ==
    /\ MayCall(t, "submit", q, None)
    /\ q \notin Blocking
    /\ Post("task", q, None, 0, {})
    /\ Called(t, Idle)
    /\ UNCHANGED <<worker, current, executed, ready, event, eLock, qLock, depth, running,
                   held, promised>>

\* lock m_mutex (again, when nested), count the depth, start fn(); a nested
\* operation runs inside the ones that are running
StartBlocking(t, q) ==
    /\ qLock[q] \in {None, t}
    /\ qLock' = [qLock EXCEPT ![q] = t]
    /\ depth' = [depth EXCEPT ![q] = @ + 1]
    /\ op' = Append(op, [Operation("task", q, None, 0, {}) EXCEPT
                            !.before = @ \ {running[q][i] : i \in 1..Len(running[q])}])
    /\ running' = [running EXCEPT ![q] = Append(@, NewId)]
    /\ need' = [need EXCEPT ![q] = @ \cup {NewId}]

SubmitBlocking(t, q) ==
    /\ MayCall(t, "submit", q, None)
    /\ q \in Blocking
    /\ StartBlocking(t, q)
    /\ Called(t, [Idle EXCEPT !.at = "running", !.q = q])
    /\ UNCHANGED <<callbackVars, executed, ready, event, eLock, held, promised>>

\* the task drops the last reference to a deferred buffer of its own queue:
\* the deleter submits the free into the queue the task is running in
SubmitNested(t) ==
    LET q == thread[t].q
    IN  /\ thread[t].at = "running"
        /\ Len(running[q]) = 1
        /\ left[t] > 0
        /\ StartBlocking(t, q)
        /\ left' = [left EXCEPT ![t] = @ - 1]
        /\ UNCHANGED <<callbackVars, executed, ready, event, eLock, thread, held, promised>>

\* mutant of FinishDepth: a flag instead of a counter
ClearDepth(q) == [depth EXCEPT ![q] = 0]

\* mutant of FinishDepth: decremented by the guard and once more by hand
FinishDepthTwice(q) == [depth EXCEPT ![q] = @ - 2]

\* ~DepthGuard
FinishDepth(q) == [depth EXCEPT ![q] = @ - 1]


\* fn() returned or threw; the depth is restored and the lock released
FinishBlocking(t) ==
    LET q == thread[t].q
        n == Len(running[q])
    IN  /\ thread[t].at = "running"
        /\ executed' = executed \cup {running[q][n]}
        /\ ready' = ready \cup {running[q][n]}
        /\ running' = [running EXCEPT ![q] = SubSeq(@, 1, n - 1)]
        /\ depth' = FinishDepth(q)
        /\ qLock' = IF n = 1 THEN [qLock EXCEPT ![q] = None] ELSE qLock
        /\ thread' = IF n = 1 THEN [thread EXCEPT ![t] = Idle] ELSE thread
        /\ UNCHANGED <<op, callbackVars, event, eLock, held, left, historyVars>>

\* enqueueHostFnDeferred: through the callback thread in either kind of queue.
\* `to' is the queue of a deferred buffer that the closure keeps alive
\* (SharedBuffer::keepAlive), or None.
Deferred(t, q, to, call, kind) ==
    /\ MayCall(t, call, q, to)
    /\ q \in Blocking => qLock[q] = None
    /\ to # None => to \in held
    /\ Post(kind, q, to, 0, {})
    /\ Called(t, Idle)
    /\ UNCHANGED <<worker, current, executed, ready, event, eLock, qLock, depth, running,
                   held, promised>>

EnqueueDeferred(t, q) == Deferred(t, q, None, "deferred", "task")
KeepAlive(t, q, to) == Deferred(t, q, to, "keepAlive", "keep")

-----------------------------------------------------------------------------
(* Events.                                                                 *)

\* Enqueue::Event on a non-blocking queue, all of it under the event's mutex
EnqueueEventAsync(t, q, e) ==
    /\ MayCall(t, "event", q, e)
    /\ q \notin Blocking
    /\ eLock[e] = None
    /\ event' = [event EXCEPT ![e] = [count |-> @.count + 1, last |-> @.last,
                                      future |-> NewId, covers |-> need[q]]]
    /\ Post("event", q, e, event[e].count + 1, {})
    /\ Called(t, Idle)
    /\ UNCHANGED <<worker, current, executed, ready, eLock, qLock, depth, running, held,
                   promised>>

\* on a blocking queue the queue's mutex is awaited with the event's mutex held
EnqueueEventLock(t, q, e) ==
    /\ MayCall(t, "event", q, e)
    /\ q \in Blocking
    /\ eLock[e] = None
    /\ eLock' = [eLock EXCEPT ![e] = t]
    /\ event' = [event EXCEPT ![e].count = @ + 1]
    /\ Called(t, [Idle EXCEPT !.at = "eventLocked", !.q = q, !.e = e])
    /\ UNCHANGED <<op, callbackVars, executed, ready, qLock, depth, running, held, historyVars>>

\* mutant of EnqueueEventBlocking: m_lastReadyEnqueueCount is not updated
EnqueueEventUnsignalled(t) ==
    LET q == thread[t].q
        e == thread[t].e
    IN  /\ thread[t].at = "eventLocked"
        /\ qLock[q] = None
        /\ event' = [event EXCEPT ![e].future = 0, ![e].covers = need[q]]
        /\ eLock' = [eLock EXCEPT ![e] = None]
        /\ thread' = [thread EXCEPT ![t] = Idle]
        /\ UNCHANGED <<op, callbackVars, executed, ready, qLock, depth, running, held, left,
                       historyVars>>

\* then the event is signalled and its future fulfilled at once
EnqueueEventBlocking(t) ==
    LET q == thread[t].q
        e == thread[t].e
    IN  /\ thread[t].at = "eventLocked"
        /\ qLock[q] = None
        /\ event' = [event EXCEPT ![e] = [count |-> @.count, last |-> @.count,
                                          future |-> 0, covers |-> need[q]]]
        /\ eLock' = [eLock EXCEPT ![e] = None]
        /\ thread' = [thread EXCEPT ![t] = Idle]
        /\ UNCHANGED <<op, callbackVars, executed, ready, qLock, depth, running, held, left,
                       historyVars>>

\* IsEventComplete returned true
IsComplete(t, e) ==
    /\ MayCall(t, "isComplete", None, e)
    /\ eLock[e] = None
    /\ IsReady(e)
    /\ promised' = promised \cup event[e].covers
    /\ Called(t, Idle)
    /\ UNCHANGED <<op, callbackVars, executed, ready, event, eLock, qLock, depth, running,
                   held, need>>

\* WaitFor::Op of an event that is ready does nothing
WaitForReady(t, q, e) ==
    /\ MayCall(t, "waitFor", q, e)
    /\ eLock[e] = None
    /\ IsReady(e)
    /\ need' = [need EXCEPT ![q] = @ \cup event[e].covers]
    /\ Called(t, Idle)
    /\ UNCHANGED <<op, callbackVars, executed, ready, event, eLock, qLock, depth, running,
                   held, promised>>

\* non-blocking: copy the future, unlock the event ...
WaitForAsync(t, q, e) ==
    /\ MayCall(t, "waitFor", q, e)
    /\ q \notin Blocking
    /\ eLock[e] = None
    /\ ~IsReady(e)
    /\ Called(t, [Idle EXCEPT !.at = "futureCopied", !.q = q, !.e = e,
                              !.future = event[e].future, !.goal = event[e].covers])
    /\ UNCHANGED <<op, callbackVars, executed, ready, event, eLock, qLock, depth, running,
                   held, historyVars>>

\* ... and submit a task that waits for it
WaitForSubmit(t) ==
    /\ thread[t].at = "futureCopied"
    /\ Post("waitFor", thread[t].q, thread[t].e, thread[t].future, thread[t].goal)
    /\ thread' = [thread EXCEPT ![t] = Idle]
    /\ UNCHANGED <<worker, current, executed, ready, event, eLock, qLock, depth, running,
                   held, left, promised>>

\* blocking: await the queue's mutex with the event's mutex held ...
WaitForLock(t, q, e) ==
    /\ MayCall(t, "waitFor", q, e)
    /\ q \in Blocking
    /\ eLock[e] = None
    /\ ~IsReady(e)
    /\ eLock' = [eLock EXCEPT ![e] = t]
    /\ Called(t, [Idle EXCEPT !.at = "waitForLocked", !.q = q, !.e = e])
    /\ UNCHANGED <<op, callbackVars, executed, ready, event, qLock, depth, running, held,
                   historyVars>>

\* ... then release the event and keep the queue ...
WaitForBlocking(t) ==
    LET q == thread[t].q
        e == thread[t].e
    IN  /\ thread[t].at = "waitForLocked"
        /\ qLock[q] = None
        /\ qLock' = [qLock EXCEPT ![q] = t]
        /\ eLock' = [eLock EXCEPT ![e] = None]
        /\ thread' = [thread EXCEPT ![t].at = "waitForFuture", ![t].future = event[e].future,
                                    ![t].goal = event[e].covers]
        /\ UNCHANGED <<op, callbackVars, executed, ready, event, depth, running, held, left,
                       historyVars>>

\* mutant of WaitForReturns: the future is not awaited
WaitForReturnsEarly(t) ==
    LET q == thread[t].q
    IN  /\ thread[t].at = "waitForFuture"
        /\ qLock' = [qLock EXCEPT ![q] = None]
        /\ need' = [need EXCEPT ![q] = @ \cup thread[t].goal]
        /\ thread' = [thread EXCEPT ![t] = Idle]
        /\ UNCHANGED <<op, callbackVars, executed, ready, event, eLock, depth, running, held,
                       left, promised>>

\* ... until the future is set
WaitForReturns(t) ==
    LET q == thread[t].q
    IN  /\ thread[t].at = "waitForFuture"
        /\ IsSet(thread[t].future)
        /\ qLock' = [qLock EXCEPT ![q] = None]
        /\ need' = [need EXCEPT ![q] = @ \cup thread[t].goal]
        /\ thread' = [thread EXCEPT ![t] = Idle]
        /\ UNCHANGED <<op, callbackVars, executed, ready, event, eLock, depth, running, held,
                       left, promised>>

-----------------------------------------------------------------------------
(* Waiting in the host thread.                                             *)

\* Event::wait up to the first future.get()
WaitEvent(t, e) ==
    /\ MayCall(t, "waitEvent", None, e)
    /\ eLock[e] = None
    /\ IF event[e].count > event[e].last
       THEN /\ Called(t, [Idle EXCEPT !.at = "waitEvent", !.e = e,
                                      !.future = event[e].future,
                                      !.count = event[e].count, !.goal = event[e].covers])
            /\ UNCHANGED promised
       ELSE /\ Called(t, Idle)
            /\ promised' = promised \cup event[e].covers
    /\ UNCHANGED <<op, callbackVars, executed, ready, event, eLock, qLock, depth, running,
                   held, need>>

\* the loop of Event::wait: the event may have been enqueued again meanwhile
WaitEventLoop(t) ==
    LET e == thread[t].e
    IN  /\ thread[t].at = "waitEvent"
        /\ IsSet(thread[t].future)
        /\ eLock[e] = None
        /\ IF thread[t].count > event[e].last
           THEN /\ thread' = [thread EXCEPT ![t].future = event[e].future]
                /\ UNCHANGED promised
           ELSE /\ thread' = [thread EXCEPT ![t] = Idle]
                /\ promised' = promised \cup thread[t].goal
        /\ UNCHANGED <<op, callbackVars, executed, ready, event, eLock, qLock, depth, running,
                       held, left, need>>

\* Wait::Op of a queue (rest = {q}) and Device::wait (rest = every queue): one
\* queue after the other, in any order; the device's list holds weak pointers
WaitQueue(t, q) ==
    /\ MayCall(t, "waitQueue", q, None)
    /\ Called(t, [Idle EXCEPT !.at = "waitQueues", !.q = q, !.rest = {q}, !.goal = need[q]])
    /\ UNCHANGED <<op, callbackVars, executed, ready, event, eLock, qLock, depth, running,
                   held, historyVars>>

WaitDevice(t) ==
    /\ MayCall(t, "waitDevice", None, None)
    /\ Called(t, [Idle EXCEPT !.at = "waitQueues", !.rest = Queue,
                              !.goal = UNION {need[q] : q \in Queue}])
    /\ UNCHANGED <<op, callbackVars, executed, ready, event, eLock, qLock, depth, running,
                   held, historyVars>>

\* no blocking task is executed, or no task is queued or executed
IsQueueEmpty(q) == IF q \in Blocking THEN depth[q] = 0 ELSE tasks[q] = <<>>

\* a queue that is gone or empty is not waited for
SkipQueue(t, q) ==
    /\ thread[t].at = "waitQueues"
    /\ q \in thread[t].rest
    /\ q \in held => IsQueueEmpty(q)
    /\ thread' = [thread EXCEPT ![t].rest = @ \ {q}]
    /\ UNCHANGED <<op, callbackVars, executed, ready, event, eLock, qLock, depth, running,
                   held, left, historyVars>>

\* otherwise a marker is submitted and its future awaited
SubmitMarker(t, q) ==
    /\ thread[t].at = "waitQueues"
    /\ q \in thread[t].rest \cap held
    /\ ~IsQueueEmpty(q)
    /\ thread' = [thread EXCEPT ![t].at = "marker", ![t].q = q, ![t].rest = @ \ {q},
                                ![t].future = IF q \in Blocking THEN 0 ELSE NewId]
    /\ IF q \in Blocking
       THEN UNCHANGED <<op, tasks, need>>
       ELSE Post("marker", q, None, 0, {})
    /\ UNCHANGED <<worker, current, executed, ready, event, eLock, qLock, depth, running,
                   held, left, promised>>

\* a blocking queue runs the marker as soon as its mutex is free
MarkerReturns(t) ==
    LET q == thread[t].q
    IN  /\ thread[t].at = "marker"
        /\ IF q \in Blocking THEN qLock[q] = None ELSE IsSet(thread[t].future)
        /\ thread' = [thread EXCEPT ![t].at = "waitQueues", ![t].q = None, ![t].future = 0]
        /\ UNCHANGED <<op, callbackVars, executed, ready, event, eLock, qLock, depth, running,
                       held, left, historyVars>>

WaitQueuesReturns(t) ==
    /\ thread[t].at = "waitQueues"
    /\ thread[t].rest = {}
    /\ thread' = [thread EXCEPT ![t] = Idle]
    /\ promised' = promised \cup thread[t].goal
    /\ UNCHANGED <<op, callbackVars, executed, ready, event, eLock, qLock, depth, running,
                   held, left, need>>

\* The last handle of a queue is dropped: nobody is inside a call on the queue
\* and no closure keeps it alive.  From here on the weak pointers are expired.
DropQueue(t, q) ==
    /\ MayCall(t, "drop", q, None)
    /\ \A u \in Thread : thread[u].q # q
    /\ \A i \in 1..Len(op) : op[i].kind = "keep" /\ op[i].e = q => i \in ready
    /\ held' = held \ {q}
    /\ Called(t, [Idle EXCEPT !.at = "join", !.q = q])
    /\ UNCHANGED <<op, callbackVars, executed, ready, event, eLock, qLock, depth, running,
                   historyVars>>

\* ~CallbackThread returns when the worker has drained its tasks
DropReturns(t) ==
    LET q == thread[t].q
    IN  /\ thread[t].at = "join"
        /\ tasks[q] = <<>> /\ worker[q] = "idle"
        /\ thread' = [thread EXCEPT ![t] = Idle]
        /\ UNCHANGED <<op, callbackVars, executed, ready, event, eLock, qLock, depth, running,
                       held, left, historyVars>>

-----------------------------------------------------------------------------
(* The callback threads.                                                   *)

\* task->run() of anything but an event
WorkerRun(q) ==
    /\ worker[q] = "idle"
    /\ tasks[q] # <<>>
    /\ LET i == Head(tasks[q])
       IN  /\ op[i].kind # "event"
           /\ op[i].kind = "waitFor" => IsSet(op[i].number)
           /\ executed' = executed \cup {i}
           /\ current' = [current EXCEPT ![q] = i]
    /\ worker' = [worker EXCEPT ![q] = "pop"]
    /\ UNCHANGED <<op, tasks, ready, event, eLock, qLock, depth, running, thread, held, left,
                   historyVars>>

\* mutant of SignalledEvent: an enqueue that was superseded signals the event
SignalledAlways(e, number) == [event EXCEPT ![e].last = event[e].count]

\* the event's task: nothing to do if the event was enqueued again since
SignalledEvent(e, number) ==
    IF number = event[e].count THEN [event EXCEPT ![e].last = number] ELSE event

WorkerRunEvent(q) ==
    /\ worker[q] = "idle"
    /\ tasks[q] # <<>>
    /\ LET i == Head(tasks[q])
       IN  /\ op[i].kind = "event"
           /\ eLock[op[i].e] = None
           /\ event' = SignalledEvent(op[i].e, op[i].number)
           /\ executed' = executed \cup {i}
           /\ current' = [current EXCEPT ![q] = i]
    /\ worker' = [worker EXCEPT ![q] = "pop"]
    /\ UNCHANGED <<op, tasks, ready, eLock, qLock, depth, running, thread, held, left,
                   historyVars>>

\* The front is popped and its closure destroyed.  The closure of keepAlive
\* holds the last reference to a deferred buffer: the buffer's deleter first
\* submits the free into the buffer's queue.
WorkerPop(q) ==
    /\ worker[q] = "pop"
    /\ tasks' = [tasks EXCEPT ![q] = Tail(@)]
    /\ worker' = [worker EXCEPT ![q] = IF op[current[q]].kind = "keep" THEN "destroy" ELSE "set"]
    /\ UNCHANGED <<op, current, executed, ready, event, eLock, qLock, depth, running, thread,
                   held, left, historyVars>>

WorkerFreeAsync(q) ==
    LET k == op[current[q]]
    IN  /\ worker[q] = "destroy"
        /\ k.e \notin Blocking
        /\ Post("task", k.e, None, 0, k.before)
        /\ worker' = [worker EXCEPT ![q] = "set"]
        /\ UNCHANGED <<current, executed, ready, event, eLock, qLock, depth, running, thread,
                       held, left, promised>>

\* into a blocking queue: the free runs here, under that queue's mutex
WorkerFreeBlocking(q) ==
    LET k == op[current[q]]
    IN  /\ worker[q] = "destroy"
        /\ k.e \in Blocking
        /\ qLock[k.e] = None
        /\ op' = Append(op, Operation("task", k.e, None, 0, k.before))
        /\ need' = [need EXCEPT ![k.e] = @ \cup {NewId}]
        /\ executed' = executed \cup {NewId}
        /\ ready' = ready \cup {NewId}
        /\ worker' = [worker EXCEPT ![q] = "set"]
        /\ UNCHANGED <<tasks, current, event, eLock, qLock, depth, running, thread, held, left,
                       promised>>

\* the future of the task is set
WorkerSet(q) ==
    /\ worker[q] = "set"
    /\ ready' = ready \cup {current[q]}
    /\ current' = [current EXCEPT ![q] = 0]
    /\ worker' = [worker EXCEPT ![q] = "idle"]
    /\ UNCHANGED <<op, tasks, executed, event, eLock, qLock, depth, running, thread, held, left,
                   historyVars>>

-----------------------------------------------------------------------------
Call(t) ==
    /\ \/ \E q \in Queue : \/ SubmitAsync(t, q) \/ SubmitBlocking(t, q)
                           \/ EnqueueDeferred(t, q) \/ WaitQueue(t, q) \/ DropQueue(t, q)
       \/ \E q, to \in Queue : KeepAlive(t, q, to)
       \/ \E q \in Queue, e \in Event :
             \/ EnqueueEventAsync(t, q, e) \/ EnqueueEventLock(t, q, e)
             \/ WaitForReady(t, q, e) \/ WaitForAsync(t, q, e) \/ WaitForLock(t, q, e)
       \/ \E e \in Event : IsComplete(t, e) \/ WaitEvent(t, e)
       \/ WaitDevice(t)
       \/ SubmitNested(t)
    /\ UNCHANGED program

\* a thread inside a call
Proceed(t) ==
    /\ \/ FinishBlocking(t) \/ EnqueueEventBlocking(t)
       \/ WaitForSubmit(t) \/ WaitForBlocking(t) \/ WaitForReturns(t)
       \/ WaitEventLoop(t)
       \/ \E q \in Queue : SkipQueue(t, q) \/ SubmitMarker(t, q)
       \/ MarkerReturns(t) \/ WaitQueuesReturns(t) \/ DropReturns(t)
    /\ UNCHANGED program

Work(q) ==
    /\ \/ WorkerRun(q) \/ WorkerRunEvent(q) \/ WorkerPop(q)
       \/ WorkerFreeAsync(q) \/ WorkerFreeBlocking(q) \/ WorkerSet(q)
    /\ UNCHANGED program

\* nothing is left to do: no thread is inside a call and every worker is idle
Quiet ==
    /\ \A t \in Thread : thread[t] = Idle
    /\ \A q \in Queue : tasks[q] = <<>> /\ worker[q] = "idle"
    /\ UNCHANGED vars

Next ==
    \/ \E t \in Thread : Call(t) \/ Proceed(t)
    \/ \E q \in Queue : Work(q)
    \/ Quiet

(* The operating system runs every thread that is inside a call or in a    *)
(* worker's loop, and a task's body returns.  No thread has to make        *)
(* another call.                                                           *)
Fairness ==
    /\ \A t \in Thread : WF_vars(Proceed(t))
    /\ \A q \in Queue : WF_vars(Work(q))

Spec == Init /\ [][Next]_vars
FairSpec == Spec /\ Fairness
-----------------------------------------------------------------------------
(* Properties.                                                             *)

Ids == 1..Len(op)

\* Type invariant of queues, events and threads.
TypeOK ==
    /\ op \in Seq([kind : {"task", "keep", "event", "waitFor", "marker"}, q : Queue,
                    e : Event \cup Queue \cup {None}, number : Nat, before : SUBSET Nat])
    /\ tasks \in [Queue -> Seq(Nat)]
    /\ worker \in [Queue -> {"idle", "pop", "destroy", "set"}]
    /\ current \in [Queue -> Nat]
    /\ executed \subseteq Ids /\ ready \subseteq executed
    /\ event \in [Event -> [count : Nat, last : Nat, future : Nat, covers : SUBSET Nat]]
    /\ eLock \in [Event -> Thread \cup {None}]
    /\ qLock \in [Queue -> Thread \cup {None}]
    /\ depth \in [Queue -> Nat]
    /\ running \in [Queue -> Seq(Nat)]
    /\ held \subseteq Queue
    /\ left \in [Thread -> Nat]
    /\ need \in [Queue -> SUBSET Ids]
    /\ promised \subseteq Ids

\* "Operations inside one queue execute in FIFO order" and waitFor "inserts a
\* dependency so work enqueued afterwards starts only after the event is
\* reached": the executed operations are closed under the order that the
\* queues and the events between them define, whichever threads race.
OperationsInOrder ==
    \A i \in executed : op[i].before \subseteq executed

\* "The event will be signaled after all preceding operations in the queue are
\* finished", also when it was enqueued again, in another queue, meanwhile.
ReadyEventCoversItsWork ==
    \A e \in Event : eLock[e] = None /\ IsReady(e) => event[e].covers \subseteq executed

\* "Waits until all work submitted to any before this call has finished":
\* what wait(queue), wait(event), wait(device) or isComplete() reported as
\* done has been executed.
WaitsReportFinishedWork == promised \subseteq executed

\* The closures that hold a reference to an event: its own, until it is
\* destroyed, and those that wait for it.
Refers(q, e) ==
    \E i \in {tasks[q][n] : n \in 1..Len(tasks[q])}
             \cup (IF worker[q] = "pop" THEN {current[q]} ELSE {}) :
        op[i].e = e

\* ~Event waits for the event and may be run by a callback thread, which must
\* not wait for itself: when the last reference is dropped, the event is ready.
EventDestructorNeverBlocks ==
    \A e \in Event :
        (\A q \in Queue : ~Refers(q, e)) /\ (\A t \in Thread : thread[t].e # e) => IsReady(e)

\* Every enqueued event is signalled some time (the program makes finitely
\* many calls): nobody waits for a thread that waits for him.
EventIsSignalled == \A e \in Event : event[e].count > 0 ~> IsReady(e)

\* Programs make finitely many calls, and each comes to its end: the calls
\* return (wait and waitFor get their future, a blocking queue's mutex becomes
\* free, ~Queue finds its worker drained), the workers drain their tasks and
\* every enqueued event is signalled.
ProgramSettles ==
    <>[](/\ \A t \in Thread : thread[t] = Idle
         /\ \A q \in Queue : tasks[q] = <<>> /\ worker[q] = "idle"
         /\ \A e \in Event : IsReady(e))
=============================================================================
