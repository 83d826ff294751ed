------------------------------ MODULE NativeQueue ------------------------------
(***************************************************************************)
(* The queues of the GPU backends: unifiedCudaHip::Queue, on a CUDA or HIP *)
(* stream, and syclGeneric::Queue, on an in-order SYCL queue.  Host        *)
(* functions run on a callback thread that the native queue waits for, and *)
(* four kinds of owners share the two resources of a queue through         *)
(* reference counts: its handle, the host functions under way, the deleter *)
(* of a deferred buffer and the closure that frees it.  Whoever drops the  *)
(* last reference destroys the resource: it joins the callback thread or   *)
(* waits for the native queue.                                             *)
(*                                                                         *)
(* The native queues are external: in order, one operation at a time, and  *)
(* waiting for an event means waiting for the operation it was recorded    *)
(* with.  A native host function runs on a thread of the runtime.          *)
(***************************************************************************)
EXTENDS Naturals, Sequences, FiniteSets

CONSTANTS Thread,       \* user threads
          Queue, Event, None,
          Programs      \* [backend, blocking, calls, max]: the calls [th, call, q, e]
                        \* and how many of them each thread makes (bound)

HostKind == {"host", "deferred", "keepAlive"}
DeferredKind == {"deferred", "keepAlive"}
EnqueueKind == {"work"} \cup HostKind
Call == EnqueueKind \cup {"event", "waitFor", "alloc", "waitQueue", "waitEvent",
                          "destructorWaitFor", "dropBuffer", "drop"}

ASSUME NativeQueueAssumption ==
    /\ IsFiniteSet(Queue) /\ Thread # {}
    /\ None \notin Queue \cup Event \cup Thread
    /\ \A p \in Programs :
          /\ p.backend \in {"cuda", "sycl"}
          /\ p.blocking \subseteq Queue
          /\ p.calls \subseteq [th : Thread, call : Call, q : Queue, e : Event \cup {None}]
          /\ \A c \in p.calls : c.call \in {"event", "waitFor", "waitEvent"} => c.e \in Event
          /\ p.max \in [Thread -> Nat]

VARIABLES program,     \* the program that runs, with the backend and the blocking queues
          op,          \* op[i]: the i-th operation submitted to a native queue
          stream,      \* stream[q]: the operations of the native queue not yet complete
          finished,    \* operations the native queue has completed
          host,        \* host[q]: the native host function q's runtime is in
          tasks,       \* tasks[q]: the callback thread's queue; 0 is the closure that frees
          worker,      \* worker[q]: what the callback thread does with its task
          current,     \* current[q]: that task
          executed,    \* operations whose work, or whose host function, ran
          future,      \* host functions whose future is set
          event,       \* event[e]: the operation it was last recorded with
          last,        \* last[q]: m_lastEvent, of SYCL
          threadRefs,  \* threadRefs[q]: use count of m_sharedCallbackThread
          streamRefs,  \* streamRefs[q]: use count of m_SharedStream, m_SharedNativeQueue
          buffer,      \* the deferred buffer: its queue, use count, the user's reference, the
                       \* queue its destructor waits for and what must precede its free
          todo,        \* todo[a]: what actor a is about to destroy, in this order
          held,        \* held[q]: who holds a handle of queue q: threads, None for the buffer
          thread,      \* thread[t]: the call user thread t is in
          left,        \* left[t]: how many calls t still makes
          returned,    \* operations whose enqueue returned (history)
          need,        \* need[q]: what q's operations come after because of waitFor (history)
          promised     \* operations reported as done by a wait (history)

nativeVars == <<op, stream, finished, host>>
callbackVars == <<tasks, worker, current, executed, future>>
refVars == <<threadRefs, streamRefs, buffer, todo>>
userVars == <<event, last, held, thread, left, returned, need, promised>>
vars == <<program, nativeVars, callbackVars, refVars, userVars>>

User(t) == <<"user", t>>
Worker(q) == <<"worker", q>>
Host(q) == <<"host", q>>
Actor == ({"user"} \X Thread) \cup ({"worker", "host"} \X Queue)

Cuda == program.backend = "cuda"
Blocking(q) == q \in program.blocking

Free == [at |-> "free", call |-> "none", q |-> None, e |-> None, op |-> 0,
         goal |-> {}, cover |-> {}]
FreeClosure == 0

Init ==
    /\ program \in Programs
    /\ op = <<>>
    /\ stream = [q \in Queue |-> <<>>]
    /\ finished = {}
    /\ host = [q \in Queue |-> "idle"]
    /\ tasks = [q \in Queue |-> <<>>]
    /\ worker = [q \in Queue |-> "idle"]
    /\ current = [q \in Queue |-> 0]
    /\ executed = {} /\ future = {}
    /\ event = [e \in Event |-> [op |-> 0, cover |-> {}]]
    /\ last = [q \in Queue |-> 0]
    /\ threadRefs = [q \in Queue |-> 1]
    /\ streamRefs = [q \in Queue |-> 1]
    /\ buffer = [q |-> None, refs |-> 0, user |-> FALSE, waits |-> None, cover |-> {}]
    /\ todo = [a \in Actor |-> <<>>]
    /\ held = [q \in Queue |-> Thread]
    /\ thread = [t \in Thread |-> Free]
    /\ left = program.max
    /\ returned = {} /\ promised = {}
    /\ need = [q \in Queue |-> {}]

-----------------------------------------------------------------------------
(* Dropping references.                                                    *)

Ref(what, q) == [what |-> what, q |-> q, goal |-> {}]

\* mutant of DeleterRefs: drops a callback thread that it does not hold
DeleterRefsBoth(q) == <<Ref("stream", q), Ref("thread", q)>>

\* what the deleter of a deferred buffer holds, in the order it is destroyed
DeleterRefs(q) ==
    IF Cuda THEN <<Ref("stream", q)>> ELSE <<Ref("stream", q), Ref("thread", q)>>

\* an operation that the native queue accepts
Enqueue(kind, q, target, after) ==
    /\ op' = Append(op, [kind |-> kind, q |-> q, target |-> target, after |-> after])
    /\ stream' = [stream EXCEPT ![q] = Append(@, Len(op) + 1)]

\* CUDA frees the memory in the stream; SYCL lets the callback thread do so
RunDeleter(q) ==
    IF Cuda
    THEN Enqueue("free", q, 0, {}) /\ UNCHANGED <<finished, host, callbackVars, streamRefs>>
    ELSE /\ tasks' = [tasks EXCEPT ![q] = Append(@, FreeClosure)]
         /\ streamRefs' = [streamRefs EXCEPT ![q] = @ + 1]
         /\ UNCHANGED <<nativeVars, worker, current, executed, future>>

\* what actor a destroys next
Due(a) == IF todo[a] = <<>> THEN "none" ELSE Head(todo[a]).what

\* what an enqueue to q now comes after; deferred functions are ordered with
\* other host functions only
Before(q, kind) ==
    {j \in returned : op[j].q = q /\ (op[j].kind \in DeferredKind => kind \in HostKind)}
        \cup need[q]

\* ~ManagedDealloc: the actions, the deleter, then the members
Destruction ==
    LET q == buffer.waits
    IN  IF q = None THEN <<Ref("deleter", buffer.q)>> \o DeleterRefs(buffer.q)
        ELSE <<Ref("wait", q), Ref("deleter", buffer.q), Ref("handle", q)>> \o DeleterRefs(buffer.q)

DropBufferRef(a) ==
    /\ Due(a) = "buffer"
    /\ buffer' = [buffer EXCEPT !.refs = @ - 1,
                                !.cover = IF buffer.refs = 1 /\ buffer.waits # None
                                          THEN Before(buffer.waits, "wait") ELSE @]
    /\ todo' = [todo EXCEPT ![a] = (IF buffer.refs = 1 THEN Destruction ELSE <<>>) \o Tail(@)]
    /\ UNCHANGED <<program, nativeVars, callbackVars, userVars, threadRefs, streamRefs>>

InStream(q) == {stream[q][k] : k \in DOMAIN stream[q]}

\* destructorWaitFor: wait for all that is in the queue now
BeginWait(a) ==
    /\ Due(a) = "wait"
    /\ LET q == Head(todo[a]).q IN
          todo' = [todo EXCEPT ![a] =
              <<[what |-> "await", q |-> q, goal |-> InStream(q)]>> \o Tail(@)]
    /\ UNCHANGED <<program, nativeVars, callbackVars, userVars, threadRefs, streamRefs, buffer>>

EndWait(a) ==
    /\ Due(a) = "await" /\ Head(todo[a]).goal \subseteq finished
    /\ todo' = [todo EXCEPT ![a] = Tail(@)]
    /\ UNCHANGED <<program, nativeVars, callbackVars, userVars, threadRefs, streamRefs, buffer>>

Delete(a) ==
    /\ Due(a) = "deleter"
    /\ RunDeleter(Head(todo[a]).q)
    /\ todo' = [todo EXCEPT ![a] = Tail(@)]
    /\ UNCHANGED <<program, userVars, threadRefs, buffer>>

\* the last handle of a queue destroys it, the callback thread first
QueueRefs(q, holder) ==
    IF held[q] = {holder} THEN <<Ref("thread", q), Ref("stream", q)>> ELSE <<>>

DropHandle(a) ==
    /\ Due(a) = "handle"
    /\ LET q == Head(todo[a]).q IN
          /\ held' = [held EXCEPT ![q] = @ \ {None}]
          /\ todo' = [todo EXCEPT ![a] = QueueRefs(q, None) \o Tail(@)]
    /\ UNCHANGED <<program, nativeVars, callbackVars, threadRefs, streamRefs, buffer,
                   event, last, thread, left, returned, need, promised>>

CallbackThreadEnded(q) == tasks[q] = <<>> /\ worker[q] = "idle"

\* mutant of DropThreadRef: the callback thread joins itself
DropThreadRefJoins(a) ==
    /\ Due(a) = "thread"
    /\ LET q == Head(todo[a]).q IN
          /\ threadRefs[q] = 1 => CallbackThreadEnded(q)
          /\ threadRefs' = [threadRefs EXCEPT ![q] = @ - 1]
    /\ todo' = [todo EXCEPT ![a] = Tail(@)]
    /\ UNCHANGED <<program, nativeVars, callbackVars, userVars, streamRefs, buffer>>

\* ~CallbackThread joins, but not itself
DropThreadRef(a) ==
    /\ Due(a) = "thread"
    /\ LET q == Head(todo[a]).q IN
          /\ threadRefs[q] = 1 => a = Worker(q) \/ CallbackThreadEnded(q)
          /\ threadRefs' = [threadRefs EXCEPT ![q] = @ - 1]
    /\ todo' = [todo EXCEPT ![a] = Tail(@)]
    /\ UNCHANGED <<program, nativeVars, callbackVars, userVars, streamRefs, buffer>>

\* mutant of DropStreamRef: the native queue is not synchronized
DropStreamRefNoSync(a) ==
    /\ Due(a) = "stream"
    /\ streamRefs' = [streamRefs EXCEPT ![Head(todo[a]).q] = @ - 1]
    /\ todo' = [todo EXCEPT ![a] = Tail(@)]
    /\ UNCHANGED <<program, nativeVars, callbackVars, userVars, threadRefs, buffer>>

\* ~Stream and ~NativeQueue synchronize the native queue
DropStreamRef(a) ==
    /\ Due(a) = "stream"
    /\ LET q == Head(todo[a]).q IN
          /\ streamRefs[q] = 1 => stream[q] = <<>>
          /\ streamRefs' = [streamRefs EXCEPT ![q] = @ - 1]
    /\ todo' = [todo EXCEPT ![a] = Tail(@)]
    /\ UNCHANGED <<program, nativeVars, callbackVars, userVars, threadRefs, buffer>>

Drop(a) ==
    \/ DropBufferRef(a) \/ BeginWait(a) \/ EndWait(a) \/ Delete(a)
    \/ DropHandle(a) \/ DropThreadRef(a) \/ DropStreamRef(a)

-----------------------------------------------------------------------------
(* The native queue and its host functions.                                *)

HeadOf(q) == Head(stream[q])

\* the native queue completes its first operation
Completed(q) ==
    /\ stream' = [stream EXCEPT ![q] = Tail(@)]
    /\ finished' = finished \cup {HeadOf(q)}

\* mutant of NativeStep: a wait for an event does not wait
NativeStepNoWait(q) ==
    /\ stream[q] # <<>> /\ op[HeadOf(q)].kind \notin HostKind
    /\ Completed(q)
    /\ executed' = executed \cup {HeadOf(q)}
    /\ UNCHANGED <<program, op, host, tasks, worker, current, future, refVars, userVars>>

\* kernels, copies, memory operations, markers; waitFor once its target is done
NativeStep(q) ==
    /\ stream[q] # <<>> /\ op[HeadOf(q)].kind \notin HostKind
    /\ op[HeadOf(q)].target \in finished \cup {0}
    /\ Completed(q)
    /\ executed' = executed \cup {HeadOf(q)}
    /\ UNCHANGED <<program, op, host, tasks, worker, current, future, refVars, userVars>>

\* the runtime calls the host function, which submits the task.  SYCL's lambda
\* is const: the task it submits is a copy, which shares a kept buffer.
HostBegin(q) ==
    /\ stream[q] # <<>> /\ op[HeadOf(q)].kind \in HostKind
    /\ host[q] = "idle"
    /\ tasks' = [tasks EXCEPT ![q] = Append(@, HeadOf(q))]
    /\ host' = [host EXCEPT ![q] = "submitted"]
    /\ buffer' = IF ~Cuda /\ op[HeadOf(q)].kind = "keepAlive"
                 THEN [buffer EXCEPT !.refs = @ + 1] ELSE buffer
    /\ UNCHANGED <<program, op, stream, finished, worker, current, executed, future,
                   threadRefs, streamRefs, todo, userVars>>

\* what the host function's data holds when it returns
HostRefs(q) ==
    IF ~Cuda /\ op[HeadOf(q)].kind = "keepAlive"
    THEN <<Ref("buffer", q), Ref("thread", q)>> ELSE <<Ref("thread", q)>>

\* mutant of HostReturn: the future is not waited for
HostReturnNoWait(q) ==
    /\ host[q] = "submitted"
    /\ host' = [host EXCEPT ![q] = "closing"]
    /\ todo' = [todo EXCEPT ![Host(q)] = HostRefs(q)]
    /\ IF Cuda THEN UNCHANGED <<stream, finished>> ELSE Completed(q)
    /\ UNCHANGED <<program, op, callbackVars, threadRefs, streamRefs, buffer, userVars>>

\* f.wait(), unless deferred.  A CUDA host function drops its references before
\* the stream goes on; SYCL destroys the closure of a complete operation.
HostReturn(q) ==
    /\ host[q] = "submitted"
    /\ op[HeadOf(q)].kind \in DeferredKind \/ HeadOf(q) \in future
    /\ host' = [host EXCEPT ![q] = "closing"]
    /\ todo' = [todo EXCEPT ![Host(q)] = HostRefs(q)]
    /\ IF Cuda THEN UNCHANGED <<stream, finished>> ELSE Completed(q)
    /\ UNCHANGED <<program, op, callbackVars, threadRefs, streamRefs, buffer, userVars>>

HostClosed(q) ==
    /\ host[q] = "closing" /\ todo[Host(q)] = <<>>
    /\ host' = [host EXCEPT ![q] = "idle"]
    /\ IF Cuda THEN Completed(q) ELSE UNCHANGED <<stream, finished>>
    /\ UNCHANGED <<program, op, callbackVars, refVars, userVars>>

-----------------------------------------------------------------------------
(* The callback thread: run the front, pop and destroy it, set its future. *)

WorkerRun(q) ==
    /\ worker[q] = "idle" /\ tasks[q] # <<>>
    /\ worker' = [worker EXCEPT ![q] = "ran"]
    /\ current' = [current EXCEPT ![q] = Head(tasks[q])]
    /\ IF Head(tasks[q]) = FreeClosure
       THEN Enqueue("free", q, 0, {}) /\ UNCHANGED executed
       ELSE executed' = executed \cup {Head(tasks[q])} /\ UNCHANGED <<op, stream>>
    /\ UNCHANGED <<program, finished, host, tasks, future, refVars, userVars>>

ClosureRefs(q) ==
    CASE current[q] = FreeClosure -> <<Ref("stream", q)>>
      [] current[q] # FreeClosure /\ op[current[q]].kind = "keepAlive" -> <<Ref("buffer", q)>>
      [] OTHER -> <<>>

WorkerPop(q) ==
    /\ worker[q] = "ran"
    /\ worker' = [worker EXCEPT ![q] = "destroying"]
    /\ tasks' = [tasks EXCEPT ![q] = Tail(@)]
    /\ todo' = [todo EXCEPT ![Worker(q)] = ClosureRefs(q)]
    /\ UNCHANGED <<program, nativeVars, current, executed, future,
                   threadRefs, streamRefs, buffer, userVars>>

WorkerSet(q) ==
    /\ worker[q] = "destroying" /\ todo[Worker(q)] = <<>>
    /\ worker' = [worker EXCEPT ![q] = "idle"]
    /\ future' = future \cup ({current[q]} \ {FreeClosure})
    /\ current' = [current EXCEPT ![q] = 0]
    /\ UNCHANGED <<program, nativeVars, tasks, executed, refVars, userVars>>

-----------------------------------------------------------------------------
(* The user's calls.                                                       *)

Begin(t, c) ==
    /\ c \in program.calls /\ c.th = t
    /\ thread[t].at = "free" /\ left[t] > 0
    /\ left' = [left EXCEPT ![t] = @ - 1]

Place(t, c, place, i, cover) ==
    thread' = [thread EXCEPT ![t] =
        [at |-> place, call |-> c.call, q |-> c.q, e |-> c.e, op |-> i,
         goal |-> {}, cover |-> cover]]

\* where a call goes once the native queue has its operation
Submitted(q) == IF ~Cuda THEN "setLast" ELSE IF Blocking(q) THEN "sync" ELSE "return"

\* mutant of Submit: deferred functions go to the callback thread at once
SubmitDeferredAtOnce(t, c) ==
    /\ c.call \in EnqueueKind
    /\ t \in held[c.q]
    /\ Begin(t, c)
    /\ c.call = "keepAlive" => buffer.user
    /\ op' = Append(op, [kind |-> c.call, q |-> c.q, target |-> 0, after |-> Before(c.q, c.call)])
    /\ IF c.call \in DeferredKind
       THEN tasks' = [tasks EXCEPT ![c.q] = Append(@, Len(op) + 1)] /\ UNCHANGED stream
       ELSE stream' = [stream EXCEPT ![c.q] = Append(@, Len(op) + 1)] /\ UNCHANGED tasks
    /\ threadRefs' = IF c.call = "host" THEN [threadRefs EXCEPT ![c.q] = @ + 1] ELSE threadRefs
    /\ buffer' = IF c.call = "keepAlive" THEN [buffer EXCEPT !.refs = @ + 1] ELSE buffer
    /\ Place(t, c, Submitted(c.q), Len(op) + 1, {})
    /\ UNCHANGED <<program, finished, host, worker, current, executed, future, streamRefs, todo,
                   event, last, held, returned, need, promised>>

\* kernels, copies and memsets; host functions share the callback thread, and
\* a kept buffer its deleter
Submit(t, c) ==
    /\ c.call \in EnqueueKind
    /\ t \in held[c.q]
    /\ Begin(t, c)
    /\ c.call = "keepAlive" => buffer.user
    /\ Enqueue(c.call, c.q, 0, Before(c.q, c.call))
    /\ threadRefs' = IF c.call \in HostKind THEN [threadRefs EXCEPT ![c.q] = @ + 1] ELSE threadRefs
    /\ buffer' = IF c.call = "keepAlive" THEN [buffer EXCEPT !.refs = @ + 1] ELSE buffer
    /\ Place(t, c, Submitted(c.q), Len(op) + 1, {})
    /\ UNCHANGED <<program, finished, host, callbackVars, streamRefs, todo,
                   event, last, held, returned, need, promised>>

\* allocDeferred: CUDA allocates in the stream, SYCL at once
Alloc(t, c) ==
    /\ c.call = "alloc" /\ t \in held[c.q] /\ buffer.q = None
    /\ Begin(t, c)
    /\ buffer' = [q |-> c.q, refs |-> 1, user |-> TRUE, waits |-> None, cover |-> {}]
    /\ streamRefs' = [streamRefs EXCEPT ![c.q] = @ + 1]
    /\ IF Cuda
       THEN /\ Enqueue("alloc", c.q, 0, Before(c.q, "alloc"))
            /\ Place(t, c, Submitted(c.q), Len(op) + 1, {})
            /\ UNCHANGED threadRefs
       ELSE /\ threadRefs' = [threadRefs EXCEPT ![c.q] = @ + 1]
            /\ Place(t, c, IF Blocking(c.q) THEN "sync" ELSE "return", 0, {})
            /\ UNCHANGED <<op, stream>>
    /\ UNCHANGED <<program, finished, host, callbackVars, todo,
                   event, last, held, returned, need, promised>>

\* eventRecord is one step; SYCL submits a marker and stores its event later
EnqueueEvent(t, c) ==
    /\ c.call = "event" /\ t \in held[c.q]
    /\ Begin(t, c)
    /\ Enqueue("event", c.q, 0, Before(c.q, "event"))
    /\ LET cover == Before(c.q, "event") IN
          /\ Place(t, c, IF Cuda THEN Submitted(c.q) ELSE "setEvent", Len(op) + 1, cover)
          /\ event' = IF Cuda THEN [event EXCEPT ![c.e] = [op |-> Len(op) + 1, cover |-> cover]]
                      ELSE event
    /\ UNCHANGED <<program, finished, host, callbackVars, refVars,
                   last, held, returned, need, promised>>

SetEvent(t) ==
    /\ thread[t].at = "setEvent"
    /\ event' = [event EXCEPT ![thread[t].e] = [op |-> thread[t].op, cover |-> thread[t].cover]]
    /\ thread' = [thread EXCEPT ![t].at = "setLast"]
    /\ UNCHANGED <<program, nativeVars, callbackVars, refVars,
                   last, held, left, returned, need, promised>>

\* waitFor: the native queue will wait for what the event was last recorded with
WaitFor(t, c) ==
    /\ c.call = "waitFor" /\ t \in held[c.q]
    /\ Begin(t, c)
    /\ Enqueue("waitFor", c.q, event[c.e].op, Before(c.q, "waitFor") \cup event[c.e].cover)
    /\ need' = [need EXCEPT ![c.q] = @ \cup event[c.e].cover]
    /\ Place(t, c, Submitted(c.q), Len(op) + 1, {})
    /\ UNCHANGED <<program, finished, host, callbackVars, refVars,
                   event, last, held, returned, promised>>

\* mutant of SetLast: the last event does not track host functions
SetLastOfKernels(t) ==
    /\ thread[t].at = "setLast"
    /\ last' = IF thread[t].call \in HostKind THEN last
               ELSE [last EXCEPT ![thread[t].q] = thread[t].op]
    /\ thread' = [thread EXCEPT ![t].at = IF Blocking(thread[t].q) THEN "sync" ELSE "return"]
    /\ UNCHANGED <<program, nativeVars, callbackVars, refVars,
                   event, held, left, returned, need, promised>>

SetLast(t) ==
    /\ thread[t].at = "setLast"
    /\ last' = [last EXCEPT ![thread[t].q] = thread[t].op]
    /\ thread' = [thread EXCEPT ![t].at = IF Blocking(thread[t].q) THEN "sync" ELSE "return"]
    /\ UNCHANGED <<program, nativeVars, callbackVars, refVars,
                   event, held, left, returned, need, promised>>

\* conditionalWait: the stream, or one event
Sync(t) ==
    /\ thread[t].at = "sync"
    /\ LET q == thread[t].q
           byEvent == IF Cuda THEN thread[t].call = "event" ELSE thread[t].op # 0
       IN thread' = [thread EXCEPT ![t].at = "await",
                                   ![t].goal = IF byEvent THEN {thread[t].op} ELSE InStream(q)]
    /\ UNCHANGED <<program, nativeVars, callbackVars, refVars,
                   event, last, held, left, returned, need, promised>>

\* wait(queue) promises all that was enqueued, wait(event) what the event covers
Wait(t, c) ==
    /\ c.call \in {"waitQueue", "waitEvent"}
    /\ c.call = "waitQueue" => t \in held[c.q]
    /\ Begin(t, c)
    /\ thread' = [thread EXCEPT ![t] =
          [at |-> "await", call |-> c.call, q |-> c.q, e |-> c.e, op |-> 0,
           goal |-> IF c.call = "waitQueue" THEN InStream(c.q) ELSE {event[c.e].op} \ {0},
           cover |-> IF c.call = "waitQueue" THEN Before(c.q, c.call) ELSE event[c.e].cover]]
    /\ UNCHANGED <<program, nativeVars, callbackVars, refVars,
                   event, last, held, returned, need, promised>>

Await(t) ==
    /\ thread[t].at = "await"
    /\ thread[t].goal \subseteq finished
    /\ thread' = [thread EXCEPT ![t].at = "return"]
    /\ UNCHANGED <<program, nativeVars, callbackVars, refVars,
                   event, last, held, left, returned, need, promised>>

\* the call returns; in a blocking queue its operation is done then, unless deferred
Return(t) ==
    /\ thread[t].at = "return" /\ todo[User(t)] = <<>>
    /\ thread' = [thread EXCEPT ![t] = Free]
    /\ LET mine == {thread[t].op} \ {0} IN
          /\ returned' = returned \cup mine
          /\ promised' = promised \cup
                (IF thread[t].call \in {"waitQueue", "waitEvent"} THEN thread[t].cover
                 ELSE IF Blocking(thread[t].q) /\ thread[t].call \notin DeferredKind THEN mine
                 ELSE {})
    /\ UNCHANGED <<program, nativeVars, callbackVars, refVars, event, last, held, left, need>>

\* the action holds a handle of the queue
DestructorWaitFor(t, c) ==
    /\ c.call = "destructorWaitFor" /\ t \in held[c.q]
    /\ buffer.user /\ buffer.waits = None
    /\ Begin(t, c)
    /\ buffer' = [buffer EXCEPT !.waits = c.q]
    /\ held' = [held EXCEPT ![c.q] = @ \cup {None}]
    /\ Place(t, c, "return", 0, {})
    /\ UNCHANGED <<program, nativeVars, callbackVars, threadRefs, streamRefs, todo,
                   event, last, returned, need, promised>>

\* the user's reference of the buffer goes out of scope
DropBuffer(t, c) ==
    /\ c.call = "dropBuffer" /\ buffer.user
    /\ Begin(t, c)
    /\ buffer' = [buffer EXCEPT !.user = FALSE]
    /\ todo' = [todo EXCEPT ![User(t)] = <<Ref("buffer", buffer.q)>>]
    /\ Place(t, c, "return", 0, {})
    /\ UNCHANGED <<program, nativeVars, callbackVars, threadRefs, streamRefs,
                   event, last, held, returned, need, promised>>

\* t's handle of the queue
DropQueue(t, c) ==
    /\ c.call = "drop" /\ t \in held[c.q]
    /\ Begin(t, c)
    /\ held' = [held EXCEPT ![c.q] = @ \ {t}]
    /\ todo' = [todo EXCEPT ![User(t)] = QueueRefs(c.q, t)]
    /\ Place(t, c, "return", 0, {})
    /\ UNCHANGED <<program, nativeVars, callbackVars, threadRefs, streamRefs, buffer,
                   event, last, returned, need, promised>>

CallBegins(t) ==
    \E c \in program.calls :
        Submit(t, c) \/ Alloc(t, c) \/ EnqueueEvent(t, c) \/ WaitFor(t, c) \/ Wait(t, c)
            \/ DestructorWaitFor(t, c) \/ DropBuffer(t, c) \/ DropQueue(t, c)

CallGoesOn(t) ==
    \/ SetEvent(t) \/ SetLast(t) \/ Sync(t) \/ Await(t) \/ Return(t)
    \/ Drop(User(t))

-----------------------------------------------------------------------------
\* no call, operation, closure or destructor is under way
Settled ==
    /\ \A t \in Thread : thread[t].at = "free"
    /\ \A q \in Queue : stream[q] = <<>> /\ host[q] = "idle" /\ CallbackThreadEnded(q)
    /\ \A a \in Actor : todo[a] = <<>>

NativeRuntime(q) == NativeStep(q) \/ HostBegin(q) \/ HostReturn(q) \/ HostClosed(q) \/ Drop(Host(q))
CallbackThread(q) == WorkerRun(q) \/ WorkerPop(q) \/ WorkerSet(q) \/ Drop(Worker(q))

Next ==
    \/ \E t \in Thread : CallBegins(t) \/ CallGoesOn(t)
    \/ \E q \in Queue : NativeRuntime(q) \/ CallbackThread(q)
    \/ Settled /\ UNCHANGED vars

(* Calls in progress, native queues and callback threads are scheduled; no *)
(* user has to make another call.                                          *)
Fairness ==
    /\ \A t \in Thread : WF_vars(CallGoesOn(t))
    /\ \A q \in Queue : WF_vars(NativeRuntime(q)) /\ WF_vars(CallbackThread(q))

Spec == Init /\ [][Next]_vars
FairSpec == Spec /\ Fairness

-----------------------------------------------------------------------------
(* Properties.                                                             *)

Op == 1..Len(op)

\* Type invariant; no use count falls below zero.
TypeOK ==
    /\ program \in Programs
    /\ \A q \in Queue : InStream(q) \subseteq Op
    /\ host \in [Queue -> {"idle", "submitted", "closing"}]
    /\ worker \in [Queue -> {"idle", "ran", "destroying"}]
    /\ \A q \in Queue : \A k \in DOMAIN tasks[q] : tasks[q][k] \in Op \cup {FreeClosure}
    /\ finished \subseteq Op /\ executed \subseteq Op /\ future \subseteq Op
    /\ returned \subseteq Op /\ promised \subseteq Op
    /\ last \in [Queue -> Op \cup {0}]
    /\ threadRefs \in [Queue -> Nat] /\ streamRefs \in [Queue -> Nat]
    /\ buffer.refs \in Nat
    /\ \A t \in Thread : thread[t].at \in
          {"free", "setEvent", "setLast", "sync", "await", "return"}

\* An operation, native or on the callback thread, is done only after all that
\* was enqueued to its queue before, deferred functions among host functions,
\* and after what the events cover that its queue waits for.
OperationsInOrder == \A i \in executed : op[i].after \subseteq executed

\* What a blocking enqueue, wait(queue) or wait(event) reported is done: the
\* host function has run on the callback thread, not only been handed to it.
WaitsReportFinishedWork == promised \subseteq executed

\* "Test of all tasks in the queue are finished": when isQueueEmpty says so,
\* every operation whose enqueue has returned is complete.
IsQueueEmpty(q) == IF Cuda THEN stream[q] = <<>> ELSE last[q] \in finished \cup {0}

EmptyMeansFinished ==
    \A q \in Queue : held[q] # {} /\ IsQueueEmpty(q) =>
        \A i \in returned : op[i].q = q => i \in finished

\* keepAlive: "Keep the buffer alive until at least the current spot in the
\* queue": its memory is freed after everything enqueued before that spot, in
\* whichever queue, is done; with destructorWaitFor, after all that was in the
\* queue when the last reference was dropped.
BufferOutlivesUse ==
    \A f \in finished : op[f].kind = "free" =>
        /\ \A i \in Op : op[i].kind = "keepAlive" => op[i].after \subseteq executed
        /\ buffer.cover \subseteq executed

\* Whoever still needs a queue's callback thread or native queue has kept it
\* from being destroyed: a host function that is pending or under way, the
\* buffer's deleter, the closure that frees, an operation.
ResourcesOutliveUsers ==
    \A q \in Queue :
        /\ threadRefs[q] = 0 =>
              /\ host[q] # "submitted"
              /\ \A i \in InStream(q) : op[i].kind \in HostKind => host[q] = "closing"
              /\ buffer.q = q /\ ~Cuda => buffer.refs = 0
        /\ streamRefs[q] = 0 =>
              /\ stream[q] = <<>>
              /\ \A k \in DOMAIN tasks[q] : tasks[q][k] # FreeClosure
              /\ buffer.q = q => buffer.refs = 0
              /\ \A a \in Actor : \A k \in DOMAIN todo[a] :
                    todo[a][k].q = q => todo[a][k].what # "deleter"

\* Every call, operation and destructor ends, and a buffer that nobody holds
\* is freed.
ProgramSettles ==
    <>[](Settled /\ (buffer.q # None /\ buffer.refs = 0 => \E i \in finished : op[i].kind = "free"))

\* "keepAlive does not block anything": a native queue with operations
\* eventually completes them.
KeepAliveDoesNotBlock == \A q \in Queue : (stream[q] # <<>>) ~> (stream[q] = <<>>)
=============================================================================
