------------------------- MODULE OmpCollectiveQueue -------------------------
(***************************************************************************)
(* cpu::OmpCollectiveQueue: a blocking queue (the parent) whose operations *)
(* are called by all threads of an OpenMP team together.  A program is one *)
(* sequence of operations; those with in = TRUE are inside a parallel      *)
(* region and made by every thread of the team, the others by its master   *)
(* alone.  Two counters keep the sides apart: the parent's                 *)
(* m_blockingTaskExecutionDepth, which the team waits for, and             *)
(* numCollectiveTasksExecuted, which callers outside wait for.             *)
(*                                                                         *)
(* The OpenMP runtime (single, barrier, fork and join of a region) is      *)
(* external and modelled by what its specification says.                   *)
(***************************************************************************)
EXTENDS Naturals, Sequences, FiniteSets

CONSTANTS Thread,      \* the threads of the team
          Main,        \* the master, the only thread outside of regions
          Other,       \* a thread whose task was enqueued before the program began
          Callback,    \* the callback thread of the parent queue
          None,
          Programs     \* sequences of [kind, in]

Kind == {"host",       \* HostTask, Memcpy, Memset, MemcpyDeviceGlobal
         "deferred",   \* HostTaskDeferred (keepAlive), Event
         "kernel",     \* Kernel, Fill
         "refused",    \* Kernel with a thread specification its executor refuses
         "collect"}    \* Wait, WaitFor, AllocDeferred

ASSUME OmpCollectiveQueueAssumption ==
    /\ Main \in Thread
    /\ IsFiniteSet(Thread)
    /\ {Other, Callback, None} \cap Thread = {}
    /\ Other # None /\ Callback \notin {Other, None}
    /\ Programs \subseteq Seq([kind : Kind, in : BOOLEAN])

VARIABLES prog,       \* the program
          pos,        \* pos[t]: the operation thread t is at
          at,         \* at[t]: where in that operation
          claimed,    \* claimed[k]: the thread that executes k's omp single
          arrived,    \* arrived[k]: the threads that reached k's barrier
          done,       \* done[k]: the threads that executed (their part of) k
          counter,    \* numCollectiveTasksExecuted
          depth,      \* m_blockingTaskExecutionDepth of the parent
          owner,      \* owner of the parent's m_mutex
          frees       \* closures on the callback thread that free a deferred buffer

vars == <<prog, pos, at, claimed, arrived, done, counter, depth, owner, frees>>

Ops == 1..Len(prog)

\* Other's task may still be executed when the program begins.
Init ==
    /\ prog \in Programs
    /\ pos = [t \in Thread |-> 1]
    /\ at = [t \in Thread |-> "free"]
    /\ claimed = [k \in Ops |-> None]
    /\ arrived = [k \in Ops |-> {}]
    /\ done = [k \in Ops |-> {}]
    /\ counter = 0
    /\ owner \in {None, Other}
    /\ depth = IF owner = Other THEN 1 ELSE 0
    /\ frees = 0

InOp(t, in) == pos[t] \in Ops /\ prog[pos[t]].in = in

KindOf(t) == prog[pos[t]].kind

Go(t, place) == at' = [at EXCEPT ![t] = place]

\* t is done with its operation
Return(t) ==
    /\ pos' = [pos EXCEPT ![t] = @ + 1]
    /\ Go(t, "free")

-----------------------------------------------------------------------------
(* Inside a parallel region.                                               *)

\* the omp barrier ahead of a deferred function or an event
ReachBarrier(t) ==
    /\ InOp(t, TRUE) /\ at[t] = "free" /\ KindOf(t) = "deferred"
    /\ arrived' = [arrived EXCEPT ![pos[t]] = @ \cup {t}]
    /\ Go(t, "arrived")
    /\ UNCHANGED <<prog, pos, claimed, done, counter, depth, owner, frees>>

\* mutant of BarrierOpen: a thread does not wait for the last one
BarrierOpenEarly(k) == Cardinality(arrived[k]) + 1 >= Cardinality(Thread)

BarrierOpen(k) == arrived[k] = Thread

\* the team has arrived: a deferred operation begins, a collective one returns
PassBarrier(t) ==
    /\ InOp(t, TRUE) /\ at[t] = "arrived"
    /\ BarrierOpen(pos[t])
    /\ IF KindOf(t) = "deferred" THEN Go(t, "ordered") /\ UNCHANGED pos ELSE Return(t)
    /\ UNCHANGED <<prog, claimed, arrived, done, counter, depth, owner, frees>>

\* where an operation awaits the tasks of the parent: nowait operations and
\* kernels at once, collective ones in their single
AtGate(t) ==
    CASE KindOf(t) \in {"host", "kernel", "refused"} -> at[t] = "free"
      [] KindOf(t) = "deferred" -> at[t] = "ordered"
      [] KindOf(t) = "collect" -> at[t] = "single"

\* mutant of ParentIsEmpty: tests the team's counter
ParentIsEmptyForTeam == counter = 0

ParentIsEmpty == depth = 0

\* waitUntilParentQueueIsEmpty
PassGate(t) ==
    /\ InOp(t, TRUE)
    /\ AtGate(t)
    /\ ParentIsEmpty
    /\ Go(t, "gated")
    /\ UNCHANGED <<prog, pos, claimed, arrived, done, counter, depth, owner, frees>>

\* ++numCollectiveTasksExecuted, some time after the test
Enter(t) ==
    /\ InOp(t, TRUE) /\ at[t] = "gated"
    /\ counter' = counter + 1
    /\ Go(t, CASE KindOf(t) = "kernel" -> "executing"
               [] KindOf(t) = "refused" -> "refused"
               [] KindOf(t) = "collect" -> "call"
               [] KindOf(t) \in {"host", "deferred"} -> "entered")
    /\ UNCHANGED <<prog, pos, claimed, arrived, done, depth, owner, frees>>

\* omp single nowait: the first thread to get here executes the function
SingleNowait(t) ==
    /\ InOp(t, TRUE) /\ at[t] = "entered"
    /\ IF claimed[pos[t]] = None
       THEN claimed' = [claimed EXCEPT ![pos[t]] = t] /\ Go(t, "submit")
       ELSE UNCHANGED claimed /\ Go(t, "leave")
    /\ UNCHANGED <<prog, pos, arrived, done, counter, depth, owner, frees>>


\* --numCollectiveTasksExecuted
Leave(t) ==
    /\ InOp(t, TRUE) /\ at[t] = "leave"
    /\ counter' = counter - 1
    /\ Return(t)
    /\ UNCHANGED <<prog, claimed, arrived, done, depth, owner, frees>>

\* makeAcc throws std::runtime_error, which the caller catches
LeaveRefused(t) ==
    /\ InOp(t, TRUE) /\ at[t] = "refused"
    /\ Return(t)
    /\ UNCHANGED <<prog, claimed, arrived, done, counter, depth, owner, frees>>

\* mutant of SingleAndWait: the other threads skip the single and its barrier
SingleDontWait(t) ==
    /\ InOp(t, TRUE) /\ at[t] = "free" /\ KindOf(t) = "collect"
    /\ arrived' = [arrived EXCEPT ![pos[t]] = @ \cup (IF claimed[pos[t]] = None
                                                    THEN Thread \ {t} ELSE {t})]
    /\ IF claimed[pos[t]] = None
       THEN /\ claimed' = [claimed EXCEPT ![pos[t]] = t]
            /\ Go(t, "single")
            /\ UNCHANGED pos
       ELSE /\ Return(t)
            /\ UNCHANGED claimed
    /\ UNCHANGED <<prog, done, counter, depth, owner, frees>>

\* omp single with its barrier at the end, of the operations that wait
SingleAndWait(t) ==
    /\ InOp(t, TRUE) /\ at[t] = "free" /\ KindOf(t) = "collect"
    /\ IF claimed[pos[t]] = None
       THEN /\ claimed' = [claimed EXCEPT ![pos[t]] = t]
            /\ Go(t, "single")
            /\ UNCHANGED arrived
       ELSE /\ arrived' = [arrived EXCEPT ![pos[t]] = @ \cup {t}]
            /\ Go(t, "arrived")
            /\ UNCHANGED claimed
    /\ UNCHANGED <<prog, pos, done, counter, depth, owner, frees>>

\* Wait::Op of the parent: it is empty or its marker gets the mutex
Waited == depth = 0 \/ owner = None

Collect(t) ==
    /\ InOp(t, TRUE) /\ at[t] = "call"
    /\ Waited
    /\ done' = [done EXCEPT ![pos[t]] = @ \cup {t}]
    /\ Go(t, "called")
    /\ UNCHANGED <<prog, pos, claimed, arrived, counter, depth, owner, frees>>

LeaveSingle(t) ==
    /\ InOp(t, TRUE) /\ at[t] = "called"
    /\ counter' = counter - 1
    /\ arrived' = [arrived EXCEPT ![pos[t]] = @ \cup {t}]
    /\ Go(t, "arrived")
    /\ UNCHANGED <<prog, pos, claimed, done, depth, owner, frees>>

-----------------------------------------------------------------------------
(* Outside: fork, join and the master's own operations.                    *)

\* the other threads exist in regions only
SkipOutside(t) ==
    /\ t # Main
    /\ InOp(t, FALSE)
    /\ pos[Main] > pos[t]
    /\ pos' = [pos EXCEPT ![t] = @ + 1]
    /\ UNCHANGED <<prog, at, claimed, arrived, done, counter, depth, owner, frees>>

\* the join of the region before, then waitForNonOmpParallelOps
PassCounter ==
    /\ InOp(Main, FALSE) /\ at[Main] = "free"
    /\ \A t \in Thread : pos[t] >= pos[Main]
    /\ counter = 0
    /\ Go(Main, "submit")
    /\ UNCHANGED <<prog, pos, claimed, arrived, done, counter, depth, owner, frees>>

-----------------------------------------------------------------------------
(* The parent queue.                                                       *)

\* where a thread goes when its function returned
Finished(t) ==
    IF InOp(t, TRUE) THEN Go(t, "leave") /\ UNCHANGED pos ELSE Return(t)

\* Queue::submit: lock, ...
Submit(t) ==
    /\ at[t] = "submit" /\ KindOf(t) \in {"host", "kernel"}
    /\ owner = None
    /\ owner' = t
    /\ Go(t, "locked")
    /\ UNCHANGED <<prog, pos, claimed, arrived, done, counter, depth, frees>>

\* ... ++m_blockingTaskExecutionDepth, fn()
Execute(t) ==
    /\ at[t] = "locked"
    /\ depth' = depth + 1
    /\ Go(t, "executing")
    /\ UNCHANGED <<prog, pos, claimed, arrived, done, counter, owner, frees>>

\* deferred functions and events only take the mutex; the closure of keepAlive
\* will free its buffer on the callback thread
SubmitShort(t) ==
    /\ at[t] = "submit" /\ KindOf(t) \in {"deferred", "collect"}
    /\ IF KindOf(t) = "deferred" THEN owner = None ELSE Waited
    /\ done' = [done EXCEPT ![pos[t]] = @ \cup {t}]
    /\ frees' = IF KindOf(t) = "deferred" THEN frees + 1 ELSE frees
    /\ Finished(t)
    /\ UNCHANGED <<prog, claimed, arrived, counter, depth, owner>>

\* mutant of Finish: the parent's depth is not restored
FinishKeepsDepth(t) ==
    /\ at[t] = "executing"
    /\ done' = [done EXCEPT ![pos[t]] = @ \cup {t}]
    /\ owner' = IF owner = t THEN None ELSE owner
    /\ Finished(t)
    /\ UNCHANGED <<prog, claimed, arrived, counter, depth, frees>>

\* the function, or this thread's share of the kernel's blocks, is executed
Finish(t) ==
    /\ at[t] = "executing"
    /\ done' = [done EXCEPT ![pos[t]] = @ \cup {t}]
    /\ IF owner = t THEN owner' = None /\ depth' = depth - 1 ELSE UNCHANGED <<owner, depth>>
    /\ Finished(t)
    /\ UNCHANGED <<prog, claimed, arrived, counter, frees>>

\* the deleter of a deferred buffer submits its free to the parent directly
FreeBegin ==
    /\ frees > 0
    /\ owner = None
    /\ frees' = frees - 1
    /\ owner' = Callback
    /\ UNCHANGED <<prog, pos, at, claimed, arrived, done, counter, depth>>

FreeExecute ==
    /\ owner = Callback /\ depth = 0
    /\ depth' = depth + 1
    /\ UNCHANGED <<prog, pos, at, claimed, arrived, done, counter, owner, frees>>

\* a task of neither the team nor its master ends
ParentEnd ==
    /\ owner \in {Other, Callback} /\ depth > 0
    /\ owner' = None
    /\ depth' = depth - 1
    /\ UNCHANGED <<prog, pos, at, claimed, arrived, done, counter, frees>>

-----------------------------------------------------------------------------
Step(t) ==
    \/ ReachBarrier(t) \/ PassBarrier(t) \/ PassGate(t) \/ Enter(t)
    \/ SingleNowait(t) \/ Leave(t) \/ LeaveRefused(t)
    \/ SingleAndWait(t) \/ Collect(t) \/ LeaveSingle(t)
    \/ SkipOutside(t) \/ Submit(t) \/ Execute(t) \/ SubmitShort(t) \/ Finish(t)

Finally == \A t \in Thread : pos[t] > Len(prog)

Next ==
    \/ \E t \in Thread : Step(t)
    \/ PassCounter
    \/ FreeBegin \/ FreeExecute \/ ParentEnd
    \/ Finally /\ frees = 0 /\ owner = None /\ UNCHANGED vars

(* Every thread of the team and the callback thread are scheduled and task *)
(* bodies return.  A thread that spins gets through if what it waits for   *)
(* stays true.                                                             *)
Fairness ==
    /\ \A t \in Thread : WF_vars(Step(t))
    /\ WF_vars(PassCounter)
    /\ WF_vars(FreeBegin) /\ WF_vars(FreeExecute) /\ WF_vars(ParentEnd)

Spec == Init /\ [][Next]_vars
FairSpec == Spec /\ Fairness
-----------------------------------------------------------------------------
(* Properties.                                                             *)

\* Type invariant of the team, the two counters and the parent's mutex.
TypeOK ==
    /\ prog \in Programs
    /\ pos \in [Thread -> 1..(Len(prog) + 1)]
    /\ at \in [Thread -> {"free", "arrived", "ordered", "gated", "entered", "submit", "refused",
                          "locked", "executing", "leave", "single", "call", "called"}]
    /\ claimed \in [Ops -> Thread \cup {None}]
    /\ arrived \in [Ops -> SUBSET Thread] /\ done \in [Ops -> SUBSET Thread]
    /\ counter \in Nat
    /\ depth \in 0..1
    /\ owner \in Thread \cup {None, Other, Callback}
    /\ frees \in Nat

\* All of operation k is executed: a kernel in a region by every thread.
Complete(k) ==
    CASE prog[k].kind = "refused" -> TRUE
      [] prog[k].kind = "kernel" /\ prog[k].in -> done[k] = Thread
      [] OTHER -> done[k] # {}

\* Some of operation k is executed or being executed.
Begun(k) == done[k] # {} \/ \E t \in Thread : pos[t] = k /\ at[t] = "executing"

\* "all threads wait before the operation is executed" (deferred functions and
\* events) and "all threads will wait" (wait, waitFor, allocDeferred): where
\* the team synchronises between operations i and j.
SyncBetween(i, j) ==
    \/ prog[j].kind = "deferred"
    \/ \E k \in i..j : (k > i /\ prog[k].kind = "deferred") \/ (k < j /\ prog[k].kind = "collect")
    \/ \E k \in i..j : ~prog[k].in

\* Operations may overlap or swap only as documented, when no synchronising
\* operation is between them: otherwise the later one begins when every
\* thread's part of the earlier one is executed.
OrderedAcrossSync ==
    \A i, j \in Ops : i < j /\ SyncBetween(i, j) /\ Begun(j) => Complete(i)

\* wait: whichever thread of the team returns from it, all parts of all
\* earlier operations are executed.
WaitCoversTeam ==
    \A t \in Thread : \A k \in Ops :
        pos[t] > k /\ prog[k].kind = "collect" => \A i \in 1..k : Complete(i)

\* "operations wait for tasks enqueued outside the parallel region": nothing of
\* the program is executed before Other's task, enqueued earlier, has ended.
OutsideTaskFirst == owner = Other => \A k \in Ops : ~Begun(k)

\* Every call of every thread returns, in and outside of regions: spinning on
\* the two counters, the barriers and the parent's mutex ends.
ProgramSettles == <>[](Finally /\ frees = 0 /\ owner = None)
=============================================================================
