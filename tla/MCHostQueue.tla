---------------------------- MODULE MCHostQueue ----------------------------
(***************************************************************************)
(* Programs of two threads over queues and an event.  qa and qc are        *)
(* non-blocking, qb is blocking.  host_queue checks the first three        *)
(* programs; the others exhibit faults, the first two of them deadlocks.    *)
(***************************************************************************)
EXTENDS HostQueue

CONSTANTS t1, t2, qa, qb, qc, e1

C(t, call, q, e) == [th |-> t, call |-> call, q |-> q, e |-> e]

\* t1 makes three calls and t2 two.
ThreeAndTwo == [t \in {t1, t2} |-> IF t = t1 THEN 3 ELSE 2]

TwoEach == [t \in {t1, t2} |-> 2]

\* Two non-blocking queues: t1 and t2 enqueue the event in either of them,
\* make queues wait for it and wait for it themselves.
AsyncCalls ==
    {C(t1, "submit", qa, None), C(t2, "submit", qc, None), C(t1, "waitEvent", None, e1),
     C(t2, "isComplete", None, e1)}
    \cup {C(t1, "event", q, e1) : q \in {qa, qc}}
    \cup {C(t2, c, qc, e1) : c \in {"event", "waitFor"}}

\* A blocking and a non-blocking queue; t1 alone orders the blocking one.
MixedCalls ==
    {C(t1, c, q, e1) : c \in {"event", "waitFor"}, q \in {qa, qb}}
    \cup {C(t, "submit", q, None) : t \in {t1, t2}, q \in {qa, qb}}
    \cup {C(t2, "waitQueue", qb, None), C(t2, "waitEvent", None, e1),
          C(t2, "waitDevice", None, None)}

\* Deferred tasks, buffers that are kept alive in one queue and freed in
\* another, and queues whose last handle is dropped.
LifetimeCalls ==
    {C(t1, "keepAlive", q, to) : q \in {qa, qb}, to \in {qa, qb}}
    \cup {C(t1, "submit", qa, None), C(t2, "submit", qb, None), C(t2, "deferred", qb, None),
          C(t2, "waitQueue", qa, None), C(t1, "drop", qa, None), C(t2, "drop", qb, None)}

\* Faults: t1 and t2 make the blocking queue wait for the same pending event.
WaitForCalls ==
    {C(t1, "event", qa, e1), C(t1, "waitFor", qb, e1), C(t2, "waitFor", qb, e1)}

\* A deferred buffer of the blocking queue is kept alive in the other one.
KeepAliveCalls ==
    {C(t1, "keepAlive", qa, qb), C(t1, "event", qa, e1), C(t1, "waitFor", qb, e1)}

\* t1 drops a queue while t2 waits for the device.
DropCalls ==
    {C(t1, "submit", qa, None), C(t1, "drop", qa, None), C(t2, "waitDevice", None, None)}

\* The programs of each run.
HostQueuePrograms ==
    {[calls |-> AsyncCalls, max |-> ThreeAndTwo], [calls |-> MixedCalls, max |-> ThreeAndTwo],
     [calls |-> LifetimeCalls, max |-> TwoEach]}
DeadlockPrograms ==
    {[calls |-> WaitForCalls, max |-> ThreeAndTwo], [calls |-> KeepAliveCalls, max |-> ThreeAndTwo]}
DropPrograms == {[calls |-> DropCalls, max |-> TwoEach]}
=============================================================================
