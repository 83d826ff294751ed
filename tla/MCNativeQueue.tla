---------------------------- MODULE MCNativeQueue ----------------------------
(***************************************************************************)
(* Two user threads, one or two queues, both backends.                     *)
(***************************************************************************)
EXTENDS NativeQueue, TLC

CONSTANTS t1, t2, q1, q2, e1

C(th, call, q) == [th |-> th, call |-> call, q |-> q, e |-> None]
E(th, call, q) == [th |-> th, call |-> call, q |-> q, e |-> e1]

Program(backend, blocking, calls, m1, m2) ==
    [backend |-> backend, blocking |-> blocking, calls |-> calls,
     max |-> (t1 :> m1 @@ t2 :> m2)]

\* one queue of either kind, with host functions, waits and its destruction
OneQueue ==
    {Program(b, k, {C(t1, "host", q1), C(t1, "deferred", q1),
                    C(t1, "waitQueue", q1), C(t1, "drop", q1), C(t2, "drop", q1)}, 4, 1) :
        b \in {"cuda", "sycl"}, k \in {{}, {q1}}}
        \cup
    {Program(b, {}, {C(t1, "host", q1), C(t1, "deferred", q1), C(t2, "waitQueue", q1)}, 3, 1) :
        b \in {"cuda", "sycl"}}

\* an event orders the operations of two queues
TwoQueues ==
    {Program(b, k, {C(t1, "host", q1), E(t1, "event", q1), E(t2, "waitFor", q2),
                    C(t2, "work", q2), E(t2, "waitEvent", q2)}, 2, 2) :
        b \in {"cuda", "sycl"}, k \in {{}, {q2}}}

\* a deferred buffer is kept by its own queue or by another; handles stay
Kept ==
    {Program(b, {}, {C(t1, "alloc", q1), C(t1, "work", q1), C(t1, "keepAlive", q1),
                     C(t1, "dropBuffer", q1)}, 5, 0) : b \in {"cuda", "sycl"}}
        \cup
    {Program(b, {}, {C(t1, "alloc", q1), C(t1, "dropBuffer", q1), C(t2, "work", q2),
                     C(t2, "keepAlive", q2)}, 2, 2) : b \in {"cuda", "sycl"}}

\* its destructor waits for another queue, whose handles go out of scope
Waited ==
    {Program(b, k, {C(t1, "alloc", q1), C(t1, "destructorWaitFor", q2), C(t1, "dropBuffer", q1),
                    C(t2, "host", q2), C(t2, "drop", q2), C(t1, "drop", q2)},
             4, 2) : b \in {"cuda", "sycl"}, k \in {{}, {q2}}}

\* queue and buffer go out of scope in any order; a blocking queue may keep it
Dropped ==
    {Program(b, {q1}, {C(t1, "alloc", q1), C(t1, "host", q1), C(t1, "keepAlive", q1),
                       C(t1, "dropBuffer", q1), C(t1, "drop", q1), C(t2, "drop", q1)}, 5, 1) :
        b \in {"cuda", "sycl"}}

NativePrograms == OneQueue \cup TwoQueues \cup Kept \cup Waited \cup Dropped

\* a buffer is kept by its own non-blocking queue, then both are dropped; with
\* SYCL a host function follows
KeepAlivePrograms ==
    {Program("cuda", {}, {C(t1, "alloc", q1), C(t1, "keepAlive", q1), C(t1, "dropBuffer", q1),
                          C(t1, "drop", q1), C(t2, "drop", q1)}, 4, 1),
     Program("sycl", {}, {C(t1, "alloc", q1), C(t1, "host", q1), C(t1, "dropBuffer", q1),
                          C(t1, "drop", q1), C(t2, "drop", q1)}, 4, 1)}

\* two threads enqueue to one SYCL queue
EmptyPrograms == {Program("sycl", {}, {C(t1, "work", q1), C(t2, "work", q1)}, 1, 1)}
=============================================================================
