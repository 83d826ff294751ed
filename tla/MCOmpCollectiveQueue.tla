------------------------ MODULE MCOmpCollectiveQueue ------------------------
(***************************************************************************)
(* A team of three threads, as in test/unit/queue/ompCollectiveQueue.cpp.  *)
(***************************************************************************)
EXTENDS OmpCollectiveQueue

CONSTANTS t1, t2, t3

In(kind) == [kind |-> kind, in |-> TRUE]
Out(kind) == [kind |-> kind, in |-> FALSE]

\* A region between operations of the master; all kinds in an order the
\* test uses, with keepAlive and an event inside.  A refused launch is followed
\* by launches in the region only.
TeamPrograms ==
    {<<Out("deferred"), In("kernel"), In("host"), In("collect"), In("kernel"), Out("collect")>>,
     <<In("kernel"), In("host"), In("host"), In("deferred"), In("kernel"), Out("host")>>,
     <<Out("kernel"), In("collect"), In("collect"), In("deferred"), Out("deferred"), In("host")>>,
     <<In("refused"), In("kernel"), In("collect")>>}
=============================================================================
