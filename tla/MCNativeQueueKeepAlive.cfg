SPECIFICATION FairSpec
CONSTANTS
    t1 = t1
    t2 = t2
    q1 = q1
    q2 = q2
    e1 = e1
    None = None
    Thread = {t1, t2}
    Queue = {q1, q2}
    Event = {e1}
    Programs <- KeepAlivePrograms
PROPERTY KeepAliveDoesNotBlock
\* calls and destructors may wait for each other forever
CHECK_DEADLOCK FALSE
