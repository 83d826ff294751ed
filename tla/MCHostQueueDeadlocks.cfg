SPECIFICATION FairSpec
CONSTANTS
    t1 = t1
    t2 = t2
    qa = qa
    qb = qb
    qc = qc
    e1 = e1
    None = None
    Thread = {t1, t2}
    Queue = {qa, qb}
    Blocking = {qb}
    Event = {e1}
    Programs <- DeadlockPrograms
PROPERTIES
    EventIsSignalled
CHECK_DEADLOCK FALSE
