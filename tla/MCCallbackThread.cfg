SPECIFICATION FairSpec
CONSTANTS
    t1 = t1
    t2 = t2
    t3 = t3
    t4 = t4
    Client = {c1, c2}
    NoTask = NoTask
    Task <- MCTask
    Owning <- MCOwning
    FollowUp <- MCFollowUp
INVARIANTS
    TypeOK
    FutureSetAfterDestruction
    RunsAtMostOnce
    DestructorDrains
    IndInv
PROPERTIES
    NoUseAfterDestruction
    EveryTaskCompletes
    DestructorReturns
    RefinesTaskQueue
