SPECIFICATION FairSpec
CONSTANTS
    t1 = t1
    t2 = t2
    t3 = t3
    Thread = {t1, t2, t3}
    Main = t1
    Other = Other
    Callback = Callback
    None = None
    Programs <- TeamPrograms
INVARIANTS
    TypeOK
    OrderedAcrossSync
    WaitCoversTeam
    OutsideTaskFirst

    
