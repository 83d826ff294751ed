SPECIFICATION Spec
CONSTANTS
    ElemBytes = 2
    Alignment = 4
    Modulus = 40
    Jobs <- MemoryJobs
INVARIANTS
    OnlyTheViewIsTouched
    EveryElementIsTouched
    EventCoversAllCalls
