CONSTANTS
    Launches <- MCLaunches
    Reductions <- MCReductions
    Junk = 1000000
SPECIFICATION AlgoSpec
INVARIANTS
    NoSharedRace
    AccessesInBounds
    BufferSuffices
    PrefixSums
    EveryElementReducedOnce
