SPECIFICATION RandomSpec
CONSTANTS
    Modulus = 16
    MaxVisits = 2
    Word = 4
    Launches <- SelectionLaunches
    SimdLaunches <- NoLaunches
    RandomLaunches <- NoLaunches
INVARIANTS
    AllIndicesVisited
