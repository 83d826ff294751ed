SPECIFICATION RandomSpec
CONSTANTS
    Modulus = 16
    MaxVisits = 2
    Word = 4
    Launches <- IndexLaunches
    SimdLaunches <- AlgoLaunches
    RandomLaunches <- RandomFills
INVARIANTS
    VisitsInRange
    NoIndexTwice
    AllIndicesVisited
    
PROPERTIES
    LoopsTerminate
