\* Two threads publish; either process may be killed at any point.
CONSTANTS
    t1 = t1
    t2 = t2
    Threads <- MCThreads
SPECIFICATION Spec
INVARIANTS
    PipesAccounted
    ReadyIsTraced
    OthersFilesIntact
PROPERTIES
    StartsOrExits
    TracerLeaves
\* The process may end.
CHECK_DEADLOCK FALSE
