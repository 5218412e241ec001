SPECIFICATION FairSpec
CONSTANTS
    Workers = {w1, w2, w3}
    NTasks = 4
INVARIANTS
    EachTaskOnce
    NoTaskAbandoned
    NoLostWakeup
PROPERTIES
    ImplementsTaskPool
    Terminates
