SPECIFICATION FairSpec
CONSTANTS
    WarpSize = 3
    Threads = 5
    Programs <- Looping
    OperandsRead = TRUE
    BlockingGarbage = {FALSE, TRUE}
    AtBarGarbage = {FALSE, TRUE}
    StatusGarbage = {FALSE, TRUE}
    UIntMod = 8
INVARIANTS
    TypeOK
    StackPartition
    StackTracksThreads
    AssertsHold
    LiveCount
    FinishedDone
    EndsExplained
PROPERTIES
    DoneIsFinal
    UnheldCompletes
