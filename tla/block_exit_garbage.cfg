SPECIFICATION FairSpec
CONSTANTS
    WarpSize = 3
    Threads = 5
    Programs <- Vector
    OperandsRead = TRUE
    BlockingGarbage = {FALSE}
    AtBarGarbage = {FALSE}
    StatusGarbage = {FALSE, TRUE}
    UIntMod = 8
INVARIANT
    EndsAtExit
