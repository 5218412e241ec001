SPECIFICATION FairSpec
CONSTANTS
    WarpSize = 3
    Threads = 6
    Programs <- Vector
    OperandsRead = TRUE
    BlockingGarbage = {FALSE, TRUE}
    AtBarGarbage = {FALSE}
    StatusGarbage = {FALSE}
    UIntMod = 8
PROPERTY
    Completes
