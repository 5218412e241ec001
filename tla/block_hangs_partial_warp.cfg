SPECIFICATION FairSpec
CONSTANTS
    WarpSize = 3
    Threads = 5
    Programs <- Vector
    OperandsRead = TRUE
    BlockingGarbage = {FALSE}
    AtBarGarbage = {FALSE, TRUE}
    StatusGarbage = {FALSE}
    UIntMod = 8
PROPERTY
    Completes
