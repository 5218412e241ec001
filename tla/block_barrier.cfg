SPECIFICATION FairSpec
CONSTANTS
    WarpSize = 3
    Threads = 5
    Programs <- OnlyNested
    OperandsRead = TRUE
    BlockingGarbage = {FALSE}
    AtBarGarbage = {FALSE}
    StatusGarbage = {FALSE}
    UIntMod = 8
PROPERTY
    BarrierHolds
