SPECIFICATION CpSpec
CONSTANTS
    WarpSize = 2
    Threads = 4
    Programs <- CpPrograms
    OperandsRead = TRUE
    BlockingGarbage = {FALSE}
    AtBarGarbage = {FALSE}
    StatusGarbage = {FALSE}
    UIntMod = 8
    CtaInfoGarbage = {"returns", "crashes"}
    NoFile = NoFile
    MaxRuns = 5
INVARIANT
    StackNotEmpty
