SPECIFICATION FairSpec
CONSTANTS
    Workers = {w1, w2}
    Grid <- Grid2
    Block <- Block2
    MaxRunning = 2
    FreeSlots = 2
    BarUsed = 1
    AllocReturns = {TRUE}
    OpenCL = FALSE
INVARIANT ThreadsOfBlock
