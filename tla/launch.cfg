SPECIFICATION FairSpec
CONSTANTS
    Workers = {w1, w2}
    Grid <- Grid2x2
    Block <- Block1
    MaxRunning = 2
    FreeSlots = 2
    BarUsed = 1
    AllocReturns = {TRUE}
    OpenCL = FALSE
INVARIANTS
    RunningCounts
    EveryCtaOnce
PROPERTIES
    ImplementsPool
    LaunchReturns
