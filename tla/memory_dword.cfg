SPECIFICATION Spec
CONSTANTS
    W = 8
    Blocks = {0, 1}
    NLanes = 2
    MaxV = 6
    MaxS = 17
    IndexBits = {"x", "y"}
    NSM = 2
    NThreads = 2
    SHARED_MEM_SIZE_MAX = 32
    LOCAL_MEM_SIZE_MAX = 3
    GLOBAL_HEAP_START = 96
    SHARED_GENERIC_START = 20
    LOCAL_GENERIC_START = 8
    STATIC_ALLOC_LIMIT = 4
    Programs <- Dwords
INVARIANT
    DwordLoaded
CHECK_DEADLOCK FALSE
