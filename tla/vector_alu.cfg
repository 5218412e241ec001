SPECIFICATION Spec
CONSTANTS
    W = 4
    NLanes = 3
    MaxV = 2
    MaxS = 5
    Vcc = 3
    Tcc = 4
    Exec = 5
    Beyond <- Leftover
    Programs <- AllPrograms
    Contents <- AllContents
INVARIANTS
    CarriesExact
    VectorExact
    OthersKept
CHECK_DEADLOCK FALSE
