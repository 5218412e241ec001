SPECIFICATION Spec
CONSTANTS
    W = 4
    NLanes = 3
    MaxV = 2
    MaxS = 5
    Vcc = 3
    Tcc = 4
    Exec = 5
    Beyond <- Leftover
    Programs <- AliasProgram
    Contents <- AllContents
INVARIANT
    LanesAgree
CHECK_DEADLOCK FALSE
