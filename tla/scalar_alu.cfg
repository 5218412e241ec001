SPECIFICATION Spec
CONSTANTS
    W = 4
    MaxReg = 2
    ExecReg = 1
    LitReg = 1
    WordRegs = {0, 1}
    Literals = {0, 3, 9}
    Ops <- AllOps
    Collect = TRUE
INVARIANTS
    FlagsExact
    ScalarExact
    PairsExact
