SPECIFICATION Spec
CONSTANTS
    Warps = {0, 1}
    Lanes = {0, 1}
    Regs = {0, 1}
    MaxVal = 1
    Insts <- MovCmp
INVARIANTS
    StayingLanesRight
PROPERTY
    BystandersKept
CHECK_DEADLOCK FALSE
