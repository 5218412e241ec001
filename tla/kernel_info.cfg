SPECIFICATION Spec
CONSTANTS
    Dims <- SmallDims
    Extra = 3
INVARIANTS
    WalksGrid
    WalksBlock
CHECK_DEADLOCK FALSE
