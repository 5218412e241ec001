SPECIFICATION RegSpec
CONSTANTS
    Cells = 5
    Reserved = 1
    ConstNum = 2
    Bits = {0, 1}
    Written <- AllNumbers
PROPERTIES
    ImplementsRegisters
