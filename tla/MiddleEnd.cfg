SPECIFICATION Spec
CONSTANTS
    Names = {0, 1, 2}
    Params = {0}
    Bodies <- AllBodies
    MaxBlocks = 20
    MaxTmp = 30
INVARIANTS
    OperandsKept
CHECK_DEADLOCK FALSE
