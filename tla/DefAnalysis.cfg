SPECIFICATION Spec
CONSTANTS
    NBlocks = 4
    Var = {v1}
INVARIANTS
    Sound
    Exact
PROPERTIES
    Termination
CHECK_DEADLOCK FALSE
