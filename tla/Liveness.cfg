SPECIFICATION Spec
CONSTANTS
    Blocks = {b1, b2, b3}
    Var = {v1}
INVARIANTS
    TypeOK
    Solved
    BelowEverySolution
    LiveMeansRead
PROPERTIES
    Termination
CHECK_DEADLOCK FALSE
