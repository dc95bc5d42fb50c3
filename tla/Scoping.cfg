SPECIFICATION Spec
CONSTANTS
    Programs <- AllPrograms
    Predefined = {"print"}
INVARIANTS
    ResolvesLexically
    StableResolution
PROPERTY
    OwnVariables
CHECK_DEADLOCK FALSE
