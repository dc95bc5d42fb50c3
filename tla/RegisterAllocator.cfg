SPECIFICATION Spec
CONSTANTS
    NFuncs = 2
    NSlots = 4
    NRegs = 2
    Programs <- OneOrTwo
INVARIANTS
    TypeOK
    ProperColoring
    FewestColors
    AloneSafe
    LastSafe
    UniformSafe
CHECK_DEADLOCK FALSE
