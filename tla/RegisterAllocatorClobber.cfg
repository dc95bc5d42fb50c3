SPECIFICATION Spec
CONSTANTS
    NFuncs = 2
    NSlots = 3
    NRegs = 3
    Programs <- RealPrograms
INVARIANT
    ProgramSafe
CHECK_DEADLOCK FALSE
