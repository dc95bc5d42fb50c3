SPECIFICATION Spec
CONSTANTS
    Params = {0, 2}
    Bodies <- AllBodies
INVARIANT NoUndeclaredName
CHECK_DEADLOCK FALSE
