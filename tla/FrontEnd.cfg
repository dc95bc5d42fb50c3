SPECIFICATION Spec
CONSTANTS
    Params = {0, 2}
    Bodies <- AllBodies
INVARIANTS
    TypeOK
    SameEvents
    Returns
    UninitializedOnlyIfDefined
CHECK_DEADLOCK FALSE
