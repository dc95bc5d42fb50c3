SPECIFICATION Spec
CONSTANTS
    Widths = {4, 8}
    Programs <- SharedImmediates
    Places <- AllPlaces
    Slots = {1, 2, 3, 4, 5, 6, 7, 8}
    Immediates = {0, 1, 2, 3, 4, 5, 6, 7}
    Pool = {"rbx", "rcx"}
INVARIANT
    CalleeSavedKept
CHECK_DEADLOCK FALSE
