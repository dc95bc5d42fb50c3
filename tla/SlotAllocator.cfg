SPECIFICATION Spec
CONSTANTS
    Var = {v1, v2, v3, v4}
    MaxIndex = 3
    NoItem = NoItem
INVARIANTS TypeOK SlotSafety SlotsPartitioned FewestSlots
PROPERTIES ImplementsIntervalColoring
CHECK_DEADLOCK FALSE
