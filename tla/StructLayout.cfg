SPECIFICATION Spec
CONSTANTS
    Structs = {"A", "B", "C"}
    Basic = {"int", "ptr"}
    BasicSize <- Sizes
    Undeclared = "undeclared"
    NoStruct = "none"
    MaxIterations = 7
    Programs <- Everything
    Orders <- AllOrders
INVARIANTS
    TypeOK
    NoneLost
    FieldsApart
    SizeKeepsAlignment
    RejectsJustTheInfinite
    LaidOut
PROPERTY
    Termination
CHECK_DEADLOCK FALSE
