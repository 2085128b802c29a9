CONSTANTS
    c1 = c1
    c2 = c2
    v1 = v1
    v2 = v2
    None = None
    Client <- TwoClients
    Value <- TwoValues
    Lifetime <- Lifetimes
    Orders <- EveryOrder
    MaxTime = 3
    MaxCalls = 4
SYMMETRY Symmetric
SPECIFICATION Spec
INVARIANTS
    TypeOK
    LoneWriteHeals
PROPERTIES
    InTurnIsAMap
    LoneSetStands
CHECK_DEADLOCK FALSE
