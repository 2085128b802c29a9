SPECIFICATION Spec
CONSTANTS
    d1 = d1
    d2 = d2
    c1 = c1
    c2 = c2
    c3 = c3
    None = None
    Given = Given
    Added <- OneRevoked
    Doc <- TwoDocs
    Call <- ThreeCalls
    MaxRows = 4
CHECK_DEADLOCK FALSE
SYMMETRY Interchangeable
INVARIANTS
    TypeOK
    RevocationStands
    WholeTreesGo
    CountIsExact
