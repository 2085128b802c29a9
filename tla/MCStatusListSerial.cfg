SPECIFICATION Spec
CONSTANTS
    i1 = i1
    i2 = i2
    i3 = i3
    u1 = u1
    u2 = u2
    c1 = c1
    c2 = c2
    NoCredential = NoCredential
    NoIndex = NoIndex
    Credential <- TwoCredentials
    Isolation = "serial"
    Crashes = TRUE
    Issuance <- TwoIssuances
    Update <- TwoUpdates
    Length = 2
    Hints <- ZeroOrNone
    Values = {"none", "1"}
    Items = {"set", "clear", "malformed"}
    MaxItems = 2
    MaxTries = 2
CHECK_DEADLOCK FALSE
SYMMETRY Interchangeable
INVARIANTS
    TypeOK
    LastUpdateIsPublished
PROPERTIES
    ImplementsRegistry
