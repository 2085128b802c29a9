SPECIFICATION Spec
CONSTANTS
    i1 = i1
    i2 = i2
    i3 = i3
    u1 = u1
    u2 = u2
    c1 = c1
    c2 = c2
    NoCredential = NoCredential
    NoIndex = NoIndex
    Credential <- TwoCredentials
    Isolation = "serial"
    Crashes = FALSE
    Issuance <- TwoIssuances
    Update <- OneUpdate
    Length = 2
    Hints <- AnyHint
    Values = {"none"}
    Items = {"set"}
    MaxItems = 1
    MaxTries = 1
CHECK_DEADLOCK FALSE
SYMMETRY Interchangeable
INVARIANTS
    ReissueKeepsStatus
