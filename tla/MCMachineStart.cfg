SPECIFICATION Spec
CONSTANTS
    a = a
    b = b
    m1 = m1
    m2 = m2
    m3 = m3
    m4 = m4
    NoId = NoId
    Caller <- TwoCallers
    Instance <- FourInstances
    Types = {"new", "existing", "auto"}
    Ids <- OneIdOrNone
    Singleton = {TRUE, FALSE}
    CleanAll = {TRUE, FALSE}
    NoRegistration = {TRUE, FALSE}
    AtStart = {"absent", "active", "timed"}
CHECK_DEADLOCK FALSE
SYMMETRY Interchangeable
PROPERTIES
    CleanCallLeavesItsOwn
    SingletonStartsAlone
