CONSTANTS
    r1 = r1
    r2 = r2
    w1 = w1
    w2 = w2
    e1 = e1
    e2 = e2
    p1 = p1
    p2 = p2
    None = None
    Request <- TwoRequests
    Run <- TwoRuns
    Editor <- TwoEditors
    Payload <- TwoPayloads
    Named <- NamedVersions
    Tables <- NoneOrOneVersion
    MaxVersion = 11
    Edits = 3
    Scenes <- AllScenes
SPECIFICATION Spec
INVARIANTS
    TypeOK
    RefusedOnlyIfChanged
    AnswersAreConsented
PROPERTIES
    PolledForward
    AcceptedIsReported
    PresentationGoesOn
    AutoIncrementIsServed
    ImplementsPresentation
CHECK_DEADLOCK FALSE
