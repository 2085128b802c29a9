SPECIFICATION Spec
CONSTANTS
    Deployments = {"local", "remote"}
    Cleanups = {"unset", "on", "off"}
    MaxVersion <- SixOrTwo
    MaxRun <- ThreeRuns
CHECK_DEADLOCK FALSE
INVARIANTS
    TypeOK
    QuietMeansSaved
PROPERTIES
    NewerStatesStay
    ImplementsDurability
    EveryEventIsHandled
