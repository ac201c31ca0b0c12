SPECIFICATION FairWorkspaceSpec
CONSTANTS
    o1 = o1
    o2 = o2
    Runs <- MCRuns
    NoRun = NoRun
    WireCapacity = 2
    KnownScenarios = {"known"}
    ScenariosLoad = TRUE
    Bodies <- MCBodies
CHECK_DEADLOCK FALSE
INVARIANTS
    WorkspaceTypeOK
    ScreenShowsOneObservation
    SettledScreenAgreesWithTheHost
PROPERTIES
    FailureIsFinal
    ObservationSettles
