SPECIFICATION HostSpec
CONSTANTS
    r1 = r1
    r2 = r2
    Runs <- MCRuns
    WireCapacity = 2
    KnownScenarios = {"known"}
    ScenariosLoad = TRUE
    Bodies <- MCBodies
SYMMETRY Symmetry
CHECK_DEADLOCK FALSE
INVARIANTS
    HostTypeOK
    CompletionIsRecordedBeforeItIsSent
    NothingFollowsTheEnd
PROPERTIES
    ImplementsRunLifecycle
