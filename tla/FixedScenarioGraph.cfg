SPECIFICATION FixedSpec
CONSTANTS
    Targets <- MCTargets
    Contents <- MCContents
    SkillAxis <- MCSkillAxis
    InitialConversations <- MCConversations
    FixedScenarios <- MCFixedScenarios
    Observations <- MCObservations
INVARIANTS
    FixedTypeOK
    WriterFindsItsInputs
    PublishedTraceReportsTheRun
    SafeControlReportsNoDrift
    CheckerIsToldTheHistoryOfTheCause
PROPERTIES
    FixedImplementsCauseSide
