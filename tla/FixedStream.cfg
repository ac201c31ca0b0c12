SPECIFICATION FixedStreamSpec
CONSTANTS
    Targets <- MCTargets
    Contents <- MCContents
    SkillAxis <- MCSkillAxis
    InitialConversations <- MCConversations
    FixedScenarios <- MCFixedScenarios
    Observations <- MCObservations
INVARIANTS
    EachStageIsShownOnce
    StagesAreShownInCausalOrder
