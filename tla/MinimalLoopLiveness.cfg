SPECIFICATION FairSpec
CONSTANTS
    Targets <- MCTargets
    Contents <- LiveContents
    SkillAxis <- MCSkillAxis
    InitialConversations <- LiveConversations
    FiringSignals <- LiveSignals
    Scenarios <- MCScenarios
    LoopSources = {"fixed_scenario", "prompt_contract"}
    IterationLimits = {0, 1, 2}
    Observations <- MCObservations
PROPERTIES
    CompletesItsIterations
