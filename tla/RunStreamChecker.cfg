SPECIFICATION StreamSpec
CONSTANTS
    Targets <- MCTargets
    Contents <- LiveContents
    SkillAxis <- MCSkillAxis
    InitialConversations <- LiveConversations
    FiringSignals <- StreamSignals
    Scenarios = {}
    LoopSources = {"prompt_contract"}
    IterationLimits = {1, 2}
    Observations <- MCObservations
INVARIANTS
    ShownCheckerIsTheChecker
