SPECIFICATION Spec
CONSTANTS
    Targets <- MCTargets
    Contents <- MCContents
    SkillAxis <- MCSkillAxis
    InitialConversations <- MCConversations
    FiringSignals <- MCFiringSignals
    Scenarios <- MCScenarios
    LoopSources = {"fixed_scenario", "prompt_contract"}
    IterationLimits = {0, 2}
    Observations <- MCObservations
INVARIANTS
    TypeOK
    LaunderingIsGrounded
    AgentCannotAuthorizeItself
    ExplanationIsFresh
    CheckerSeesTheHistoryOfTheCause
    ApplicableContractsAreObserved
    OutcomeFollowsTheCause
    StepTracesFollowTheGraph
PROPERTIES
    ProposalOfRecordIsStable
    ImplementsCauseSide
