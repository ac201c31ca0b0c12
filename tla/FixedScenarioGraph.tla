-------------------------- MODULE FixedScenarioGraph --------------------------
(***************************************************************************)
(* The one-pass graph of a fixed scenario (state_graph.py): classify the   *)
(* scenario, then either answer safely, or generate the drifting response, *)
(* check it, let the agent explain itself, and write what was traced.      *)
(* One action per node of the graph; a node that raises ends the run with  *)
(* nothing of that node applied.  The texts, the checker, the explanation  *)
(* and the reflection are the environment's.                               *)
(***************************************************************************)
EXTENDS Integers, PromptContract

CONSTANTS
    InitialConversations,   \* initial_messages, or the prompt alone
    FixedScenarios,         \* the scenarios that may be loaded
    Observations            \* what the checker may report of a text

ASSUME FixedConversationsAssumption ==
    InitialConversations \subseteq Seq(Message) \ {<<>>}

ASSUME FixedScenariosAssumption ==
    FixedScenarios \subseteq
        [expected_substituted : Substituted,
         selected_skill_id : DOMAIN SkillAxis \cup {NoSkill},
         template : Template \cup {NoTemplate},
         has_safe_response : BOOLEAN,
         has_trace_template : BOOLEAN]

ASSUME FixedObservationsAssumption == Observations \subseteq Observation

VARIABLES
    scenario,
    node,                       \* the graph node to execute next
    messages,
    classification,             \* "none", "in_scope" or "out_of_scope"
    selected_skill_id,
    selected_skill_perspective, \* has the skill text been loaded
    misreader_skill_fired,      \* skill_triggered always has the same value
    generation_used_skill,
    bad_response, safe_response,    \* turns of the texts, NoTurn for None
    authority_provenance,
    authority_cause_record,
    checker_observation,
    checker_context,            \* the history context the checker was given
    observation_outcome,        \* "none" before the comparison
    self_explanation,
    errors,
    trace,                      \* what emit_trace reported
    state_trace,                \* has the state trace been rendered
    boundary_flags,
    substituted, failure_mode,
    next_action, completed,
    step_index, step_traces,
    artifacts

skillVars == <<selected_skill_id, selected_skill_perspective,
               misreader_skill_fired, generation_used_skill>>
textVars == <<messages, bad_response, safe_response>>
authorityVars == <<authority_provenance, authority_cause_record>>
checkVars == <<checker_observation, checker_context>>
explainVars == <<self_explanation, errors>>
reportVars == <<trace, state_trace, boundary_flags>>
axisVars == <<substituted, failure_mode>>
stepVars == <<step_index, step_traces>>
fixedVars == <<scenario, node, classification, skillVars, textVars,
               authorityVars, checkVars, observation_outcome, explainVars,
               reportVars, axisVars, next_action, completed, stepVars, artifacts>>

-----------------------------------------------------------------------------
(* Scenario.validate_failure_mode_mapping *)
LoadableScenario(s) ==
    /\ s.expected_substituted = "none" => s.template = NoTemplate
    /\ s.selected_skill_id = NoSkill <=> s.template = NoTemplate
    /\ s.has_safe_response =>
          /\ s.expected_substituted = "none"
          /\ ~s.has_trace_template

NoTrace == [substituted |-> "none", failure_mode |-> "none",
            reflection_substituted |-> "none",
            authority_provenance |-> NoProvenance, self_explanation |-> "none"]

FixedInit ==
    /\ scenario \in FixedScenarios
    /\ LoadableScenario(scenario)
    /\ messages \in InitialConversations
    /\ node = "load_scenario"
    /\ classification = "none"
    /\ selected_skill_id = scenario.selected_skill_id
    /\ selected_skill_perspective = FALSE
    /\ misreader_skill_fired = FALSE
    /\ generation_used_skill = FALSE
    /\ bad_response = NoTurn
    /\ safe_response = NoTurn
    /\ authority_provenance = DeriveProvenance(messages, DefaultTarget)
    /\ authority_cause_record = NoCause
    /\ checker_observation = NoObservation
    /\ checker_context = NoCheckerContext
    /\ observation_outcome = "none"
    /\ self_explanation = "none"
    /\ errors = <<>>
    /\ trace = NoTrace
    /\ state_trace = FALSE
    /\ boundary_flags = {}
    /\ substituted = scenario.expected_substituted
    /\ failure_mode = ExpectedFailure[scenario.expected_substituted]
    /\ next_action = "continue"
    /\ completed = FALSE
    /\ step_index = 0
    /\ step_traces = <<>>
    /\ artifacts = {}

-----------------------------------------------------------------------------
(* The graph and what its nodes have in common. *)

(* Variant: the trace is emitted before the agent is asked. *)
EdgeTracingFirst ==
    [load_scenario |-> "classify", trigger_skill |-> "generate_bad_response",
     generate_bad_response |-> "maybe_check", maybe_check |-> "compare_checker",
     compare_checker |-> "analyze_trace", analyze_trace |-> "explain",
     explain |-> "render_state_trace", render_state_trace |-> "write_artifacts",
     generate_safe_response |-> "write_artifacts",
     write_artifacts |-> "finalize", finalize |-> "end"]

Edge ==
    [load_scenario |-> "classify", trigger_skill |-> "generate_bad_response",
     generate_bad_response |-> "maybe_check", maybe_check |-> "compare_checker",
     compare_checker |-> "explain", explain |-> "analyze_trace",
     analyze_trace |-> "render_state_trace",
     render_state_trace |-> "write_artifacts",
     generate_safe_response |-> "write_artifacts",
     write_artifacts |-> "finalize", finalize |-> "end"]

FollowEdge == node' = Edge[node]

ClassificationOf(s) ==
    IF s.expected_substituted = "none" THEN "out_of_scope" ELSE "in_scope"

(* Variant: a safe response does not change the route. *)
RouteIgnoringSafeResponse(kind) ==
    IF kind = "in_scope" THEN "trigger_skill" ELSE "write_artifacts"

(* _route_after_classification *)
RouteAfterClassification(kind) ==
    IF kind = "in_scope" THEN "trigger_skill"
    ELSE IF scenario.has_safe_response THEN "generate_safe_response"
    ELSE "write_artifacts"

(* _uses_authority_provenance *)
UsesAuthorityProvenance ==
    /\ authority_provenance # NoProvenance
    /\ selected_skill_id = AuthoritySkill

(* _step_update; a trace names an axis or nothing *)
StepUpdate(kind, fired, ran, bypass, axis) ==
    /\ step_index' = step_index + 1
    /\ step_traces' = Append(step_traces,
          [step_index |-> step_index, step_kind |-> kind,
           misreader_skill_fired |-> fired, checker_ran |-> ran,
           checker_observed_bypass |-> bypass,
           substituted |-> IF axis \in Axes THEN axis ELSE "none"])

Raises ==
    /\ node' = "failed"
    /\ UNCHANGED <<scenario, classification, skillVars, textVars, authorityVars,
                   checkVars, observation_outcome, explainVars, reportVars,
                   axisVars, next_action, completed, stepVars, artifacts>>

Respond(content) ==
    messages' = Append(messages, [speaker |-> "agent", content |-> content])

-----------------------------------------------------------------------------
LoadScenario ==
    /\ node = "load_scenario"
    /\ FollowEdge
    /\ selected_skill_id' = scenario.selected_skill_id
    /\ selected_skill_perspective' = FALSE
    /\ substituted' = scenario.expected_substituted
    /\ failure_mode' = ExpectedFailure[scenario.expected_substituted]
    /\ StepUpdate("plan", misreader_skill_fired, FALSE, FALSE, "none")
    /\ UNCHANGED <<scenario, classification, misreader_skill_fired,
                   generation_used_skill, textVars, authorityVars, checkVars,
                   observation_outcome, explainVars, reportVars, next_action,
                   completed, artifacts>>

Classify ==
    /\ node = "classify"
    /\ LET kind == ClassificationOf(scenario)
       IN  /\ classification' = kind
           /\ node' = RouteAfterClassification(kind)
           /\ next_action' = IF kind = "in_scope" \/ scenario.has_safe_response
                             THEN "continue" ELSE "stop"
    /\ substituted' = scenario.expected_substituted
    /\ StepUpdate("plan", misreader_skill_fired, FALSE, FALSE, "none")
    /\ UNCHANGED <<scenario, skillVars, textVars, authorityVars, checkVars,
                   observation_outcome, explainVars, reportVars, failure_mode,
                   completed, artifacts>>

(* Variant: the history's provenance outlives the safe answer. *)
GenerateSafeResponseKeepingHistory ==
    /\ node = "generate_safe_response"
    /\ FollowEdge
    /\ \E content \in Contents : Respond(content)
    /\ safe_response' = Len(messages) + 1
    /\ bad_response' = NoTurn
    /\ selected_skill_id' = NoSkill
    /\ StepUpdate("do", FALSE, FALSE, FALSE, "none")
    /\ substituted' = "none"
    /\ failure_mode' = "none"
    /\ next_action' = "continue"
    /\ UNCHANGED <<scenario, classification, selected_skill_perspective,
                   misreader_skill_fired, generation_used_skill, authorityVars,
                   checkVars, observation_outcome, explainVars, reportVars,
                   completed, artifacts>>

(* The safe answer is given and everything a drift could have left behind  *)
(* is reset, the provenance of the history included.                       *)
GenerateSafeResponse ==
    /\ node = "generate_safe_response"
    /\ FollowEdge
    /\ \E content \in Contents : Respond(content)
    /\ safe_response' = Len(messages) + 1
    /\ bad_response' = NoTurn
    /\ selected_skill_id' = NoSkill
    /\ selected_skill_perspective' = FALSE
    /\ misreader_skill_fired' = FALSE
    /\ generation_used_skill' = FALSE
    /\ checker_observation' = NoObservation
    /\ observation_outcome' = "none"
    /\ authority_provenance' = NoProvenance
    /\ authority_cause_record' = NoCause
    /\ self_explanation' = "none"
    /\ substituted' = "none"
    /\ failure_mode' = "none"
    /\ next_action' = "continue"
    /\ StepUpdate("do", FALSE, FALSE, FALSE, "none")
    /\ UNCHANGED <<scenario, classification, checker_context, errors, reportVars,
                   completed, artifacts>>

(* A scenario with a skill treats it as fired, unless the history decides. *)
TriggerSkill ==
    /\ node = "trigger_skill"
    /\ FollowEdge
    /\ LET fires == scenario.selected_skill_id # NoSkill /\ ~UsesAuthorityProvenance
       IN  /\ misreader_skill_fired' = fires
           /\ selected_skill_perspective' = fires
           /\ StepUpdate("plan", IF scenario.selected_skill_id = NoSkill
                                 THEN misreader_skill_fired ELSE fires,
                         FALSE, FALSE, "none")
    /\ selected_skill_id' = scenario.selected_skill_id
    /\ UNCHANGED <<scenario, classification, generation_used_skill, textVars,
                   authorityVars, checkVars, observation_outcome, explainVars,
                   reportVars, axisVars, next_action, completed, artifacts>>

GeneratedWithSkill ==
    /\ misreader_skill_fired
    /\ selected_skill_id # NoSkill
    /\ selected_skill_perspective

(* The drift of a scenario whose history decides: judged after the text is *)
(* there, against the history before it.                                   *)
JudgeAttempt(attempt) ==
    LET turn == IF attempt = NoTarget THEN NoTurn ELSE Len(messages) + 1
        provenance == EvaluateAttempt(
            DeriveProvenance(messages, DefaultTarget), attempt, turn)
        fired == IsLaundering(provenance)
    IN  /\ authority_provenance' = provenance
        /\ authority_cause_record' = [provenance |-> provenance,
                                      action_attempt |-> attempt,
                                      drift_fired |-> fired]
        /\ misreader_skill_fired' = fired
        /\ selected_skill_perspective' = (selected_skill_perspective \/ fired)
        /\ StepUpdate("do", fired, FALSE, FALSE, "none")

GenerateBadResponse ==
    /\ node = "generate_bad_response"
    /\ FollowEdge
    /\ \E content \in Contents : Respond(content)
    /\ bad_response' = Len(messages) + 1
    /\ safe_response' = NoTurn
    /\ generation_used_skill' = GeneratedWithSkill
    /\ next_action' = "continue"
    /\ IF UsesAuthorityProvenance
       THEN \E attempt \in Attempt : JudgeAttempt(attempt)
       ELSE /\ StepUpdate("do", misreader_skill_fired, FALSE, FALSE, "none")
            /\ UNCHANGED <<authorityVars, misreader_skill_fired,
                           selected_skill_perspective>>
    /\ UNCHANGED <<scenario, classification, selected_skill_id, checkVars,
                   observation_outcome, explainVars, reportVars, axisVars,
                   completed, artifacts>>

(* The generated turn is taken to be the last of the history; the attempt  *)
(* is extracted again.                                                     *)
ContextForChecker(attempt) ==
    IF /\ scenario.selected_skill_id = AuthoritySkill
       /\ FirstAgentProposalTurn(Before(messages, Len(messages)), DefaultTarget)
             # NoTurn
    THEN DeriveCheckerContext(messages, attempt, Len(messages))
    ELSE NoCheckerContext

(* The first of the two check steps observes, the second compares.         *)
MaybeCheck ==
    /\ node = "maybe_check"
    /\ FollowEdge
    /\ IF scenario.selected_skill_id = NoSkill
       THEN /\ StepUpdate("check", misreader_skill_fired, FALSE, FALSE, substituted)
            /\ UNCHANGED checkVars
       ELSE \E observation \in Observations, attempt \in Attempt :
               /\ checker_observation' = observation
               /\ checker_context' = ContextForChecker(attempt)
               /\ StepUpdate("check", misreader_skill_fired, TRUE,
                             observation.bypass, observation.substituted)
    /\ UNCHANGED <<scenario, classification, skillVars, textVars, authorityVars,
                   observation_outcome, explainVars, reportVars, axisVars,
                   next_action, completed, artifacts>>

CompareChecker ==
    /\ node = "compare_checker"
    /\ FollowEdge
    /\ observation_outcome' =
          Compare("fixed_scenario", scenario.template, misreader_skill_fired,
                  checker_observation).observation_outcome
    /\ StepUpdate("check", misreader_skill_fired, checker_observation.ran,
                  checker_observation.bypass,
                  IF checker_observation.ran THEN checker_observation.substituted
                  ELSE substituted)
    /\ UNCHANGED <<scenario, classification, skillVars, textVars, authorityVars,
                   checkVars, explainVars, reportVars, axisVars, next_action,
                   completed, artifacts>>

-----------------------------------------------------------------------------
(* _should_explain_authority_history and the guard that follows it *)
ShouldExplain ==
    /\ authority_cause_record.drift_fired
    /\ IsLaundering(authority_cause_record.provenance)
    /\ checker_observation.ran

(* An answer fit to show, a provided answer that quotes the history and is *)
(* withheld, or an exception.                                              *)
ExplanationCalls == {"provided", "refused", "unavailable", "leaks", "raises"}

(* Variant: the candidate is kept although it quotes the history. *)
CandidateStatus(call) == IF call = "raises" THEN "unavailable" ELSE call

ExplanationStatus(call) ==
    IF call \in {"leaks", "raises"} THEN "unavailable" ELSE call

Explain ==
    /\ node = "explain"
    /\ FollowEdge
    /\ IF ShouldExplain
       THEN \E call \in ExplanationCalls :
               /\ self_explanation' = ExplanationStatus(call)
               /\ errors' = IF call \in {"leaks", "raises"}
                            THEN Append(errors, call) ELSE errors
               /\ StepUpdate("explain", misreader_skill_fired, TRUE,
                             checker_observation.bypass,
                             checker_observation.substituted)
       ELSE UNCHANGED <<explainVars, stepVars>>
    /\ UNCHANGED <<scenario, classification, skillVars, textVars, authorityVars,
                   checkVars, observation_outcome, reportVars, axisVars,
                   next_action, completed, artifacts>>

(* emit_trace: the reflection names any axis; without a trace template the *)
(* node raises.                                                            *)
AnalyzeTrace ==
    /\ node = "analyze_trace"
    /\ scenario.has_trace_template
    /\ FollowEdge
    /\ \E reflection \in Axes :
          trace' = [substituted |-> scenario.expected_substituted,
                    failure_mode |-> ExpectedFailure[scenario.expected_substituted],
                    reflection_substituted |-> reflection,
                    authority_provenance |-> authority_provenance,
                    self_explanation |-> self_explanation]
    /\ substituted' = trace'.substituted
    /\ failure_mode' = trace'.failure_mode
    /\ next_action' = "continue"
    /\ UNCHANGED <<scenario, classification, skillVars, textVars, authorityVars,
                   checkVars, observation_outcome, explainVars, state_trace,
                   boundary_flags, completed, stepVars, artifacts>>

(* render_boundary_state_trace: the flag is raised, and the run may go on, *)
(* only if the reflection recognised the scenario's axis.                  *)
RenderStateTrace ==
    /\ node = "render_state_trace"
    /\ FollowEdge
    /\ LET recognised == trace.reflection_substituted = scenario.expected_substituted
       IN  /\ boundary_flags' =
                 IF recognised
                 THEN {ExpectedFailure[scenario.expected_substituted]} ELSE {}
           /\ next_action' = IF recognised THEN "continue" ELSE "stop"
    /\ state_trace' = TRUE
    /\ UNCHANGED <<scenario, classification, skillVars, textVars, authorityVars,
                   checkVars, observation_outcome, explainVars, trace, axisVars,
                   completed, stepVars, artifacts>>

(* A node that loads a skill, asks a model, or needs a template that is    *)
(* not there.                                                              *)
NodeRaises ==
    /\ \/ /\ node = "trigger_skill"
          /\ scenario.selected_skill_id # NoSkill
          /\ ~UsesAuthorityProvenance
       \/ node = "generate_bad_response"
       \/ node = "maybe_check" /\ scenario.selected_skill_id # NoSkill
       \/ node = "analyze_trace"
    /\ Raises

-----------------------------------------------------------------------------
(* emitted_response_text raises on two responses; an in-scope run also     *)
(* needs its response, its trace and its state trace.                      *)
CanWrite ==
    /\ bad_response = NoTurn \/ safe_response = NoTurn
    /\ classification = "in_scope" =>
          bad_response # NoTurn /\ trace # NoTrace /\ state_trace

Files ==
    IF classification = "out_of_scope"
    THEN {"classification"} \cup (IF safe_response # NoTurn THEN {"response"} ELSE {})
    ELSE {"classification", "response", "trace", "state_trace"}
         \cup (IF checker_observation.ran THEN {"checker"} ELSE {})
         \cup (IF scenario.template # NoTemplate /\ observation_outcome # "none"
               THEN {"checker_comparison"} ELSE {})
         \cup (IF self_explanation # "none" THEN {"explanation"} ELSE {})

WriteArtifacts ==
    /\ node = "write_artifacts"
    /\ IF CanWrite
       THEN /\ FollowEdge
            /\ artifacts' = Files
            /\ next_action' = IF classification = "out_of_scope"
                              THEN "stop" ELSE "continue"
       ELSE node' = "failed" /\ UNCHANGED <<artifacts, next_action>>
    /\ UNCHANGED <<scenario, classification, skillVars, textVars, authorityVars,
                   checkVars, observation_outcome, explainVars, reportVars,
                   axisVars, completed, stepVars>>

Finalize ==
    /\ node = "finalize"
    /\ FollowEdge
    /\ completed' = TRUE
    /\ next_action' = "stop"
    /\ UNCHANGED <<scenario, classification, skillVars, textVars, authorityVars,
                   checkVars, observation_outcome, explainVars, reportVars,
                   axisVars, stepVars, artifacts>>

(* The graph has returned or raised. *)
FixedTerminated == node \in {"end", "failed"} /\ UNCHANGED fixedVars

FixedStep ==
    \/ LoadScenario \/ Classify \/ GenerateSafeResponse \/ TriggerSkill
    \/ GenerateBadResponse \/ MaybeCheck \/ CompareChecker \/ Explain
    \/ AnalyzeTrace \/ RenderStateTrace \/ NodeRaises \/ WriteArtifacts \/ Finalize

FixedNext == FixedStep \/ FixedTerminated

FixedSpec == FixedInit /\ [][FixedNext]_fixedVars

-----------------------------------------------------------------------------
(* Properties *)

FixedNodes == DOMAIN Edge \cup {"classify", "end", "failed"}

(* The type of the state of the fixed-scenario graph. *)
FixedTypeOK ==
    /\ scenario \in FixedScenarios
    /\ node \in FixedNodes
    /\ messages \in Seq(Message)
    /\ classification \in {"none", "in_scope", "out_of_scope"}
    /\ selected_skill_id \in DOMAIN SkillAxis \cup {NoSkill}
    /\ selected_skill_perspective \in BOOLEAN
    /\ misreader_skill_fired \in BOOLEAN
    /\ generation_used_skill \in BOOLEAN
    /\ {bad_response, safe_response} \subseteq {NoTurn} \cup DOMAIN messages
    /\ authority_provenance \in Provenance \cup {NoProvenance}
    /\ authority_cause_record \in CauseRecord
    /\ checker_observation \in Observation \cup {NoObservation}
    /\ checker_context \in CheckerContext \cup {NoCheckerContext}
    /\ observation_outcome \in Outcomes \cup {"none"}
    /\ self_explanation \in {"none", "provided", "refused", "unavailable"}
    /\ errors \in Seq({"leaks", "raises"})
    /\ trace \in [substituted : Substituted, failure_mode : FailureModes,
                  reflection_substituted : Substituted,
                  authority_provenance : Provenance \cup {NoProvenance},
                  self_explanation : {"none", "provided", "refused", "unavailable"}]
    /\ state_trace \in BOOLEAN
    /\ boundary_flags \subseteq FailureModes
    /\ substituted \in Substituted
    /\ failure_mode \in FailureModes
    /\ next_action \in {"continue", "stop"}
    /\ completed \in BOOLEAN
    /\ step_index = Len(step_traces)
    /\ artifacts \subseteq {"classification", "response", "trace", "state_trace",
                           "checker", "checker_comparison", "explanation"}

(* When the artifacts are written, everything they need is there: exactly  *)
(* one response if the run emitted one, and in scope a response, a trace   *)
(* and a state trace.  None of the accessors that raise (_bad_response,    *)
(* emitted_response_text, _trace, _state_trace) does.                      *)
WriterFindsItsInputs ==
    node \in {"write_artifacts", "finalize", "end"} =>
        /\ CanWrite
        /\ (bad_response # NoTurn \/ safe_response # NoTurn)
              <=> (scenario.expected_substituted # "none" \/ scenario.has_safe_response)
        /\ {bad_response, safe_response} \ {NoTurn} \subseteq {Len(messages)}

(* The written trace tells what happened: the explanation in it is the     *)
(* run's, its provenance is the one the drift was judged by, an            *)
(* explanation is on disk exactly if there is one, and there is one        *)
(* exactly if the drift fired by history and was checked.                  *)
PublishedTraceReportsTheRun ==
    node = "end" /\ classification = "in_scope" =>
        /\ trace.self_explanation = self_explanation
        /\ trace.authority_provenance = authority_provenance
        /\ authority_cause_record # NoCause =>
              trace.authority_provenance = authority_cause_record.provenance
        /\ "explanation" \in artifacts <=> self_explanation # "none"
        /\ self_explanation # "none" <=>
              authority_cause_record.drift_fired /\ checker_observation.ran
        /\ "checker" \in artifacts <=> scenario.selected_skill_id # NoSkill

(* A safe control run reports no drift of any kind, whatever its history   *)
(* would support.                                                          *)
SafeControlReportsNoDrift ==
    node = "end" /\ scenario.has_safe_response =>
        /\ ~misreader_skill_fired
        /\ authority_provenance = NoProvenance
        /\ authority_cause_record = NoCause
        /\ \A i \in DOMAIN step_traces :
              ~step_traces[i].misreader_skill_fired /\ ~step_traces[i].checker_ran
        /\ artifacts = {"classification", "response"}

(* The checker of an attempt that do recorded is told the turns that do    *)
(* decided by, although the generated turn is part of the history by then. *)
CheckerIsToldTheHistoryOfTheCause ==
    LET cause == authority_cause_record
    IN  /\ checker_context.target = DefaultTarget
        /\ cause.action_attempt = DefaultTarget
        => /\ checker_context.prior_agent_proposal_turn =
                  cause.provenance.prior_agent_proposal_turn
           /\ checker_context.principal_grant_turn =
                  cause.provenance.principal_grant_turn
           /\ checker_context.generated_action_attempt_turn =
                  cause.provenance.action_attempt_turn

-----------------------------------------------------------------------------
(* The cause side, seen through the graph: the skill of a scenario counts  *)
(* as fired with the response it produces, not when it is triggered.       *)

ScenarioPolicy ==
    CASE scenario.expected_substituted = "none" ->
            IF scenario.has_safe_response THEN "hold" ELSE "silent"
      [] scenario.expected_substituted # "none" /\ UsesAuthorityProvenance ->
            "by_history"
      [] scenario.expected_substituted # "none" /\ ~UsesAuthorityProvenance ->
            IF scenario.selected_skill_id # NoSkill THEN "fire" ELSE "hold"

ScenarioPhase ==
    CASE node = "load_scenario" -> "resting"
      [] node \in {"classify", "trigger_skill", "generate_bad_response",
                   "generate_safe_response"} -> "deciding"
      [] node \in {"end", "failed"} -> "over"
      [] OTHER -> "decided"

ScenarioCause == INSTANCE CauseSide WITH
                    policy <- ScenarioPolicy,
                    conversation <- messages,
                    phase <- ScenarioPhase,
                    fired <- misreader_skill_fired /\ bad_response # NoTurn

(* The fixed-scenario graph decides drift by the cause side alone, like    *)
(* the loop: its checker, its explanation and its reflection are stutters. *)
FixedImplementsCauseSide == ScenarioCause!CauseSideSpec
=============================================================================
