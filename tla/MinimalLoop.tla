----------------------------- MODULE MinimalLoop -----------------------------
(***************************************************************************)
(* The controlled loop plan -> do -> check -> explain of                   *)
(* minimal_loop_graph.py, started from a prompt contract (prompt_loop.py)  *)
(* or from a fixed scenario.  Each node of the graph is one super-step:    *)
(* its update is applied whole, or the node raises and the run ends with   *)
(* nothing of that node applied.                                           *)
(*                                                                         *)
(* The language model is the environment: what it generates, whether a     *)
(* text is read as an attempt, what the checker sees and what the agent    *)
(* explains are chosen freely, each time they are asked for.               *)
(***************************************************************************)
EXTENDS Integers, PromptContract

CONSTANTS
    InitialConversations,   \* the histories a run may start from
    FiringSignals,          \* the pressure signals a run may be given
    Scenarios,              \* the fixed scenarios a run may be given
    LoopSources,            \* which of the two entry points are exercised
    IterationLimits,        \* the max_iterations a caller may ask for
    Observations            \* what the checker may report of a text

ASSUME InitialConversationsAssumption ==
    InitialConversations \subseteq Seq(Message) \ {<<>>}

ASSUME FiringSignalsAssumption ==
    FiringSignals \subseteq [time : 0..NoTime, quota : [used : Nat, limit : Nat]]

ASSUME ScenariosAssumption ==
    Scenarios \subseteq [expected_substituted : Substituted,
                         selected_skill_id : DOMAIN SkillAxis \cup {NoSkill},
                         template : Template \cup {NoTemplate}]

ASSUME LoopSourcesAssumption ==
    LoopSources \subseteq {"fixed_scenario", "prompt_contract"}

(* The command line takes any integer, the host 1..3. *)
ASSUME IterationLimitsAssumption == IterationLimits \subseteq Int

ASSUME ObservationsAssumption == Observations \subseteq Observation

VARIABLES
    run,                        \* the inputs of the run, never changed
    node,                       \* the graph node to execute next
    messages,                   \* the conversation; do appends to it
    substituted, failure_mode,
    framework_specified, boundary_detected,
    misreader_skill_fired,      \* skill_triggered always has the same value
    firing_reason,
    selected_skill_perspective, \* has the skill text been loaded
    generation_used_skill,
    bad_response,               \* turn of the generated text, NoTurn for None
    authority_provenance,
    authority_cause_record,
    checker_observation,
    checker_context,            \* the history context the checker was given
    observation_outcome,        \* "none" before the first comparison
    checker_matches_expected,
    loop_iteration, loop_completed,
    self_explanation,
    errors,
    step_index, step_traces

causeVars == <<misreader_skill_fired, firing_reason, selected_skill_perspective,
               generation_used_skill, bad_response, messages,
               authority_provenance, authority_cause_record>>
axisVars == <<substituted, failure_mode>>
boundaryVars == <<framework_specified, boundary_detected>>
observationVars == <<checker_observation, checker_context, observation_outcome,
                     checker_matches_expected>>
progressVars == <<loop_iteration, loop_completed>>
explainVars == <<self_explanation, errors>>
traceVars == <<step_index, step_traces>>
vars == <<run, node, causeVars, axisVars, boundaryVars, observationVars,
          progressVars, explainVars, traceVars>>

-----------------------------------------------------------------------------
(* The inputs of a run. *)

(* Scenario.validate_failure_mode_mapping: a scenario outside the four     *)
(* axes has no template, and a skill and a template come together.         *)
ValidScenario(s) ==
    /\ s.expected_substituted = "none" => s.template = NoTemplate
    /\ s.selected_skill_id = NoSkill <=> s.template = NoTemplate

(* A run is a Scenario plus the fields that only a prompt contract sets.   *)
RunInputs ==
    [loop_source : LoopSources,
     prompt_contract_status : Statuses \cup {"none"},
     expected_substituted : Substituted,
     selected_skill_id : DOMAIN SkillAxis \cup {NoSkill},
     template : Template \cup {NoTemplate},
     misreader_firing_decision : Decisions,
     firing_signals : FiringSignals \cup {[time |-> NoTime, quota |-> NoQuota]},
     max_iterations : IterationLimits,
     initial_turns : Nat \ {0}]

(* initial_loop_state_from_scenario *)
RunFromScenario(s, max, turns) ==
    [loop_source |-> "fixed_scenario",
     prompt_contract_status |-> "none",
     expected_substituted |-> s.expected_substituted,
     selected_skill_id |-> s.selected_skill_id,
     template |-> s.template,
     misreader_firing_decision |-> "unset",
     firing_signals |-> [time |-> NoTime, quota |-> NoQuota],
     max_iterations |-> max,
     initial_turns |-> turns]

(* _scenario_from_prompt_contract: an unsupported contract becomes a       *)
(* scenario outside the four axes, and a template, which expects no        *)
(* bypass, exists exactly when a skill was selected.                       *)
RunFromContract(c, decision, signals, max, turns) ==
    [loop_source |-> "prompt_contract",
     prompt_contract_status |-> c.status,
     expected_substituted |->
        IF IsSupported(c) /\ c.substitution_axis # NoAxis
        THEN c.substitution_axis ELSE "none",
     selected_skill_id |-> c.selected_skill_id,
     template |-> IF c.selected_skill_id # NoSkill
                  THEN [bypass |-> FALSE, substituted |-> "none"] ELSE NoTemplate,
     misreader_firing_decision |-> decision,
     firing_signals |-> signals,
     max_iterations |-> max,
     initial_turns |-> turns]

InitFixed ==
    /\ "fixed_scenario" \in LoopSources
    /\ \E s \in Scenarios, max \in IterationLimits :
          /\ ValidScenario(s)
          /\ run = RunFromScenario(s, max, Len(messages))
    /\ framework_specified = FALSE
    /\ boundary_detected =
          (DeriveProvenance(messages, DefaultTarget) # NoProvenance)

(* initial_loop_state_from_prompt_contract *)
InitPrompt ==
    /\ "prompt_contract" \in LoopSources
    /\ \E c \in DetectedContracts(DeriveProvenance(messages, DefaultTarget)),
          decision \in Decisions, signals \in FiringSignals,
          max \in IterationLimits :
          /\ run = RunFromContract(c, decision, signals, max, Len(messages))
          /\ framework_specified = c.framework_specified
          /\ boundary_detected = c.boundary_detected

Init ==
    /\ messages \in InitialConversations
    /\ InitFixed \/ InitPrompt
    /\ node = "plan"
    /\ substituted = run.expected_substituted
    /\ failure_mode = ExpectedFailure[run.expected_substituted]
    /\ misreader_skill_fired = FALSE
    /\ firing_reason = "none"
    /\ selected_skill_perspective = FALSE
    /\ generation_used_skill = FALSE
    /\ bad_response = NoTurn
    /\ authority_provenance = DeriveProvenance(messages, DefaultTarget)
    /\ authority_cause_record = NoCause
    /\ checker_observation = NoObservation
    /\ checker_context = NoCheckerContext
    /\ observation_outcome = "none"
    /\ checker_matches_expected = FALSE
    /\ loop_iteration = 0
    /\ loop_completed = FALSE
    /\ self_explanation = "none"
    /\ errors = <<>>
    /\ step_index = 0
    /\ step_traces = <<>>

-----------------------------------------------------------------------------
(* Predicates of the nodes. *)

InScope == run.expected_substituted # "none"    \* classify_scenario

(* _uses_authority_provenance *)
UsesAuthorityProvenance ==
    /\ authority_provenance # NoProvenance
    /\ run.selected_skill_id = AuthoritySkill

(* _is_supported_prompt_contract *)
SupportedPromptContract ==
    /\ run.loop_source = "prompt_contract"
    /\ run.prompt_contract_status = "contract_detected"
    /\ run.selected_skill_id # NoSkill

PromptFiring ==
    EvaluatePromptFiring(boundary_detected, run.selected_skill_id,
                         run.misreader_firing_decision, run.firing_signals)

(* Variant: the cause waits for the observer. *)
ShouldFireOnceObserved ==
    PromptFiring.should_fire /\ checker_observation.ran

(* should_fire, once the authority path is excluded *)
ShouldFire ==
    IF run.loop_source = "prompt_contract"
    THEN PromptFiring.should_fire
    ELSE FixedScenarioFires(framework_specified, run.selected_skill_id,
                            run.misreader_firing_decision)

(* _step_substituted: a step trace names an axis or nothing. *)
StepSubstituted(s) == IF s \in Axes THEN s ELSE "none"

(* Variant: the index counts iterations, not steps. *)
StepUpdateByIteration(kind, fired, ran, bypass, axis) ==
    /\ step_traces' = Append(step_traces,
          [step_index |-> loop_iteration, step_kind |-> kind,
           misreader_skill_fired |-> fired, checker_ran |-> ran,
           checker_observed_bypass |-> bypass,
           substituted |-> StepSubstituted(axis)])
    /\ step_index' = step_index + 1

StepUpdate(kind, fired, ran, bypass, axis) ==
    /\ step_traces' = Append(step_traces,
          [step_index |-> step_index, step_kind |-> kind,
           misreader_skill_fired |-> fired, checker_ran |-> ran,
           checker_observed_bypass |-> bypass,
           substituted |-> StepSubstituted(axis)])
    /\ step_index' = step_index + 1

(* A node that raises: the run ends, none of its updates is applied.       *)
Raises == node' = "failed" /\ UNCHANGED <<run, causeVars, axisVars,
    boundaryVars, observationVars, progressVars, explainVars, traceVars>>

-----------------------------------------------------------------------------
(* plan *)

Plan ==
    /\ node = "plan"
    /\ node' = "do"
    /\ substituted' = run.expected_substituted
    /\ framework_specified' =
          (framework_specified \/ run.selected_skill_id = FrameworkSkill)
    /\ boundary_detected' =
          (boundary_detected \/
             (run.loop_source = "fixed_scenario" /\ framework_specified'))
    /\ misreader_skill_fired' = FALSE
    /\ self_explanation' = "none"
    /\ StepUpdate("plan", FALSE, FALSE, FALSE, "none")
    /\ UNCHANGED <<run, messages, failure_mode, firing_reason,
                   selected_skill_perspective, generation_used_skill,
                   bad_response, authority_provenance, authority_cause_record,
                   observationVars, progressVars, errors>>

-----------------------------------------------------------------------------
(* do *)

(* The firing evaluation is recorded by every branch of do; a fixed        *)
(* scenario has none and keeps firing_reason.                              *)
RecordFiringReason ==
    firing_reason' = IF run.loop_source = "prompt_contract"
                     THEN PromptFiring.reason ELSE firing_reason

(* append_assistant_message: the generated text becomes an agent turn, and *)
(* bad_response is that text.                                              *)
Generate(content) ==
    /\ messages' = Append(messages, [speaker |-> "agent", content |-> content])
    /\ bad_response' = Len(messages) + 1

DoOutOfScope ==
    /\ node = "do"
    /\ ~InScope
    /\ node' = "check"
    /\ RecordFiringReason
    /\ misreader_skill_fired' = FALSE
    /\ generation_used_skill' = FALSE
    /\ bad_response' = NoTurn
    /\ StepUpdate("do", FALSE, FALSE, FALSE, run.expected_substituted)
    /\ UNCHANGED <<run, messages, selected_skill_perspective, axisVars,
                   authority_provenance, authority_cause_record, boundaryVars,
                   observationVars, progressVars, explainVars>>

(* _do_authority_provenance_step: the text comes first and fires only if   *)
(* it attempts what the history before it proposed but never granted.      *)
DoAuthority ==
    /\ node = "do"
    /\ InScope
    /\ UsesAuthorityProvenance
    /\ node' = "check"
    /\ RecordFiringReason
    /\ \E content \in Contents, attempt \in Attempt :
          LET turn == IF attempt = NoTarget THEN NoTurn ELSE Len(messages) + 1
              provenance == EvaluateAttempt(
                  DeriveProvenance(messages, DefaultTarget), attempt, turn)
              fired == IsLaundering(provenance)
              axis == IF fired THEN run.expected_substituted ELSE "none"
          IN  /\ Generate(content)
              /\ authority_provenance' = provenance
              /\ authority_cause_record' = [provenance |-> provenance,
                                            action_attempt |-> attempt,
                                            drift_fired |-> fired]
              /\ misreader_skill_fired' = fired
              /\ selected_skill_perspective' = (selected_skill_perspective \/ fired)
              /\ substituted' = axis
              /\ failure_mode' = ExpectedFailure[axis]
              /\ StepUpdate("do", fired, FALSE, FALSE, axis)
    /\ generation_used_skill' = FALSE
    /\ UNCHANGED <<run, boundaryVars, observationVars, progressVars, explainVars>>

(* The misreader fires: the text is generated with the skill perspective.  *)
(* substituted and failure_mode are left as plan and the scenario set them. *)
DoMisreaderFires ==
    /\ node = "do"
    /\ InScope
    /\ ~UsesAuthorityProvenance
    /\ ShouldFire
    /\ node' = "check"
    /\ RecordFiringReason
    /\ \E content \in Contents : Generate(content)
    /\ misreader_skill_fired' = TRUE
    /\ selected_skill_perspective' = TRUE
    /\ generation_used_skill' = TRUE
    /\ StepUpdate("do", TRUE, FALSE, FALSE, run.expected_substituted)
    /\ UNCHANGED <<run, axisVars, authority_provenance, authority_cause_record,
                   boundaryVars, observationVars, progressVars, explainVars>>

(* The misreader does not fire: a supported prompt contract is preserved,  *)
(* a fixed scenario still generates its own (bad) response.                *)
DoMisreaderDoesNotFire ==
    /\ node = "do"
    /\ InScope
    /\ ~UsesAuthorityProvenance
    /\ ~ShouldFire
    /\ node' = "check"
    /\ RecordFiringReason
    /\ \E content \in Contents : Generate(content)
    /\ misreader_skill_fired' = FALSE
    /\ generation_used_skill' = FALSE
    /\ LET axis == IF SupportedPromptContract
                   THEN "none" ELSE run.expected_substituted
       IN  /\ substituted' = axis
           /\ failure_mode' = ExpectedFailure[axis]
           /\ StepUpdate("do", FALSE, FALSE, FALSE, axis)
    /\ UNCHANGED <<run, selected_skill_perspective, authority_provenance,
                   authority_cause_record, boundaryVars, observationVars,
                   progressVars, explainVars>>

(* Generation, extraction or loading the skill text fails. *)
DoRaises ==
    /\ node = "do"
    /\ InScope
    /\ Raises

-----------------------------------------------------------------------------
(* check *)

(* Variant: only what fired is checked. *)
CheckerRunsIfFired == misreader_skill_fired /\ bad_response # NoTurn

CheckerRuns == run.selected_skill_id # NoSkill /\ bad_response # NoTurn

(* The context is built only for the authority skill and only when the     *)
(* turns before the generated one, taken to be the last of the history,    *)
(* hold an agent proposal.  The attempt is extracted again.                *)
ContextForChecker(attempt) ==
    LET generated_turn == Len(messages)
        bounded == Before(messages, generated_turn)
    IN  IF /\ run.selected_skill_id = AuthoritySkill
           /\ FirstAgentProposalTurn(bounded, DefaultTarget) # NoTurn
        THEN DeriveCheckerContext(messages, attempt, generated_turn)
        ELSE NoCheckerContext

Check(observation, context) ==
    LET comparison == Compare(run.loop_source, run.template,
                              misreader_skill_fired, observation)
        iteration == loop_iteration + 1
    IN  /\ node' = "explain"
        /\ checker_observation' = observation
        /\ checker_context' = context
        /\ observation_outcome' = comparison.observation_outcome
        /\ checker_matches_expected' = comparison.matches_expected
        /\ loop_iteration' = iteration
        /\ loop_completed' = (iteration >= run.max_iterations)
        /\ StepUpdate("check", misreader_skill_fired, observation.ran,
                      observation.bypass,
                      IF observation.ran THEN observation.substituted
                      ELSE substituted)
        /\ UNCHANGED <<run, causeVars, axisVars, boundaryVars, explainVars>>

CheckObserves ==
    /\ node = "check"
    /\ CheckerRuns
    /\ \E observation \in Observations, attempt \in Attempt :
          Check(observation, ContextForChecker(attempt))

CheckSkipped ==
    /\ node = "check"
    /\ ~CheckerRuns
    /\ Check(NoObservation, NoCheckerContext)

CheckRaises ==
    /\ node = "check"
    /\ CheckerRuns
    /\ Raises

-----------------------------------------------------------------------------
(* explain *)

(* Variant: every evaluated attempt is explained, fired or not. *)
ShouldExplainAnyAttempt ==
    /\ authority_cause_record # NoCause
    /\ checker_observation.ran

(* _should_explain_authority_history and the guard that follows it *)
ShouldExplain ==
    /\ authority_cause_record.drift_fired
    /\ IsLaundering(authority_cause_record.provenance)
    /\ checker_observation.ran
    /\ bad_response # NoTurn

(* Variant: one iteration too many. *)
RouteAfterLimit ==
    IF loop_iteration > run.max_iterations THEN "end" ELSE "plan"

(* _route_after_check *)
RouteAfterCheck ==
    IF loop_completed \/ loop_iteration >= run.max_iterations
    THEN "end" ELSE "plan"

(* What asking for a self explanation can end in: an answer fit to show,   *)
(* a provided answer that quotes the history (public_safe_self_explanation *)
(* withholds it), or an exception.                                         *)
ExplanationCalls == {"provided", "refused", "unavailable", "leaks", "raises"}

(* Variant: the candidate is kept although it quotes the history. *)
CandidateStatus(call) == IF call = "raises" THEN "unavailable" ELSE call

ExplanationStatus(call) ==
    IF call \in {"leaks", "raises"} THEN "unavailable" ELSE call

Explain ==
    /\ node = "explain"
    /\ ShouldExplain
    /\ node' = RouteAfterCheck
    /\ \E call \in ExplanationCalls :
          /\ self_explanation' = ExplanationStatus(call)
          /\ errors' = IF call \in {"leaks", "raises"}
                       THEN Append(errors, call) ELSE errors
    /\ StepUpdate("explain", misreader_skill_fired, checker_observation.ran,
                  checker_observation.bypass, checker_observation.substituted)
    /\ UNCHANGED <<run, causeVars, axisVars, boundaryVars, observationVars,
                   progressVars>>

ExplainSkipped ==
    /\ node = "explain"
    /\ ~ShouldExplain
    /\ node' = RouteAfterCheck
    /\ UNCHANGED <<run, causeVars, axisVars, boundaryVars, observationVars,
                   progressVars, explainVars, traceVars>>

(* The graph has returned or raised. *)
Terminated ==
    /\ node \in {"end", "failed"}
    /\ UNCHANGED vars

-----------------------------------------------------------------------------
Do == \/ DoOutOfScope
      \/ DoAuthority
      \/ DoMisreaderFires
      \/ DoMisreaderDoesNotFire
      \/ DoRaises

Next == \/ Plan
        \/ Do
        \/ CheckObserves \/ CheckSkipped \/ CheckRaises
        \/ Explain \/ ExplainSkipped
        \/ Terminated

Spec == Init /\ [][Next]_vars

(* invoke() runs the nodes one after the other until the graph ends.       *)
FairSpec == Spec /\ WF_vars(Next)

-----------------------------------------------------------------------------
(* Properties *)

StepTrace ==
    [step_index : Nat, step_kind : {"plan", "do", "check", "explain"},
     misreader_skill_fired : BOOLEAN, checker_ran : BOOLEAN,
     checker_observed_bypass : BOOLEAN, substituted : Substituted]

AnyProvenance == Provenance \cup {NoProvenance}

(* The type of the loop's state.  In particular the explanation that is    *)
(* kept is one of the three public statuses: an answer that quotes the     *)
(* history never becomes the state's self_explanation.                     *)
TypeOK ==
    /\ run \in RunInputs
    /\ node \in {"plan", "do", "check", "explain", "end", "failed"}
    /\ messages \in Seq(Message)
    /\ substituted \in Substituted
    /\ failure_mode \in FailureModes
    /\ framework_specified \in BOOLEAN
    /\ boundary_detected \in BOOLEAN
    /\ misreader_skill_fired \in BOOLEAN
    /\ firing_reason \in Reasons
    /\ selected_skill_perspective \in BOOLEAN
    /\ generation_used_skill \in BOOLEAN
    /\ bad_response \in Nat
    /\ authority_provenance \in AnyProvenance
    /\ authority_cause_record \in [provenance : AnyProvenance,
                                   action_attempt : Attempt, drift_fired : BOOLEAN]
    /\ checker_observation \in Observation \cup {NoObservation}
    /\ checker_context \in CheckerContext \cup {NoCheckerContext}
    /\ observation_outcome \in Outcomes \cup {"none"}
    /\ checker_matches_expected \in BOOLEAN
    /\ loop_iteration \in Nat
    /\ loop_completed \in BOOLEAN
    /\ self_explanation \in {"none", "provided", "refused", "unavailable"}
    /\ errors \in Seq({"leaks", "raises"})
    /\ step_index \in Nat
    /\ step_traces \in Seq(StepTrace)

(* A drift recorded as laundering is grounded in the conversation: an      *)
(* agent turn strictly before the attempt proposed the very target that    *)
(* was attempted, and no principal turn, before or since, granted it.      *)
LaunderingIsGrounded ==
    LET cause == authority_cause_record
        p == cause.provenance
    IN  cause.drift_fired =>
            /\ p.prior_agent_proposal_turn \in
                   ProposalTurns(messages, cause.action_attempt)
            /\ p.prior_agent_proposal_turn < p.action_attempt_turn
            /\ p.action_attempt_turn \in DOMAIN messages
            /\ GrantTurns(messages, cause.action_attempt) = {}

(* An action counts as authorized only if a principal granted its target   *)
(* in the conversation the run started from: nothing the agent says during *)
(* the run, grant-shaped or not, becomes a grant.                          *)
AgentCannotAuthorizeItself ==
    authority_provenance.result = "authorized" =>
        \E i \in 1..run.initial_turns :
            /\ messages[i].speaker = "principal"
            /\ authority_provenance.target \in messages[i].content.grants

(* Later iterations never move the proposal of record: once an agent turn  *)
(* is the prior proposal for a target, the proposals the loop itself       *)
(* generates afterwards do not replace it.                                 *)
ProposalOfRecordIsStable ==
    [][/\ authority_provenance.prior_agent_proposal_turn # NoTurn
       /\ authority_provenance'.prior_agent_proposal_turn # NoTurn
       => authority_provenance'.prior_agent_proposal_turn =
             authority_provenance.prior_agent_proposal_turn]_vars

(* Whether a run decides by authority provenance is settled by the history *)
(* it starts from; no evaluation of an attempt switches a later iteration  *)
(* to the skill-firing policy or back.                                     *)
AuthorityPathIsStable ==
    [][UsesAuthorityProvenance' <=> UsesAuthorityProvenance]_vars

(* A self explanation is about the current text: it is set only when this  *)
(* iteration's do fired and this iteration's check ran, and a new plan     *)
(* discards it before anything else is generated.                          *)
ExplanationIsFresh ==
    self_explanation # "none" =>
        /\ node \in {"plan", "end"}
        /\ misreader_skill_fired
        /\ authority_cause_record.drift_fired
        /\ authority_cause_record.provenance = authority_provenance
        /\ authority_provenance.action_attempt_turn = Len(messages)
        /\ checker_observation.ran

(* When the checker is told about the history of the attempt that do       *)
(* recorded, it is told the same turns do decided by, although it reads a  *)
(* longer history and reads it again.                                      *)
CheckerSeesTheHistoryOfTheCause ==
    LET cause == authority_cause_record
    IN  /\ node \in {"explain", "end"}
        /\ checker_context.target = DefaultTarget
        /\ cause.action_attempt = DefaultTarget
        => /\ checker_context.prior_agent_proposal_turn =
                  cause.provenance.prior_agent_proposal_turn
           /\ checker_context.principal_grant_turn =
                  cause.provenance.principal_grant_turn
           /\ checker_context.generated_action_attempt_turn =
                  cause.provenance.action_attempt_turn

(* An applicable prompt contract is observed in every iteration, fired or  *)
(* not, and any other prompt never is: the outcome is not_applicable       *)
(* exactly when no applicable contract exists (docs/design.md, "Applicable *)
(* prompt contracts are checked whether fired or not").                    *)
ApplicableContractsAreObserved ==
    /\ run.loop_source = "prompt_contract"
    /\ node \in {"explain", "end"}
    => /\ checker_observation.ran <=> SupportedPromptContract
       /\ observation_outcome = "not_applicable" <=> ~SupportedPromptContract

(* On a prompt-derived loop the outcome tells cause and observation apart: *)
(* its expected side is the cause-side event of the same iteration.  An    *)
(* observed happy path in particular means that nothing fired.  And in any *)
(* loop the failure mode is the one of the axis the state reports, from do *)
(* to the end of the iteration: plan resets only the axis, and on the      *)
(* authority path an iteration that holds may come before one that fires.  *)
OutcomeFollowsTheCause ==
    /\ /\ run.loop_source = "prompt_contract"
       /\ node \in {"explain", "end"}
       => /\ observation_outcome \in
                 {"observation_succeeded", "checker_missed_boundary_event"}
              => misreader_skill_fired
          /\ observation_outcome = "matched_no_boundary_event" =>
                /\ ~misreader_skill_fired
                /\ checker_observation.ran /\ ~checker_observation.bypass
                /\ checker_matches_expected
                /\ substituted = "none"
    /\ node \in {"check", "explain", "end"} =>
          failure_mode = ExpectedFailure[substituted]

(* The step traces are the run's sequence of nodes: contiguous indexes, a  *)
(* plan first, each kind followed only by the kinds the graph allows, an   *)
(* explain only after a do that fired and a check that ran.                *)
StepTracesFollowTheGraph ==
    LET Kind(i) == step_traces[i].step_kind
    IN  /\ step_index = Len(step_traces)
        /\ \A i \in DOMAIN step_traces :
              /\ step_traces[i].step_index = i - 1
              /\ i = 1 => Kind(i) = "plan"
              /\ i > 1 => <<Kind(i - 1), Kind(i)>> \in
                    {<<"plan", "do">>, <<"do", "check">>, <<"check", "explain">>,
                     <<"check", "plan">>, <<"explain", "plan">>}
              /\ Kind(i) = "explain" =>
                    /\ i > 2
                    /\ step_traces[i - 1].checker_ran
                    /\ step_traces[i - 2].misreader_skill_fired

(* The loop stops by itself after exactly the iterations asked for (one,   *)
(* if fewer were asked for), unless a node raised.                         *)
CompletesItsIterations ==
    <>\/ node = "failed"
      \/ /\ node = "end"
         /\ loop_completed
         /\ loop_iteration = (IF run.max_iterations < 1 THEN 1
                              ELSE run.max_iterations)

-----------------------------------------------------------------------------
(* The cause side, seen through the loop.  The policy of a run is read off *)
(* its inputs and its initial history.                                     *)

RunPolicy ==
    CASE ~InScope -> "silent"
      [] InScope /\ UsesAuthorityProvenance -> "by_history"
      [] InScope /\ ~UsesAuthorityProvenance ->
            IF \/ /\ run.loop_source = "prompt_contract"
                  /\ PromptFiring.should_fire
               \/ /\ run.loop_source = "fixed_scenario"
                  /\ run.selected_skill_id = FrameworkSkill
            THEN "fire" ELSE "hold"

Phase ==
    [plan |-> "resting", do |-> "deciding", check |-> "decided",
     explain |-> "decided", end |-> "over", failed |-> "over"][node]

Cause == INSTANCE CauseSide WITH
            policy <- RunPolicy,
            conversation <- messages,
            phase <- Phase,
            fired <- misreader_skill_fired

(* Checking and explaining are stutters of the cause side, and every other *)
(* step is a step of it: what fires and what is said never depends on what *)
(* the checker observed or the agent explained.                            *)
ImplementsCauseSide == Cause!CauseSideSpec
=============================================================================
