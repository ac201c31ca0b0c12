---------------------- MODULE FixedScenarioGraphProofs ----------------------
(***************************************************************************)
(* The one-pass graph of a fixed scenario and its event stream: type       *)
(* correctness, what the artifact writer finds, what the written trace     *)
(* says, the safe control run, the refinement of CauseSide, and what a     *)
(* client is shown, for every catalog, scenario, history and answer of the *)
(* models.                                                                 *)
(***************************************************************************)
EXTENDS FixedStream, PromptContractProofs

-----------------------------------------------------------------------------
(* The graph: its inductive invariant, part by part. *)

(* The nodes, by how far they are from the response. *)
DecidingNodes == {"load_scenario", "classify", "trigger_skill",
                  "generate_bad_response", "generate_safe_response"}
ObservingNodes == {"maybe_check", "compare_checker", "explain",
                   "analyze_trace", "render_state_trace"}
WritingNodes == {"write_artifacts", "finalize", "end"}

InScope == scenario.expected_substituted # "none"

FixedStepTrace ==
    [step_index : Nat,
     step_kind : {"plan", "do", "check", "explain"},
     misreader_skill_fired : BOOLEAN, checker_ran : BOOLEAN,
     checker_observed_bypass : BOOLEAN, substituted : Substituted]

FixedTyped ==
    /\ FixedTypeOK
    /\ LoadableScenario(scenario)
    /\ messages # <<>>
    /\ step_traces \in Seq(FixedStepTrace)

(* The route is the one of the scenario's classification. *)
RouteOfTheScenario ==
    /\ node \in {"load_scenario", "classify"} => classification = "none"
    /\ node \notin {"load_scenario", "classify", "failed"} =>
          classification = ClassificationOf(scenario)
    /\ node \in {"trigger_skill", "generate_bad_response"} \cup ObservingNodes =>
          InScope
    /\ node = "generate_safe_response" => scenario.has_safe_response

(* The response a run emits is the last turn of its conversation. *)
ResponseIsTheLastTurn ==
    /\ node \in DecidingNodes => bad_response = NoTurn /\ safe_response = NoTurn
    /\ node \in ObservingNodes => bad_response = Len(messages) /\ safe_response = NoTurn
    /\ node \in WritingNodes =>
          /\ bad_response = IF InScope THEN Len(messages) ELSE NoTurn
          /\ safe_response = IF scenario.has_safe_response THEN Len(messages)
                             ELSE NoTurn

(* Nothing drifts outside the scope. *)
NoDriftOutsideTheScope ==
    ~InScope =>
        /\ ~misreader_skill_fired
        /\ authority_cause_record = NoCause
        /\ checker_observation = NoObservation
        /\ self_explanation = "none"
        /\ node \in WritingNodes /\ scenario.has_safe_response =>
              authority_provenance = NoProvenance
        /\ \A i \in DOMAIN step_traces :
              ~step_traces[i].misreader_skill_fired /\ ~step_traces[i].checker_ran

(* A scenario's skill counts until its history decides. *)
SkillOfTheScenario ==
    InScope =>
        /\ selected_skill_id = scenario.selected_skill_id
        /\ node = "generate_bad_response" =>
              (misreader_skill_fired <=>
                  scenario.selected_skill_id # NoSkill /\ ~UsesAuthorityProvenance)

(* A cause is recorded with the response, for the turns before it. *)
CauseOfTheResponse ==
    LET cause == authority_cause_record
        earlier == Before(messages, Len(messages))
    IN  /\ node \in DecidingNodes => cause = NoCause
        /\ cause # NoCause => cause.provenance = authority_provenance
        /\ cause.drift_fired <=> IsLaundering(cause.provenance)
        /\ cause.action_attempt = DefaultTarget =>
              /\ cause.provenance.prior_agent_proposal_turn =
                    FirstAgentProposalTurn(earlier, DefaultTarget)
              /\ cause.provenance.principal_grant_turn =
                    FirstPrincipalGrantTurn(earlier, DefaultTarget)
              /\ cause.provenance.action_attempt_turn = Len(messages)

(* The checker runs once, for a scenario that has a skill. *)
CheckOfTheResponse ==
    LET earlier == Before(messages, Len(messages))
    IN  /\ node \in DecidingNodes \cup {"maybe_check"} =>
              /\ checker_observation = NoObservation
              /\ checker_context = NoCheckerContext
        /\ InScope /\ node \in (ObservingNodes \ {"maybe_check"}) \cup WritingNodes =>
              (checker_observation.ran <=> scenario.selected_skill_id # NoSkill)
        /\ checker_context.target = DefaultTarget =>
              /\ checker_context.prior_agent_proposal_turn =
                    FirstAgentProposalTurn(earlier, DefaultTarget)
              /\ checker_context.principal_grant_turn =
                    FirstPrincipalGrantTurn(earlier, DefaultTarget)
              /\ checker_context.generated_action_attempt_turn = Len(messages)

(* The explanation is asked for once, and the trace reports it. *)
ReportOfTheRun ==
    /\ node \in DecidingNodes \cup {"maybe_check", "compare_checker", "explain"} =>
          self_explanation = "none"
    /\ node \in {"analyze_trace", "render_state_trace"} \cup WritingNodes =>
          (self_explanation # "none" <=>
              authority_cause_record.drift_fired /\ checker_observation.ran)
    /\ InScope /\ node \in {"render_state_trace"} \cup WritingNodes =>
          /\ trace.substituted = scenario.expected_substituted
          /\ trace.self_explanation = self_explanation
          /\ trace.authority_provenance = authority_provenance
    /\ InScope /\ node \in WritingNodes => state_trace = TRUE
    /\ node \in {"finalize", "end"} => artifacts = Files

FixedInv ==
    /\ FixedTyped
    /\ RouteOfTheScenario
    /\ ResponseIsTheLastTurn
    /\ NoDriftOutsideTheScope
    /\ SkillOfTheScenario
    /\ CauseOfTheResponse
    /\ CheckOfTheResponse
    /\ ReportOfTheRun
-----------------------------------------------------------------------------
(* Type correctness. *)

(* The generated turn is the last of the conversation.                     *)
LEMMA RespondType ==
    ASSUME messages \in Seq(Message), NEW content \in Contents, Respond(content)
    PROVE  /\ messages' \in Seq(Message)
           /\ messages' # <<>>
           /\ Len(messages) \in Nat
           /\ Len(messages') = Len(messages) + 1
           /\ DOMAIN messages' = 1..(Len(messages) + 1)
           /\ Before(messages', Len(messages')) = messages
  <1> DEFINE m == [speaker |-> "agent", content |-> content]
  <1>1. m \in Message
    BY DEF Message, Speakers
  <1>2. messages' = Append(messages, m)
    BY DEF Respond
  <1> HIDE DEF m
  <1>3. Before(messages', Len(messages')) = messages
    BY <1>1, <1>2, BeforeTheAppended
  <1> QED
    BY <1>1, <1>2, <1>3

(* A step trace is appended and counted. *)
LEMMA FixedStepUpdateType ==
    ASSUME step_traces \in Seq(FixedStepTrace), step_index = Len(step_traces),
           NEW kind \in {"plan", "do", "check", "explain"},
           NEW fired \in BOOLEAN, NEW ran \in BOOLEAN, NEW bypass \in BOOLEAN,
           NEW axis, StepUpdate(kind, fired, ran, bypass, axis)
    PROVE  /\ step_traces' \in Seq(FixedStepTrace)
           /\ step_index' = Len(step_traces')
           /\ Len(step_traces) \in Nat
           /\ DOMAIN step_traces' = 1..(Len(step_traces) + 1)
           /\ \A i \in DOMAIN step_traces : step_traces'[i] = step_traces[i]
           /\ step_traces'[Len(step_traces) + 1].misreader_skill_fired = fired
           /\ step_traces'[Len(step_traces) + 1].checker_ran = ran
  <1>1. (IF axis \in Axes THEN axis ELSE "none") \in Substituted
    BY DeclaredAxes
  <1> DEFINE t == [step_index |-> step_index, step_kind |-> kind,
                   misreader_skill_fired |-> fired, checker_ran |-> ran,
                   checker_observed_bypass |-> bypass,
                   substituted |-> IF axis \in Axes THEN axis ELSE "none"]
  <1>2. /\ t \in FixedStepTrace
        /\ t.misreader_skill_fired = fired
        /\ t.checker_ran = ran
    BY <1>1 DEF FixedStepTrace
  <1>3. step_traces' = Append(step_traces, t) /\ step_index' = step_index + 1
    BY DEF StepUpdate
  <1> HIDE DEF t
  <1> QED
    BY <1>2, <1>3

(* A loadable scenario has an axis, and its axis a failure mode.           *)
LEMMA ScenarioType ==
    ASSUME scenario \in FixedScenarios
    PROVE  /\ scenario.expected_substituted \in Substituted
           /\ ExpectedFailure[scenario.expected_substituted] \in FailureModes
           /\ scenario.selected_skill_id \in DOMAIN SkillAxis \cup {NoSkill}
           /\ scenario.has_safe_response \in BOOLEAN
  BY FixedScenariosAssumption, DeclaredAxes

(* The typing holds when the graph is invoked.                             *)
LEMMA FixedInitTyped == FixedInit => FixedTyped
  <1> SUFFICES ASSUME FixedInit
               PROVE  FixedTyped
    OBVIOUS
  <1>1. /\ messages \in Seq(Message) /\ messages # <<>>
        /\ scenario \in FixedScenarios /\ LoadableScenario(scenario)
    BY FixedConversationsAssumption DEF FixedInit
  <1>2. /\ scenario.expected_substituted \in Substituted
        /\ ExpectedFailure[scenario.expected_substituted] \in FailureModes
        /\ scenario.selected_skill_id \in DOMAIN SkillAxis \cup {NoSkill}
    BY <1>1, ScenarioType
  <1>3. authority_provenance \in Provenance \cup {NoProvenance}
    BY <1>1, DeriveProvenanceProperties, TargetsAssumption DEF FixedInit
  <1>4. authority_cause_record \in CauseRecord
    BY DEF FixedInit, NoCause, CauseRecord, Attempt
  <1>5. trace \in [substituted : Substituted, failure_mode : FailureModes,
                   reflection_substituted : Substituted,
                   authority_provenance : Provenance \cup {NoProvenance},
                   self_explanation : {"none", "provided", "refused", "unavailable"}]
    BY DeclaredAxes DEF FixedInit, NoTrace, FailureModes, ExpectedFailure, Substituted
  <1>6. /\ step_traces \in Seq(FixedStepTrace) /\ step_index = Len(step_traces)
        /\ errors \in Seq({"leaks", "raises"})
    BY DEF FixedInit
  <1>7. node \in FixedNodes
    BY DEF FixedInit, FixedNodes, Edge
  <1> QED
    BY <1>1, <1>2, <1>3, <1>4, <1>5, <1>6, <1>7
       DEF FixedInit, FixedTyped, FixedTypeOK

(* A node that raises changes nothing but the node to execute.             *)
LEMMA RaisesTyped ==
    ASSUME FixedTyped, Raises
    PROVE  FixedTyped'
  <1>1. node' \in FixedNodes
    BY DEF Raises, FixedNodes
  <1> QED
    BY <1>1 DEF Raises, FixedTyped, FixedTypeOK, skillVars, textVars,
        authorityVars, checkVars, explainVars, reportVars, axisVars, stepVars

(* An edge of the graph leads to a node of the graph.                      *)
LEMMA EdgesStayInTheGraph ==
    ASSUME FollowEdge, node \in DOMAIN Edge
    PROVE  node' \in FixedNodes
  BY DEF FollowEdge, Edge, FixedNodes

(* load_scenario keeps the typing.                                         *)
LEMMA LoadScenarioTyped == FixedTyped /\ LoadScenario => FixedTyped'
  <1> SUFFICES ASSUME FixedTyped, LoadScenario
               PROVE  FixedTyped'
    OBVIOUS
  <1>1. step_traces' \in Seq(FixedStepTrace) /\ step_index' = Len(step_traces')
    BY FixedStepUpdateType DEF LoadScenario, FixedTyped, FixedTypeOK
  <1>2. node' \in FixedNodes
    BY EdgesStayInTheGraph DEF LoadScenario, Edge
  <1>3. /\ substituted' \in Substituted /\ failure_mode' \in FailureModes
        /\ selected_skill_id' \in DOMAIN SkillAxis \cup {NoSkill}
    BY ScenarioType DEF LoadScenario, FixedTyped, FixedTypeOK
  <1>4. selected_skill_perspective' \in BOOLEAN
    BY DEF LoadScenario
  <1>5. UNCHANGED <<scenario, classification, misreader_skill_fired,
                    generation_used_skill, textVars, authorityVars, checkVars,
                    observation_outcome, explainVars, reportVars, next_action,
                    completed, artifacts>>
    BY DEF LoadScenario
  <1> QED
    BY <1>1, <1>2, <1>3, <1>4, <1>5
    DEF FixedTyped, FixedTypeOK, textVars, authorityVars, checkVars, explainVars,
        reportVars

(* classify keeps the typing.                                              *)
LEMMA ClassifyTyped == FixedTyped /\ Classify => FixedTyped'
  <1> SUFFICES ASSUME FixedTyped, Classify
               PROVE  FixedTyped'
    OBVIOUS
  <1>1. step_traces' \in Seq(FixedStepTrace) /\ step_index' = Len(step_traces')
    BY FixedStepUpdateType DEF Classify, FixedTyped, FixedTypeOK
  <1>2. node' \in FixedNodes
    BY DEF Classify, RouteAfterClassification, FixedNodes, Edge
  <1> QED
    BY <1>1, <1>2, ScenarioType
    DEF Classify, ClassificationOf, FixedTyped, FixedTypeOK, skillVars, textVars,
        authorityVars, checkVars, explainVars, reportVars

(* The safe response keeps the typing.                                     *)
LEMMA GenerateSafeResponseTyped ==
    FixedTyped /\ GenerateSafeResponse => FixedTyped'
  <1> SUFFICES ASSUME FixedTyped, GenerateSafeResponse
               PROVE  FixedTyped'
    OBVIOUS
  <1>1. step_traces' \in Seq(FixedStepTrace) /\ step_index' = Len(step_traces')
    BY FixedStepUpdateType DEF GenerateSafeResponse, FixedTyped, FixedTypeOK
  <1>2. node' \in FixedNodes
    BY EdgesStayInTheGraph DEF GenerateSafeResponse, Edge
  <1>3. /\ messages' \in Seq(Message) /\ messages' # <<>>
        /\ {bad_response', safe_response'} \subseteq {NoTurn} \cup DOMAIN messages'
    BY RespondType DEF GenerateSafeResponse, FixedTyped, FixedTypeOK
  <1>4. authority_cause_record' \in CauseRecord
    BY DEF GenerateSafeResponse, NoCause, CauseRecord, Attempt
  <1>5. substituted' \in Substituted /\ failure_mode' \in FailureModes
    BY DeclaredAxes DEF GenerateSafeResponse, FailureModes, ExpectedFailure
  <1> QED
    BY <1>1, <1>2, <1>3, <1>4, <1>5
    DEF GenerateSafeResponse, FixedTyped, FixedTypeOK, reportVars

(* trigger_skill keeps the typing.                                         *)
LEMMA TriggerSkillTyped == FixedTyped /\ TriggerSkill => FixedTyped'
  <1> SUFFICES ASSUME FixedTyped, TriggerSkill
               PROVE  FixedTyped'
    OBVIOUS
  <1> DEFINE fires == scenario.selected_skill_id # NoSkill /\ ~UsesAuthorityProvenance
             fired == IF scenario.selected_skill_id = NoSkill
                      THEN misreader_skill_fired ELSE fires
  <1>1. /\ fires \in BOOLEAN
        /\ fired \in BOOLEAN
    BY DEF FixedTyped, FixedTypeOK
  <1>2. /\ misreader_skill_fired' = fires
        /\ selected_skill_perspective' = fires
        /\ StepUpdate("plan", fired, FALSE, FALSE, "none")
    BY DEF TriggerSkill
  <1> HIDE DEF fires, fired
  <1>3. step_traces' \in Seq(FixedStepTrace) /\ step_index' = Len(step_traces')
    BY <1>1, <1>2, FixedStepUpdateType DEF FixedTyped, FixedTypeOK
  <1>4. node' \in FixedNodes
    BY EdgesStayInTheGraph DEF TriggerSkill, Edge
  <1>5. misreader_skill_fired' \in BOOLEAN /\ selected_skill_perspective' \in BOOLEAN
    BY <1>1, <1>2
  <1> QED
    BY <1>3, <1>4, <1>5, ScenarioType
    DEF TriggerSkill, FixedTyped, FixedTypeOK, textVars, authorityVars,
        checkVars, explainVars, reportVars, axisVars

(* What one judged attempt leaves behind. *)
LEMMA JudgeAttemptEffect ==
    ASSUME FixedTyped, NEW attempt \in Attempt, JudgeAttempt(attempt)
    PROVE  \E turn \in Nat :
              LET q == EvaluateAttempt(DeriveProvenance(messages, DefaultTarget),
                                       attempt, turn)
              IN  /\ turn = IF attempt = NoTarget THEN NoTurn ELSE Len(messages) + 1
                  /\ q \in Provenance
                  /\ authority_provenance' = q
                  /\ authority_cause_record' = [provenance |-> q,
                                                action_attempt |-> attempt,
                                                drift_fired |-> IsLaundering(q)]
                  /\ misreader_skill_fired' = IsLaundering(q)
                  /\ selected_skill_perspective' =
                        (selected_skill_perspective \/ IsLaundering(q))
                  /\ StepUpdate("do", IsLaundering(q), FALSE, FALSE, "none")
  <1> DEFINE turn == IF attempt = NoTarget THEN NoTurn ELSE Len(messages) + 1
             q == EvaluateAttempt(DeriveProvenance(messages, DefaultTarget),
                                  attempt, turn)
  <1>1. messages \in Seq(Message) /\ turn \in Nat
    BY DEF FixedTyped, FixedTypeOK, NoTurn
  <1>2. q \in Provenance
    BY <1>1, DeriveProvenanceProperties, EvaluateAttemptProperties,
       TargetsAssumption
  <1>3. /\ authority_provenance' = q
        /\ authority_cause_record' = [provenance |-> q,
                                      action_attempt |-> attempt,
                                      drift_fired |-> IsLaundering(q)]
        /\ misreader_skill_fired' = IsLaundering(q)
        /\ selected_skill_perspective' =
              (selected_skill_perspective \/ IsLaundering(q))
        /\ StepUpdate("do", IsLaundering(q), FALSE, FALSE, "none")
    BY DEF JudgeAttempt
  <1> QED
    BY <1>1, <1>2, <1>3

(* The drifting response keeps the typing, judged by history or not.       *)
LEMMA GenerateBadResponseTyped ==
    FixedTyped /\ GenerateBadResponse => FixedTyped'
  <1> SUFFICES ASSUME FixedTyped, GenerateBadResponse
               PROVE  FixedTyped'
    OBVIOUS
  <1>1. node' \in FixedNodes
    BY EdgesStayInTheGraph DEF GenerateBadResponse, Edge
  <1>2. /\ messages' \in Seq(Message) /\ messages' # <<>>
        /\ {bad_response', safe_response'} \subseteq {NoTurn} \cup DOMAIN messages'
    BY RespondType DEF GenerateBadResponse, FixedTyped, FixedTypeOK
  <1>3. generation_used_skill' \in BOOLEAN
    BY DEF GenerateBadResponse, GeneratedWithSkill, FixedTyped, FixedTypeOK
  <1>4. /\ step_traces' \in Seq(FixedStepTrace) /\ step_index' = Len(step_traces')
        /\ misreader_skill_fired' \in BOOLEAN
        /\ selected_skill_perspective' \in BOOLEAN
        /\ authority_provenance' \in Provenance \cup {NoProvenance}
        /\ authority_cause_record' \in CauseRecord
    <2>1. CASE UsesAuthorityProvenance
      <3>1. PICK attempt \in Attempt : JudgeAttempt(attempt)
        BY <2>1 DEF GenerateBadResponse
      <3>2. PICK q \in Provenance :
               /\ authority_provenance' = q
               /\ authority_cause_record' = [provenance |-> q,
                                             action_attempt |-> attempt,
                                             drift_fired |-> IsLaundering(q)]
               /\ misreader_skill_fired' = IsLaundering(q)
               /\ selected_skill_perspective' =
                     (selected_skill_perspective \/ IsLaundering(q))
               /\ StepUpdate("do", IsLaundering(q), FALSE, FALSE, "none")
        BY <3>1, JudgeAttemptEffect
      <3>3. IsLaundering(q) \in BOOLEAN
        BY DEF IsLaundering
      <3>4. step_traces' \in Seq(FixedStepTrace) /\ step_index' = Len(step_traces')
        BY <3>2, <3>3, FixedStepUpdateType DEF FixedTyped, FixedTypeOK
      <3> QED
        BY <3>2, <3>3, <3>4 DEF CauseRecord
    <2>2. CASE ~UsesAuthorityProvenance
      <3>1. step_traces' \in Seq(FixedStepTrace) /\ step_index' = Len(step_traces')
        BY <2>2, FixedStepUpdateType DEF GenerateBadResponse, FixedTyped, FixedTypeOK
      <3> QED
        BY <2>2, <3>1
        DEF GenerateBadResponse, FixedTyped, FixedTypeOK, authorityVars
    <2> QED
      BY <2>1, <2>2
  <1> QED
    BY <1>1, <1>2, <1>3, <1>4
    DEF GenerateBadResponse, FixedTyped, FixedTypeOK, checkVars, explainVars,
        reportVars, axisVars

(* maybe_check keeps the typing, whatever the checker answers.             *)
LEMMA MaybeCheckTyped == FixedTyped /\ MaybeCheck => FixedTyped'
  <1> SUFFICES ASSUME FixedTyped, MaybeCheck
               PROVE  FixedTyped'
    OBVIOUS
  <1>1. node' \in FixedNodes
    BY EdgesStayInTheGraph DEF MaybeCheck, Edge
  <1>2. /\ step_traces' \in Seq(FixedStepTrace) /\ step_index' = Len(step_traces')
        /\ checker_observation' \in Observation \cup {NoObservation}
        /\ checker_context' \in CheckerContext \cup {NoCheckerContext}
    <2>1. CASE scenario.selected_skill_id = NoSkill
      <3>1. step_traces' \in Seq(FixedStepTrace) /\ step_index' = Len(step_traces')
        BY <2>1, FixedStepUpdateType DEF MaybeCheck, FixedTyped, FixedTypeOK
      <3> QED
        BY <2>1, <3>1 DEF MaybeCheck, FixedTyped, FixedTypeOK, checkVars
    <2>2. CASE scenario.selected_skill_id # NoSkill
      <3>1. PICK observation \in Observations, attempt \in Attempt :
               /\ checker_observation' = observation
               /\ checker_context' = ContextForChecker(attempt)
               /\ StepUpdate("check", misreader_skill_fired, TRUE,
                             observation.bypass, observation.substituted)
        BY <2>2 DEF MaybeCheck
      <3>2. observation \in Observation /\ observation.bypass \in BOOLEAN
        BY FixedObservationsAssumption, ObservationType
      <3>3. step_traces' \in Seq(FixedStepTrace) /\ step_index' = Len(step_traces')
        BY <3>1, <3>2, FixedStepUpdateType DEF FixedTyped, FixedTypeOK
      <3>4. messages \in Seq(Message) /\ Len(messages) \in 1..(Len(messages) + 1)
        BY DEF FixedTyped, FixedTypeOK
      <3>5. ContextForChecker(attempt) \in CheckerContext \cup {NoCheckerContext}
        BY <3>4, CheckerContextType DEF ContextForChecker
      <3> QED
        BY <3>1, <3>2, <3>3, <3>5
    <2> QED
      BY <2>1, <2>2
  <1> QED
    BY <1>1, <1>2
    DEF MaybeCheck, FixedTyped, FixedTypeOK, skillVars, textVars, authorityVars,
        explainVars, reportVars, axisVars

(* The comparison keeps the typing.                                        *)
LEMMA CompareCheckerTyped == FixedTyped /\ CompareChecker => FixedTyped'
  <1> SUFFICES ASSUME FixedTyped, CompareChecker
               PROVE  FixedTyped'
    OBVIOUS
  <1> DEFINE axis == IF checker_observation.ran THEN checker_observation.substituted
                     ELSE substituted
  <1>1. node' \in FixedNodes
    BY EdgesStayInTheGraph DEF CompareChecker, Edge
  <1>2. checker_observation.ran \in BOOLEAN /\ checker_observation.bypass \in BOOLEAN
    BY ObservationType DEF FixedTyped, FixedTypeOK
  <1>3. StepUpdate("check", misreader_skill_fired, checker_observation.ran,
                   checker_observation.bypass, axis)
    BY DEF CompareChecker
  <1>4. step_traces' \in Seq(FixedStepTrace) /\ step_index' = Len(step_traces')
    BY <1>2, <1>3, FixedStepUpdateType DEF FixedTyped, FixedTypeOK
  <1>5. observation_outcome' \in Outcomes
    BY CompareType DEF CompareChecker, FixedTyped, FixedTypeOK
  <1> QED
    BY <1>1, <1>4, <1>5
    DEF CompareChecker, FixedTyped, FixedTypeOK, skillVars, textVars,
        authorityVars, checkVars, explainVars, reportVars, axisVars

(* explain keeps the typing, also when there is nothing to explain.        *)
LEMMA FixedExplainTyped == FixedTyped /\ Explain => FixedTyped'
  <1> SUFFICES ASSUME FixedTyped, Explain
               PROVE  FixedTyped'
    OBVIOUS
  <1>1. node' \in FixedNodes
    BY EdgesStayInTheGraph DEF Explain, Edge
  <1>2. CASE ShouldExplain
    <2>1. checker_observation.bypass \in BOOLEAN
      BY ObservationType DEF FixedTyped, FixedTypeOK
    <2>2. step_traces' \in Seq(FixedStepTrace) /\ step_index' = Len(step_traces')
      BY <1>2, <2>1, FixedStepUpdateType DEF Explain, FixedTyped, FixedTypeOK
    <2>3. PICK call \in ExplanationCalls :
             /\ self_explanation' = ExplanationStatus(call)
             /\ errors' = IF call \in {"leaks", "raises"}
                          THEN Append(errors, call) ELSE errors
      BY <1>2 DEF Explain
    <2>4. self_explanation' \in {"none", "provided", "refused", "unavailable"}
      BY <2>3 DEF ExplanationCalls, ExplanationStatus
    <2>5. errors' \in Seq({"leaks", "raises"})
      <3>1. errors \in Seq({"leaks", "raises"})
        BY DEF FixedTyped, FixedTypeOK
      <3> QED
        BY <2>3, <3>1
    <2> QED
      BY <1>1, <2>2, <2>4, <2>5
      DEF Explain, FixedTyped, FixedTypeOK, skillVars, textVars, authorityVars,
          checkVars, reportVars, axisVars
  <1>3. CASE ~ShouldExplain
    BY <1>1, <1>3
    DEF Explain, FixedTyped, FixedTypeOK, skillVars, textVars, authorityVars,
        checkVars, explainVars, reportVars, axisVars, stepVars
  <1> QED
    BY <1>2, <1>3

(* analyze_trace keeps the typing.                                         *)
LEMMA AnalyzeTraceTyped == FixedTyped /\ AnalyzeTrace => FixedTyped'
  <1> SUFFICES ASSUME FixedTyped, AnalyzeTrace
               PROVE  FixedTyped'
    OBVIOUS
  <1>1. node' \in FixedNodes
    BY EdgesStayInTheGraph DEF AnalyzeTrace, Edge
  <1>2. PICK reflection \in Axes :
           trace' = [substituted |-> scenario.expected_substituted,
                     failure_mode |-> ExpectedFailure[scenario.expected_substituted],
                     reflection_substituted |-> reflection,
                     authority_provenance |-> authority_provenance,
                     self_explanation |-> self_explanation]
    BY DEF AnalyzeTrace
  <1>3. /\ scenario.expected_substituted \in Substituted
        /\ ExpectedFailure[scenario.expected_substituted] \in FailureModes
        /\ reflection \in Substituted
        /\ authority_provenance \in Provenance \cup {NoProvenance}
        /\ self_explanation \in {"none", "provided", "refused", "unavailable"}
    BY ScenarioType, DeclaredAxes DEF FixedTyped, FixedTypeOK
  <1>4. trace' \in
           [substituted : Substituted, failure_mode : FailureModes,
            reflection_substituted : Substituted,
            authority_provenance : Provenance \cup {NoProvenance},
            self_explanation : {"none", "provided", "refused", "unavailable"}]
    BY <1>2, <1>3
  <1>5. substituted' \in Substituted /\ failure_mode' \in FailureModes
    BY <1>2, <1>3 DEF AnalyzeTrace
  <1> QED
    BY <1>1, <1>4, <1>5
    DEF AnalyzeTrace, FixedTyped, FixedTypeOK, skillVars, textVars, authorityVars,
        checkVars, explainVars, stepVars

(* render_state_trace keeps the typing.                                    *)
LEMMA RenderStateTraceTyped == FixedTyped /\ RenderStateTrace => FixedTyped'
  <1> SUFFICES ASSUME FixedTyped, RenderStateTrace
               PROVE  FixedTyped'
    OBVIOUS
  <1>1. node' \in FixedNodes
    BY EdgesStayInTheGraph DEF RenderStateTrace, Edge
  <1>2. boundary_flags' \subseteq FailureModes
    BY ScenarioType DEF RenderStateTrace, FixedTyped, FixedTypeOK
  <1>3. next_action' \in {"continue", "stop"} /\ state_trace' \in BOOLEAN
    BY DEF RenderStateTrace
  <1>4. FixedTypeOK'
    BY <1>1, <1>2, <1>3
    DEF RenderStateTrace, FixedTyped, FixedTypeOK, skillVars, textVars,
        authorityVars, checkVars, explainVars, axisVars, stepVars
  <1> QED
    BY <1>4
    DEF RenderStateTrace, FixedTyped, textVars, stepVars

(* Writing and finalizing keep the typing.                                 *)
LEMMA LastNodesTyped == FixedTyped /\ (WriteArtifacts \/ Finalize) => FixedTyped'
  <1> SUFFICES ASSUME FixedTyped, WriteArtifacts \/ Finalize
               PROVE  FixedTyped'
    OBVIOUS
  <1>1. node' \in FixedNodes
    BY EdgesStayInTheGraph DEF WriteArtifacts, Finalize, Edge, FixedNodes
  <1>2. artifacts' \subseteq {"classification", "response", "trace", "state_trace",
                              "checker", "checker_comparison", "explanation"}
    BY DEF WriteArtifacts, Finalize, Files, FixedTyped, FixedTypeOK
  <1>3. next_action' \in {"continue", "stop"} /\ completed' \in BOOLEAN
    BY DEF WriteArtifacts, Finalize, FixedTyped, FixedTypeOK
  <1>4. UNCHANGED <<scenario, classification, skillVars, textVars, authorityVars,
                    checkVars, observation_outcome, explainVars, reportVars,
                    axisVars, stepVars>>
    BY DEF WriteArtifacts, Finalize
  <1> QED
    BY <1>1, <1>2, <1>3, <1>4
    DEF FixedTyped, FixedTypeOK, skillVars, textVars,
        authorityVars, checkVars, explainVars, reportVars, axisVars, stepVars

(* Every step keeps the typing.                                            *)
LEMMA FixedTypedInductive == FixedTyped /\ [FixedNext]_fixedVars => FixedTyped'
  <1> SUFFICES ASSUME FixedTyped, [FixedNext]_fixedVars
               PROVE  FixedTyped'
    OBVIOUS
  <1>1. CASE UNCHANGED fixedVars
    BY <1>1
    DEF fixedVars, FixedTyped, FixedTypeOK, skillVars, textVars, authorityVars,
        checkVars, explainVars, reportVars, axisVars, stepVars
  <1>2. CASE FixedTerminated
    BY <1>1, <1>2 DEF FixedTerminated
  <1>3. CASE NodeRaises
    BY <1>3, RaisesTyped DEF NodeRaises
  <1> QED
    BY <1>1, <1>2, <1>3, LoadScenarioTyped, ClassifyTyped,
       GenerateSafeResponseTyped, TriggerSkillTyped, GenerateBadResponseTyped,
       MaybeCheckTyped, CompareCheckerTyped, FixedExplainTyped, AnalyzeTraceTyped,
       RenderStateTraceTyped, LastNodesTyped DEF FixedNext, FixedStep

(* FixedTypeOK holds in every state of every run: in particular the        *)
(* responses are turns of the conversation, and an explanation that quotes *)
(* the history is never kept.                                              *)
THEOREM FixedTypeCorrect == FixedSpec => []FixedTypeOK
  <1>1. FixedTyped => FixedTypeOK
    BY DEF FixedTyped
  <1> QED
    BY <1>1, FixedInitTyped, FixedTypedInductive, PTL DEF FixedSpec

-----------------------------------------------------------------------------
(* The invariant, action by action. *)

(* The way through the graph. *)
LEMMA Moves ==
    /\ LoadScenario => node = "load_scenario" /\ node' = "classify"
    /\ GenerateSafeResponse =>
          node = "generate_safe_response" /\ node' = "write_artifacts"
    /\ TriggerSkill => node = "trigger_skill" /\ node' = "generate_bad_response"
    /\ GenerateBadResponse =>
          node = "generate_bad_response" /\ node' = "maybe_check"
    /\ MaybeCheck => node = "maybe_check" /\ node' = "compare_checker"
    /\ CompareChecker => node = "compare_checker" /\ node' = "explain"
    /\ Explain => node = "explain" /\ node' = "analyze_trace"
    /\ AnalyzeTrace => node = "analyze_trace" /\ node' = "render_state_trace"
    /\ RenderStateTrace => node = "render_state_trace" /\ node' = "write_artifacts"
    /\ WriteArtifacts =>
          node = "write_artifacts" /\ node' \in {"finalize", "failed"}
    /\ Finalize => node = "finalize" /\ node' = "end"
  <1>1. /\ Edge["load_scenario"] = "classify"
        /\ Edge["generate_safe_response"] = "write_artifacts"
        /\ Edge["trigger_skill"] = "generate_bad_response"
        /\ Edge["generate_bad_response"] = "maybe_check"
        /\ Edge["maybe_check"] = "compare_checker"
        /\ Edge["compare_checker"] = "explain"
        /\ Edge["explain"] = "analyze_trace"
        /\ Edge["analyze_trace"] = "render_state_trace"
        /\ Edge["render_state_trace"] = "write_artifacts"
        /\ Edge["write_artifacts"] = "finalize"
        /\ Edge["finalize"] = "end"
    BY DEF Edge
  <1>2. /\ LoadScenario => node = "load_scenario" /\ FollowEdge
        /\ GenerateSafeResponse => node = "generate_safe_response" /\ FollowEdge
        /\ TriggerSkill => node = "trigger_skill" /\ FollowEdge
    BY DEF LoadScenario, GenerateSafeResponse, TriggerSkill
  <1>3. /\ GenerateBadResponse => node = "generate_bad_response" /\ FollowEdge
        /\ MaybeCheck => node = "maybe_check" /\ FollowEdge
        /\ CompareChecker => node = "compare_checker" /\ FollowEdge
    BY DEF GenerateBadResponse, MaybeCheck, CompareChecker
  <1>4. /\ Explain => node = "explain" /\ FollowEdge
        /\ AnalyzeTrace => node = "analyze_trace" /\ FollowEdge
        /\ RenderStateTrace => node = "render_state_trace" /\ FollowEdge
    BY DEF Explain, AnalyzeTrace, RenderStateTrace
  <1>5. /\ WriteArtifacts =>
              node = "write_artifacts" /\ (FollowEdge \/ node' = "failed")
        /\ Finalize => node = "finalize" /\ FollowEdge
    BY DEF WriteArtifacts, Finalize
  <1> QED
    BY <1>1, <1>2, <1>3, <1>4, <1>5 DEF FollowEdge

(* A step trace that reports no drift keeps the traces free of drift.      *)
LEMMA QuietTraces ==
    ASSUME FixedTyped, NEW kind \in {"plan", "do", "check", "explain"}, NEW axis,
           NEW fired \in BOOLEAN, NEW ran \in BOOLEAN, NEW bypass \in BOOLEAN,
           ~fired, ~ran,
           StepUpdate(kind, fired, ran, bypass, axis),
           \A i \in DOMAIN step_traces :
              ~step_traces[i].misreader_skill_fired /\ ~step_traces[i].checker_ran
    PROVE  \A i \in DOMAIN step_traces' :
              ~step_traces'[i].misreader_skill_fired /\ ~step_traces'[i].checker_ran
  <1>1. /\ DOMAIN step_traces = 1..Len(step_traces)
        /\ Len(step_traces) \in Nat
        /\ DOMAIN step_traces' = 1..(Len(step_traces) + 1)
        /\ \A i \in DOMAIN step_traces : step_traces'[i] = step_traces[i]
        /\ step_traces'[Len(step_traces) + 1].misreader_skill_fired = fired
        /\ step_traces'[Len(step_traces) + 1].checker_ran = ran
    BY FixedStepUpdateType DEF FixedTyped, FixedTypeOK
  <1> QED
    BY <1>1

(* A node that only moves the run on, or raises, keeps the invariant.      *)
LEMMA RaisesKeepsFixedInv == FixedInv /\ Raises => FixedInv'
  <1> SUFFICES ASSUME FixedInv, Raises
               PROVE  FixedInv'
    OBVIOUS
  <1>1. FixedTyped'
    BY RaisesTyped DEF FixedInv
  <1>2. /\ UNCHANGED <<scenario, messages, classification, selected_skill_id,
                       misreader_skill_fired, bad_response, safe_response,
                       authority_provenance, authority_cause_record,
                       checker_observation, checker_context, self_explanation,
                       trace, step_traces>>
        /\ node' = "failed"
    BY DEF Raises, skillVars, textVars, authorityVars, checkVars, explainVars,
           reportVars, stepVars
  <1>3. RouteOfTheScenario' /\ ResponseIsTheLastTurn'
    BY <1>2 DEF RouteOfTheScenario, ResponseIsTheLastTurn, DecidingNodes,
                ObservingNodes, WritingNodes
  <1>4. NoDriftOutsideTheScope'
    BY <1>2 DEF FixedInv, NoDriftOutsideTheScope, InScope, WritingNodes
  <1>5. SkillOfTheScenario'
    BY <1>2 DEF FixedInv, SkillOfTheScenario, InScope
  <1>6. CauseOfTheResponse'
    BY <1>2 DEF FixedInv, CauseOfTheResponse, DecidingNodes
  <1>7. CheckOfTheResponse'
    BY <1>2 DEF FixedInv, CheckOfTheResponse, DecidingNodes, ObservingNodes,
                WritingNodes
  <1>8. ReportOfTheRun'
    BY <1>2 DEF ReportOfTheRun, DecidingNodes, WritingNodes
  <1> QED
    BY <1>1, <1>3, <1>4, <1>5, <1>6, <1>7, <1>8 DEF FixedInv

(* The invariant is about the state alone.                                 *)
LEMMA StutterKeepsFixedInv == FixedInv /\ UNCHANGED fixedVars => FixedInv'
  <1> SUFFICES ASSUME FixedInv, UNCHANGED fixedVars
               PROVE  FixedInv'
    OBVIOUS
  <1>1. FixedTyped'
    BY FixedTypedInductive DEF FixedInv
  <1>2. UNCHANGED <<scenario, node, messages, classification, selected_skill_id,
                    misreader_skill_fired, bad_response, safe_response,
                    authority_provenance, authority_cause_record,
                    checker_observation, checker_context, observation_outcome,
                    self_explanation, trace, state_trace, step_traces,
                    artifacts>>
    BY DEF fixedVars, skillVars, textVars, authorityVars, checkVars, explainVars,
           reportVars, stepVars
  <1>3. RouteOfTheScenario' /\ ResponseIsTheLastTurn' /\ NoDriftOutsideTheScope'
    BY <1>2 DEF FixedInv, RouteOfTheScenario, ResponseIsTheLastTurn,
                NoDriftOutsideTheScope, InScope, ClassificationOf
  <1>4. SkillOfTheScenario' /\ CauseOfTheResponse'
    BY <1>2 DEF FixedInv, SkillOfTheScenario, CauseOfTheResponse, InScope,
                UsesAuthorityProvenance
  <1>5. CheckOfTheResponse' /\ ReportOfTheRun'
    BY <1>2 DEF FixedInv, CheckOfTheResponse, ReportOfTheRun, InScope, Files
  <1> QED
    BY <1>1, <1>3, <1>4, <1>5 DEF FixedInv

(* load_scenario keeps the invariant.                                      *)
LEMMA LoadScenarioKeepsFixedInv == FixedInv /\ LoadScenario => FixedInv'
  <1> SUFFICES ASSUME FixedInv, LoadScenario
               PROVE  FixedInv'
    OBVIOUS
  <1>1. FixedTyped'
    BY LoadScenarioTyped DEF FixedInv
  <1>2. node = "load_scenario" /\ node' = "classify"
    BY Moves
  <1>3. /\ UNCHANGED <<scenario, messages, classification, misreader_skill_fired,
                       bad_response, safe_response, authority_provenance,
                       authority_cause_record, checker_observation,
                       checker_context, self_explanation, trace>>
        /\ selected_skill_id' = scenario.selected_skill_id
    BY DEF LoadScenario, textVars, authorityVars, checkVars, explainVars, reportVars
  <1>4. RouteOfTheScenario' /\ ResponseIsTheLastTurn'
    BY <1>2, <1>3 DEF FixedInv, RouteOfTheScenario, ResponseIsTheLastTurn,
                      DecidingNodes, ObservingNodes, WritingNodes
  <1>5. NoDriftOutsideTheScope'
    <2>1. ~InScope => \A i \in DOMAIN step_traces' :
             ~step_traces'[i].misreader_skill_fired /\ ~step_traces'[i].checker_ran
      BY QuietTraces DEF LoadScenario, FixedInv, FixedTyped, FixedTypeOK,
                         NoDriftOutsideTheScope
    <2> QED
      BY <1>2, <1>3, <2>1 DEF FixedInv, NoDriftOutsideTheScope, InScope, WritingNodes
  <1>6. SkillOfTheScenario'
    BY <1>2, <1>3 DEF SkillOfTheScenario
  <1>7. CauseOfTheResponse' /\ CheckOfTheResponse' /\ ReportOfTheRun'
    BY <1>2, <1>3 DEF FixedInv, CauseOfTheResponse, CheckOfTheResponse,
                      ReportOfTheRun, DecidingNodes, ObservingNodes, WritingNodes
  <1> QED
    BY <1>1, <1>4, <1>5, <1>6, <1>7 DEF FixedInv

(* classify keeps the invariant: it settles the route.                     *)
LEMMA ClassifyKeepsFixedInv == FixedInv /\ Classify => FixedInv'
  <1> SUFFICES ASSUME FixedInv, Classify
               PROVE  FixedInv'
    OBVIOUS
  <1>1. FixedTyped'
    BY ClassifyTyped DEF FixedInv
  <1>2. /\ node = "classify"
        /\ classification' = ClassificationOf(scenario)
        /\ node' = IF InScope THEN "trigger_skill"
                   ELSE IF scenario.has_safe_response THEN "generate_safe_response"
                   ELSE "write_artifacts"
    BY DEF Classify, ClassificationOf, RouteAfterClassification, InScope
  <1>3. UNCHANGED <<scenario, messages, selected_skill_id, misreader_skill_fired,
                    bad_response, safe_response, authority_provenance,
                    authority_cause_record, checker_observation,
                    checker_context, self_explanation, trace>>
    BY DEF Classify, skillVars, textVars, authorityVars, checkVars, explainVars,
           reportVars
  <1>4. scenario.has_safe_response => ~InScope
    BY DEF FixedInv, FixedTyped, LoadableScenario, InScope
  <1>5. RouteOfTheScenario'
    BY <1>2, <1>3 DEF RouteOfTheScenario, ClassificationOf, InScope, ObservingNodes
  <1>6. ResponseIsTheLastTurn'
    BY <1>2, <1>3, <1>4 DEF FixedInv, ResponseIsTheLastTurn, InScope,
                            DecidingNodes, ObservingNodes, WritingNodes
  <1>7. NoDriftOutsideTheScope'
    <2>1. ~InScope => \A i \in DOMAIN step_traces' :
             ~step_traces'[i].misreader_skill_fired /\ ~step_traces'[i].checker_ran
      BY QuietTraces DEF Classify, FixedInv, FixedTyped, FixedTypeOK,
                         NoDriftOutsideTheScope
    <2> QED
      BY <1>2, <1>3, <2>1 DEF FixedInv, NoDriftOutsideTheScope, InScope, WritingNodes
  <1>8. SkillOfTheScenario'
    BY <1>2, <1>3 DEF FixedInv, SkillOfTheScenario, InScope
  <1>9. CauseOfTheResponse' /\ CheckOfTheResponse'
    BY <1>2, <1>3 DEF FixedInv, CauseOfTheResponse, CheckOfTheResponse, InScope,
                      DecidingNodes, ObservingNodes, WritingNodes
  <1>10. ReportOfTheRun'
    BY <1>2, <1>3 DEF FixedInv, ReportOfTheRun, CauseOfTheResponse,
                      NoCause, InScope, DecidingNodes, WritingNodes
  <1> QED
    BY <1>1, <1>5, <1>6, <1>7, <1>8, <1>9, <1>10 DEF FixedInv

(* The safe response keeps the invariant: whatever the history would have  *)
(* supported is gone.                                                      *)
LEMMA GenerateSafeResponseKeepsFixedInv ==
    FixedInv /\ GenerateSafeResponse => FixedInv'
  <1> SUFFICES ASSUME FixedInv, GenerateSafeResponse
               PROVE  FixedInv'
    OBVIOUS
  <1>1. FixedTyped'
    BY GenerateSafeResponseTyped DEF FixedInv
  <1>2. node = "generate_safe_response" /\ node' = "write_artifacts"
    BY Moves
  <1>3. /\ UNCHANGED <<scenario, classification, checker_context, trace>>
        /\ bad_response' = NoTurn
        /\ ~misreader_skill_fired'
        /\ checker_observation' = NoObservation
        /\ authority_provenance' = NoProvenance
        /\ authority_cause_record' = NoCause
        /\ self_explanation' = "none"
    BY DEF GenerateSafeResponse, reportVars
  <1>4. scenario.has_safe_response /\ ~InScope
    BY <1>2 DEF FixedInv, FixedTyped, RouteOfTheScenario, LoadableScenario, InScope
  <1>5. safe_response' = Len(messages')
    BY RespondType DEF GenerateSafeResponse, FixedInv, FixedTyped, FixedTypeOK
  <1>6. RouteOfTheScenario'
    BY <1>2, <1>3 DEF FixedInv, RouteOfTheScenario, ClassificationOf, ObservingNodes
  <1>7. ResponseIsTheLastTurn'
    BY <1>2, <1>3, <1>4, <1>5 DEF ResponseIsTheLastTurn, InScope,
                            DecidingNodes, ObservingNodes, WritingNodes
  <1>8. NoDriftOutsideTheScope'
    <2>1. \A i \in DOMAIN step_traces' :
             ~step_traces'[i].misreader_skill_fired /\ ~step_traces'[i].checker_ran
      BY <1>4, QuietTraces DEF GenerateSafeResponse, FixedInv, NoDriftOutsideTheScope
    <2> QED
      BY <1>3, <2>1 DEF NoDriftOutsideTheScope
  <1>9. SkillOfTheScenario'
    BY <1>3, <1>4 DEF SkillOfTheScenario, InScope
  <1>10. CauseOfTheResponse'
    BY <1>2, <1>3, TargetsAssumption
    DEF CauseOfTheResponse, NoCause, NoProvenance, IsLaundering, DecidingNodes
  <1>11. CheckOfTheResponse'
    BY <1>2, <1>3, <1>4, TargetsAssumption
    DEF FixedInv, CheckOfTheResponse, NoCheckerContext, InScope, DecidingNodes,
        ObservingNodes, WritingNodes
  <1>12. ReportOfTheRun'
    BY <1>2, <1>3, <1>4 DEF ReportOfTheRun, NoCause, InScope, DecidingNodes,
                            WritingNodes
  <1> QED
    BY <1>1, <1>6, <1>7, <1>8, <1>9, <1>10, <1>11, <1>12 DEF FixedInv

(* trigger_skill keeps the invariant: the skill counts unless the history  *)
(* decides.                                                                *)
LEMMA TriggerSkillKeepsFixedInv == FixedInv /\ TriggerSkill => FixedInv'
  <1> SUFFICES ASSUME FixedInv, TriggerSkill
               PROVE  FixedInv'
    OBVIOUS
  <1>1. FixedTyped'
    BY TriggerSkillTyped DEF FixedInv
  <1>2. node = "trigger_skill" /\ node' = "generate_bad_response"
    BY Moves
  <1>3. /\ UNCHANGED <<scenario, messages, classification, bad_response,
                       safe_response, authority_provenance,
                       authority_cause_record, checker_observation,
                       checker_context, self_explanation, trace>>
        /\ selected_skill_id' = scenario.selected_skill_id
        /\ misreader_skill_fired' =
              (scenario.selected_skill_id # NoSkill /\ ~UsesAuthorityProvenance)
    BY DEF TriggerSkill, textVars, authorityVars, checkVars, explainVars, reportVars
  <1>4. InScope
    BY <1>2 DEF FixedInv, RouteOfTheScenario
  <1>5. RouteOfTheScenario' /\ ResponseIsTheLastTurn' /\ NoDriftOutsideTheScope'
    BY <1>2, <1>3, <1>4
    DEF FixedInv, RouteOfTheScenario, ResponseIsTheLastTurn, NoDriftOutsideTheScope,
        ClassificationOf, InScope, DecidingNodes, ObservingNodes, WritingNodes
  <1>6. SkillOfTheScenario'
    BY <1>3, <1>4 DEF FixedInv, SkillOfTheScenario, UsesAuthorityProvenance
  <1>7. CauseOfTheResponse' /\ CheckOfTheResponse' /\ ReportOfTheRun'
    BY <1>2, <1>3 DEF FixedInv, CauseOfTheResponse, CheckOfTheResponse,
                      ReportOfTheRun, DecidingNodes, ObservingNodes, WritingNodes
  <1> QED
    BY <1>1, <1>5, <1>6, <1>7 DEF FixedInv

(* A drift judged by history is judged by the turns before the response.   *)
LEMMA JudgedCauseIsOfTheResponse ==
    ASSUME FixedInv, GenerateBadResponse, UsesAuthorityProvenance
    PROVE  /\ authority_cause_record'.provenance = authority_provenance'
           /\ authority_cause_record'.drift_fired <=>
                 IsLaundering(authority_cause_record'.provenance)
           /\ authority_cause_record'.action_attempt = DefaultTarget =>
                 /\ authority_cause_record'.provenance.prior_agent_proposal_turn =
                       FirstAgentProposalTurn(messages, DefaultTarget)
                 /\ authority_cause_record'.provenance.principal_grant_turn =
                       FirstPrincipalGrantTurn(messages, DefaultTarget)
                 /\ authority_cause_record'.provenance.action_attempt_turn =
                       Len(messages) + 1
  <1>1. messages \in Seq(Message) /\ FixedTyped
    BY DEF FixedInv, FixedTyped, FixedTypeOK
  <1>2. PICK attempt \in Attempt : JudgeAttempt(attempt)
    BY DEF GenerateBadResponse
  <1>3. PICK turn \in Nat :
           LET q == EvaluateAttempt(DeriveProvenance(messages, DefaultTarget),
                                    attempt, turn)
           IN  /\ turn = IF attempt = NoTarget THEN NoTurn ELSE Len(messages) + 1
               /\ authority_provenance' = q
               /\ authority_cause_record' = [provenance |-> q,
                                             action_attempt |-> attempt,
                                             drift_fired |-> IsLaundering(q)]
    BY <1>1, <1>2, JudgeAttemptEffect
  <1>4. attempt = DefaultTarget =>
           LET q == EvaluateAttempt(DeriveProvenance(messages, DefaultTarget),
                                    attempt, turn)
           IN  /\ q.prior_agent_proposal_turn =
                     FirstAgentProposalTurn(messages, DefaultTarget)
               /\ q.principal_grant_turn =
                     FirstPrincipalGrantTurn(messages, DefaultTarget)
               /\ q.action_attempt_turn = Len(messages) + 1
    BY <1>1, <1>3, AttemptOfTheDefaultTarget, TargetsAssumption
  <1> DEFINE q == EvaluateAttempt(DeriveProvenance(messages, DefaultTarget),
                                  attempt, turn)
  <1> HIDE DEF q
  <1>5. /\ authority_provenance' = q
        /\ authority_cause_record' = [provenance |-> q,
                                      action_attempt |-> attempt,
                                      drift_fired |-> IsLaundering(q)]
    BY <1>3 DEF q
  <1>6. /\ authority_cause_record'.provenance = q
        /\ authority_cause_record'.action_attempt = attempt
        /\ authority_cause_record'.drift_fired <=> IsLaundering(q)
    BY <1>5
  <1> QED
    BY <1>4, <1>5, <1>6 DEF q

(* The drifting response keeps the invariant.                              *)
LEMMA GenerateBadResponseKeepsFixedInv ==
    FixedInv /\ GenerateBadResponse => FixedInv'
  <1> SUFFICES ASSUME FixedInv, GenerateBadResponse
               PROVE  FixedInv'
    OBVIOUS
  <1>1. FixedTyped'
    BY GenerateBadResponseTyped DEF FixedInv
  <1>2. node = "generate_bad_response" /\ node' = "maybe_check"
    BY Moves
  <1>3. /\ UNCHANGED <<scenario, classification, selected_skill_id,
                       checker_observation, checker_context, self_explanation,
                       trace>>
        /\ safe_response' = NoTurn
    BY DEF GenerateBadResponse, checkVars, explainVars, reportVars
  <1>4. InScope
    BY <1>2 DEF FixedInv, RouteOfTheScenario
  <1>5. /\ bad_response' = Len(messages')
        /\ Len(messages') = Len(messages) + 1
        /\ Before(messages', Len(messages')) = messages
    BY RespondType DEF GenerateBadResponse, FixedInv, FixedTyped, FixedTypeOK
  <1>6. RouteOfTheScenario' /\ ResponseIsTheLastTurn' /\ NoDriftOutsideTheScope'
    BY <1>2, <1>3, <1>4, <1>5
    DEF FixedInv, RouteOfTheScenario, ResponseIsTheLastTurn, NoDriftOutsideTheScope,
        ClassificationOf, InScope, DecidingNodes, ObservingNodes, WritingNodes
  <1>7. SkillOfTheScenario'
    BY <1>2, <1>3, <1>4 DEF FixedInv, SkillOfTheScenario
  <1>8. CauseOfTheResponse'
    <2>1. CASE UsesAuthorityProvenance
      BY <1>2, <1>5, <2>1, JudgedCauseIsOfTheResponse
      DEF CauseOfTheResponse, DecidingNodes
    <2>2. CASE ~UsesAuthorityProvenance
      <3>1. authority_cause_record' = NoCause
        BY <1>2, <2>2 DEF GenerateBadResponse, FixedInv, CauseOfTheResponse,
                          DecidingNodes, authorityVars
      <3> QED
        BY <1>2, <3>1, TargetsAssumption
        DEF CauseOfTheResponse, NoCause, NoProvenance, IsLaundering
    <2> QED
      BY <2>1, <2>2
  <1>9. CheckOfTheResponse'
    BY <1>2, <1>3, TargetsAssumption
    DEF FixedInv, CheckOfTheResponse, NoCheckerContext, DecidingNodes,
        ObservingNodes, WritingNodes
  <1>10. ReportOfTheRun'
    BY <1>2, <1>3 DEF FixedInv, ReportOfTheRun, DecidingNodes, WritingNodes
  <1> QED
    BY <1>1, <1>6, <1>7, <1>8, <1>9, <1>10 DEF FixedInv

(* maybe_check keeps the invariant: what the checker is told is read off   *)
(* the turns before the response.                                          *)
LEMMA MaybeCheckKeepsFixedInv == FixedInv /\ MaybeCheck => FixedInv'
  <1> SUFFICES ASSUME FixedInv, MaybeCheck
               PROVE  FixedInv'
    OBVIOUS
  <1>1. FixedTyped'
    BY MaybeCheckTyped DEF FixedInv
  <1>2. node = "maybe_check" /\ node' = "compare_checker"
    BY Moves
  <1>3. UNCHANGED <<scenario, messages, classification, selected_skill_id,
                    misreader_skill_fired, bad_response, safe_response,
                    authority_provenance, authority_cause_record,
                    self_explanation, trace>>
    BY DEF MaybeCheck, skillVars, textVars, authorityVars, explainVars, reportVars
  <1>4. InScope
    BY <1>2 DEF FixedInv, RouteOfTheScenario, ObservingNodes
  <1>5. RouteOfTheScenario' /\ ResponseIsTheLastTurn' /\ NoDriftOutsideTheScope'
    BY <1>2, <1>3, <1>4
    DEF FixedInv, RouteOfTheScenario, ResponseIsTheLastTurn, NoDriftOutsideTheScope,
        ClassificationOf, InScope, DecidingNodes, ObservingNodes, WritingNodes
  <1>6. SkillOfTheScenario' /\ CauseOfTheResponse' /\ ReportOfTheRun'
    BY <1>2, <1>3 DEF FixedInv, SkillOfTheScenario, CauseOfTheResponse,
                      ReportOfTheRun, InScope, DecidingNodes, WritingNodes
  <1>7. CheckOfTheResponse'
    <2>1. CASE scenario.selected_skill_id = NoSkill
      BY <1>2, <1>3, <2>1, TargetsAssumption
      DEF MaybeCheck, FixedInv, CheckOfTheResponse, NoObservation,
          NoCheckerContext, checkVars, DecidingNodes
    <2>2. CASE scenario.selected_skill_id # NoSkill
      <3>1. PICK observation \in Observations, attempt \in Attempt :
               /\ checker_observation' = observation
               /\ checker_context' = ContextForChecker(attempt)
        BY <2>2 DEF MaybeCheck
      <3>2. checker_observation'.ran
        BY <3>1, FixedObservationsAssumption DEF Observation
      <3>3. ASSUME checker_context'.target = DefaultTarget
            PROVE  /\ checker_context'.prior_agent_proposal_turn =
                         FirstAgentProposalTurn(
                            Before(messages, Len(messages)), DefaultTarget)
                   /\ checker_context'.principal_grant_turn =
                         FirstPrincipalGrantTurn(
                            Before(messages, Len(messages)), DefaultTarget)
                   /\ checker_context'.generated_action_attempt_turn = Len(messages)
        <4>1. ContextForChecker(attempt) # NoCheckerContext
          BY <3>1, <3>3, TargetsAssumption DEF NoCheckerContext
        <4>2. ContextForChecker(attempt) =
                 DeriveCheckerContext(messages, attempt, Len(messages))
          BY <4>1 DEF ContextForChecker
        <4> QED
          BY <3>1, <3>3, <4>2, ContextOfTheTarget
      <3> QED
        BY <1>2, <1>3, <2>2, <3>2, <3>3 DEF CheckOfTheResponse, DecidingNodes
    <2> QED
      BY <2>1, <2>2
  <1> QED
    BY <1>1, <1>5, <1>6, <1>7 DEF FixedInv

(* The comparison keeps the invariant.                                     *)
LEMMA CompareCheckerKeepsFixedInv == FixedInv /\ CompareChecker => FixedInv'
  <1> SUFFICES ASSUME FixedInv, CompareChecker
               PROVE  FixedInv'
    OBVIOUS
  <1>1. FixedTyped'
    BY CompareCheckerTyped DEF FixedInv
  <1>2. node = "compare_checker" /\ node' = "explain"
    BY Moves
  <1>3. UNCHANGED <<scenario, messages, classification, selected_skill_id,
                    misreader_skill_fired, bad_response, safe_response,
                    authority_provenance, authority_cause_record,
                    checker_observation, checker_context, self_explanation, trace>>
    BY DEF CompareChecker, skillVars, textVars, authorityVars, checkVars,
           explainVars, reportVars
  <1>4. InScope
    BY <1>2 DEF FixedInv, RouteOfTheScenario, ObservingNodes
  <1>5. RouteOfTheScenario' /\ ResponseIsTheLastTurn' /\ NoDriftOutsideTheScope'
    BY <1>2, <1>3, <1>4
    DEF FixedInv, RouteOfTheScenario, ResponseIsTheLastTurn, NoDriftOutsideTheScope,
        ClassificationOf, InScope, DecidingNodes, ObservingNodes, WritingNodes
  <1>6. SkillOfTheScenario' /\ CauseOfTheResponse'
    BY <1>2, <1>3 DEF FixedInv, SkillOfTheScenario, CauseOfTheResponse, InScope,
                      DecidingNodes
  <1>7. CheckOfTheResponse' /\ ReportOfTheRun'
    BY <1>2, <1>3 DEF FixedInv, CheckOfTheResponse, ReportOfTheRun, InScope,
                      DecidingNodes, ObservingNodes, WritingNodes
  <1> QED
    BY <1>1, <1>5, <1>6, <1>7 DEF FixedInv

(* explain keeps the invariant: there is an explanation exactly if the     *)
(* history fired and was checked.                                          *)
LEMMA ExplainKeepsFixedInv == FixedInv /\ Explain => FixedInv'
  <1> SUFFICES ASSUME FixedInv, Explain
               PROVE  FixedInv'
    OBVIOUS
  <1>1. FixedTyped'
    BY FixedExplainTyped DEF FixedInv
  <1>2. node = "explain" /\ node' = "analyze_trace"
    BY Moves
  <1>3. UNCHANGED <<scenario, messages, classification, selected_skill_id,
                    misreader_skill_fired, bad_response, safe_response,
                    authority_provenance, authority_cause_record,
                    checker_observation, checker_context, trace>>
    BY DEF Explain, skillVars, textVars, authorityVars, checkVars, reportVars
  <1>4. InScope
    BY <1>2 DEF FixedInv, RouteOfTheScenario, ObservingNodes
  <1>5. RouteOfTheScenario' /\ ResponseIsTheLastTurn' /\ NoDriftOutsideTheScope'
    BY <1>2, <1>3, <1>4
    DEF FixedInv, RouteOfTheScenario, ResponseIsTheLastTurn, NoDriftOutsideTheScope,
        ClassificationOf, InScope, DecidingNodes, ObservingNodes, WritingNodes
  <1>6. SkillOfTheScenario' /\ CauseOfTheResponse' /\ CheckOfTheResponse'
    BY <1>2, <1>3 DEF FixedInv, SkillOfTheScenario, CauseOfTheResponse,
                      CheckOfTheResponse, InScope, DecidingNodes,
                      ObservingNodes, WritingNodes
  <1>7. self_explanation' # "none" <=>
           authority_cause_record.drift_fired /\ checker_observation.ran
    <2>1. ShouldExplain <=> authority_cause_record.drift_fired /\ checker_observation.ran
      BY DEF ShouldExplain, FixedInv, CauseOfTheResponse
    <2>2. CASE ShouldExplain
      <3>1. PICK call \in ExplanationCalls : self_explanation' = ExplanationStatus(call)
        BY <2>2 DEF Explain
      <3>2. self_explanation' # "none"
        BY <3>1 DEF ExplanationCalls, ExplanationStatus
      <3> QED
        BY <2>1, <2>2, <3>2
    <2>3. CASE ~ShouldExplain
      <3>1. self_explanation' = "none"
        BY <1>2, <2>3 DEF Explain, FixedInv, ReportOfTheRun, explainVars
      <3> QED
        BY <2>1, <2>3, <3>1
    <2> QED
      BY <2>2, <2>3
  <1>8. ReportOfTheRun'
    BY <1>2, <1>3, <1>7 DEF ReportOfTheRun, DecidingNodes, WritingNodes
  <1> QED
    BY <1>1, <1>5, <1>6, <1>8 DEF FixedInv

(* analyze_trace keeps the invariant: the trace reports the state.         *)
LEMMA AnalyzeTraceKeepsFixedInv == FixedInv /\ AnalyzeTrace => FixedInv'
  <1> SUFFICES ASSUME FixedInv, AnalyzeTrace
               PROVE  FixedInv'
    OBVIOUS
  <1>1. FixedTyped'
    BY AnalyzeTraceTyped DEF FixedInv
  <1>2. node = "analyze_trace" /\ node' = "render_state_trace"
    BY Moves
  <1>3. UNCHANGED <<scenario, messages, classification, selected_skill_id,
                    misreader_skill_fired, bad_response, safe_response,
                    authority_provenance, authority_cause_record,
                    checker_observation, checker_context, self_explanation>>
    BY DEF AnalyzeTrace, skillVars, textVars, authorityVars, checkVars, explainVars
  <1>4. InScope
    BY <1>2 DEF FixedInv, RouteOfTheScenario, ObservingNodes
  <1>5. RouteOfTheScenario' /\ ResponseIsTheLastTurn' /\ NoDriftOutsideTheScope'
    BY <1>2, <1>3, <1>4
    DEF FixedInv, RouteOfTheScenario, ResponseIsTheLastTurn, NoDriftOutsideTheScope,
        ClassificationOf, InScope, DecidingNodes, ObservingNodes, WritingNodes
  <1>6. SkillOfTheScenario' /\ CauseOfTheResponse' /\ CheckOfTheResponse'
    BY <1>2, <1>3 DEF FixedInv, SkillOfTheScenario, CauseOfTheResponse,
                      CheckOfTheResponse, InScope, DecidingNodes,
                      ObservingNodes, WritingNodes
  <1>7. /\ trace'.substituted = scenario.expected_substituted
        /\ trace'.authority_provenance = authority_provenance
        /\ trace'.self_explanation = self_explanation
    BY DEF AnalyzeTrace
  <1>8. ReportOfTheRun'
    BY <1>2, <1>3, <1>7 DEF FixedInv, ReportOfTheRun, DecidingNodes, WritingNodes
  <1> QED
    BY <1>1, <1>5, <1>6, <1>8 DEF FixedInv

(* render_state_trace keeps the invariant.                                 *)
LEMMA RenderStateTraceKeepsFixedInv == FixedInv /\ RenderStateTrace => FixedInv'
  <1> SUFFICES ASSUME FixedInv, RenderStateTrace
               PROVE  FixedInv'
    OBVIOUS
  <1>1. FixedTyped'
    BY RenderStateTraceTyped DEF FixedInv
  <1>2. node = "render_state_trace" /\ node' = "write_artifacts"
    BY Moves
  <1>3. UNCHANGED <<scenario, messages, classification, selected_skill_id,
                    misreader_skill_fired, bad_response, safe_response,
                    authority_provenance, authority_cause_record,
                    checker_observation, checker_context, self_explanation, trace>>
    BY DEF RenderStateTrace, skillVars, textVars, authorityVars, checkVars,
           explainVars
  <1>4. InScope /\ ~scenario.has_safe_response
    BY <1>2 DEF FixedInv, FixedTyped, LoadableScenario, RouteOfTheScenario, InScope,
                ObservingNodes
  <1>5. RouteOfTheScenario' /\ ResponseIsTheLastTurn' /\ NoDriftOutsideTheScope'
    BY <1>2, <1>3, <1>4
    DEF FixedInv, RouteOfTheScenario, ResponseIsTheLastTurn, NoDriftOutsideTheScope,
        ClassificationOf, InScope, DecidingNodes, ObservingNodes, WritingNodes
  <1>6. SkillOfTheScenario' /\ CauseOfTheResponse' /\ CheckOfTheResponse'
    BY <1>2, <1>3 DEF FixedInv, SkillOfTheScenario, CauseOfTheResponse,
                      CheckOfTheResponse, InScope, DecidingNodes,
                      ObservingNodes, WritingNodes
  <1>7. state_trace' = TRUE
    BY DEF RenderStateTrace
  <1>8. ReportOfTheRun'
    BY <1>2, <1>3, <1>4, <1>7
    DEF FixedInv, ReportOfTheRun, InScope, DecidingNodes, WritingNodes
  <1> QED
    BY <1>1, <1>5, <1>6, <1>8 DEF FixedInv

(* Writing and finalizing keep the invariant: what is on disk is of the    *)
(* run as it ended.                                                        *)
LEMMA LastNodesKeepFixedInv == FixedInv /\ (WriteArtifacts \/ Finalize) => FixedInv'
  <1> SUFFICES ASSUME FixedInv, WriteArtifacts \/ Finalize
               PROVE  FixedInv'
    OBVIOUS
  <1>1. FixedTyped'
    BY LastNodesTyped DEF FixedInv
  <1>2. /\ node \in {"write_artifacts", "finalize"}
        /\ node' \in {"finalize", "end", "failed"}
        /\ node = "write_artifacts" /\ node' = "finalize" => artifacts' = Files
        /\ node = "finalize" => artifacts' = artifacts
        /\ node' = "end" => node = "finalize"
    BY Moves DEF WriteArtifacts, Finalize
  <1>3. UNCHANGED <<scenario, messages, classification, selected_skill_id,
                    misreader_skill_fired, bad_response, safe_response,
                    authority_provenance, authority_cause_record,
                    checker_observation, checker_context, observation_outcome,
                    self_explanation, trace, state_trace, step_traces>>
    BY DEF WriteArtifacts, Finalize, skillVars, textVars, authorityVars, checkVars,
           explainVars, reportVars, stepVars
  <1>4. RouteOfTheScenario' /\ ResponseIsTheLastTurn' /\ NoDriftOutsideTheScope'
    BY <1>2, <1>3
    DEF FixedInv, RouteOfTheScenario, ResponseIsTheLastTurn, NoDriftOutsideTheScope,
        ClassificationOf, InScope, DecidingNodes, ObservingNodes, WritingNodes
  <1>5. SkillOfTheScenario' /\ CauseOfTheResponse' /\ CheckOfTheResponse'
    BY <1>2, <1>3 DEF FixedInv, SkillOfTheScenario, CauseOfTheResponse,
                      CheckOfTheResponse, InScope, DecidingNodes,
                      ObservingNodes, WritingNodes
  <1>6. Files' = Files
    BY <1>3 DEF Files
  <1>7. node' \in {"finalize", "end"} => artifacts' = Files'
    BY <1>2, <1>6 DEF FixedInv, ReportOfTheRun
  <1>8. ReportOfTheRun'
    BY <1>2, <1>3, <1>7
    DEF FixedInv, ReportOfTheRun, InScope, DecidingNodes, WritingNodes
  <1> QED
    BY <1>1, <1>4, <1>5, <1>8 DEF FixedInv

(* The invariant holds when the graph is invoked.                          *)
LEMMA InitFixedInv == FixedInit => FixedInv
  <1> SUFFICES ASSUME FixedInit
               PROVE  FixedInv
    OBVIOUS
  <1>1. FixedTyped
    BY FixedInitTyped
  <1>2. RouteOfTheScenario /\ ResponseIsTheLastTurn
    BY DEF FixedInit, RouteOfTheScenario, ResponseIsTheLastTurn, DecidingNodes,
           ObservingNodes, WritingNodes
  <1>3. NoDriftOutsideTheScope /\ SkillOfTheScenario
    BY DEF FixedInit, NoDriftOutsideTheScope, SkillOfTheScenario, WritingNodes
  <1>4. CauseOfTheResponse
    BY TargetsAssumption
    DEF FixedInit, CauseOfTheResponse, NoCause, NoProvenance, IsLaundering
  <1>5. CheckOfTheResponse
    BY TargetsAssumption
    DEF FixedInit, CheckOfTheResponse, NoCheckerContext, ObservingNodes, WritingNodes
  <1>6. ReportOfTheRun
    BY DEF FixedInit, ReportOfTheRun, WritingNodes
  <1> QED
    BY <1>1, <1>2, <1>3, <1>4, <1>5, <1>6 DEF FixedInv

(* Every step keeps the invariant.                                         *)
LEMMA FixedInvInductive == FixedInv /\ [FixedNext]_fixedVars => FixedInv'
  <1>1. FixedInv /\ FixedTerminated => FixedInv'
    BY StutterKeepsFixedInv DEF FixedTerminated
  <1>2. FixedInv /\ NodeRaises => FixedInv'
    BY RaisesKeepsFixedInv DEF NodeRaises
  <1> QED
    BY <1>1, <1>2, StutterKeepsFixedInv, LoadScenarioKeepsFixedInv,
       ClassifyKeepsFixedInv, GenerateSafeResponseKeepsFixedInv,
       TriggerSkillKeepsFixedInv, GenerateBadResponseKeepsFixedInv,
       MaybeCheckKeepsFixedInv, CompareCheckerKeepsFixedInv, ExplainKeepsFixedInv,
       AnalyzeTraceKeepsFixedInv, RenderStateTraceKeepsFixedInv,
       LastNodesKeepFixedInv DEF FixedNext, FixedStep

(* The invariant holds in every reachable state.                           *)
LEMMA FixedInvariant == FixedSpec => []FixedInv
  BY InitFixedInv, FixedInvInductive, PTL DEF FixedSpec

-----------------------------------------------------------------------------
(* What the invariant says. *)

(* The writer finds everything it needs, on every route through the graph. *)
THEOREM WriterAlwaysFindsItsInputs == FixedSpec => []WriterFindsItsInputs
  <1>1. FixedInv => WriterFindsItsInputs
    <2> SUFFICES ASSUME FixedInv, node \in WritingNodes
                 PROVE  /\ CanWrite
                        /\ (bad_response # NoTurn \/ safe_response # NoTurn)
                              <=> (InScope \/ scenario.has_safe_response)
                        /\ {bad_response, safe_response} \ {NoTurn}
                              \subseteq {Len(messages)}
      BY DEF WriterFindsItsInputs, InScope, WritingNodes
    <2>1. Len(messages) # NoTurn
      BY DEF FixedInv, FixedTyped, FixedTypeOK, NoTurn
    <2>2. scenario.has_safe_response => ~InScope
      BY DEF FixedInv, FixedTyped, LoadableScenario, InScope
    <2>3. /\ bad_response = IF InScope THEN Len(messages) ELSE NoTurn
          /\ safe_response = IF scenario.has_safe_response THEN Len(messages)
                             ELSE NoTurn
      BY DEF FixedInv, ResponseIsTheLastTurn, WritingNodes
    <2>4. classification = "in_scope" <=> InScope
      BY DEF FixedInv, RouteOfTheScenario, ClassificationOf, InScope, WritingNodes
    <2>5. InScope => trace # NoTrace /\ state_trace
      BY DEF FixedInv, ReportOfTheRun, InScope, NoTrace, WritingNodes
    <2> QED
      BY <2>1, <2>2, <2>3, <2>4, <2>5 DEF CanWrite
  <1> QED
    BY <1>1, FixedInvariant, PTL

(* The written trace tells what happened, on every run that ends.          *)
THEOREM PublishedTraceIsTheRuns == FixedSpec => []PublishedTraceReportsTheRun
  <1>1. FixedInv => PublishedTraceReportsTheRun
    <2> SUFFICES ASSUME FixedInv, node = "end", classification = "in_scope"
                 PROVE  /\ trace.self_explanation = self_explanation
                        /\ trace.authority_provenance = authority_provenance
                        /\ authority_cause_record # NoCause =>
                              trace.authority_provenance =
                                 authority_cause_record.provenance
                        /\ "explanation" \in artifacts <=> self_explanation # "none"
                        /\ self_explanation # "none" <=>
                              authority_cause_record.drift_fired
                              /\ checker_observation.ran
                        /\ "checker" \in artifacts <=>
                              scenario.selected_skill_id # NoSkill
      BY DEF PublishedTraceReportsTheRun
    <2>1. InScope
      BY DEF FixedInv, RouteOfTheScenario, ClassificationOf, InScope
    <2>2. /\ trace.self_explanation = self_explanation
          /\ trace.authority_provenance = authority_provenance
          /\ self_explanation # "none" <=>
                authority_cause_record.drift_fired /\ checker_observation.ran
          /\ artifacts = Files
      BY <2>1 DEF FixedInv, ReportOfTheRun, WritingNodes
    <2>3. checker_observation.ran <=> scenario.selected_skill_id # NoSkill
      BY <2>1 DEF FixedInv, CheckOfTheResponse, WritingNodes
    <2>4. /\ "explanation" \in Files <=> self_explanation # "none"
          /\ "checker" \in Files <=> checker_observation.ran
      BY DEF Files
    <2> QED
      BY <2>2, <2>3, <2>4 DEF FixedInv, CauseOfTheResponse
  <1> QED
    BY <1>1, FixedInvariant, PTL

(* A safe control run reports no drift, whatever its history supports.     *)
THEOREM SafeControlsReportNoDrift == FixedSpec => []SafeControlReportsNoDrift
  <1>1. FixedInv => SafeControlReportsNoDrift
    <2> SUFFICES ASSUME FixedInv, node = "end", scenario.has_safe_response
                 PROVE  /\ ~misreader_skill_fired
                        /\ authority_provenance = NoProvenance
                        /\ authority_cause_record = NoCause
                        /\ \A i \in DOMAIN step_traces :
                              /\ ~step_traces[i].misreader_skill_fired
                              /\ ~step_traces[i].checker_ran
                        /\ artifacts = {"classification", "response"}
      BY DEF SafeControlReportsNoDrift
    <2>1. ~InScope
      BY DEF FixedInv, FixedTyped, LoadableScenario, InScope
    <2>2. classification = "out_of_scope"
      BY <2>1 DEF FixedInv, RouteOfTheScenario, ClassificationOf, InScope
    <2>3. safe_response # NoTurn
      BY DEF FixedInv, FixedTyped, FixedTypeOK, ResponseIsTheLastTurn, NoTurn,
             WritingNodes
    <2>4. artifacts = {"classification", "response"}
      BY <2>2, <2>3 DEF FixedInv, ReportOfTheRun, Files
    <2> QED
      BY <2>1, <2>4 DEF FixedInv, NoDriftOutsideTheScope, WritingNodes
  <1> QED
    BY <1>1, FixedInvariant, PTL

(* The checker of a recorded attempt is told the turns the cause stands    *)
(* on: both are read off the turns before the response.                    *)
THEOREM CheckerToldTheHistoryOfTheCause ==
    FixedSpec => []CheckerIsToldTheHistoryOfTheCause
  <1>1. FixedInv => CheckerIsToldTheHistoryOfTheCause
    BY DEF FixedInv, CauseOfTheResponse, CheckOfTheResponse,
           CheckerIsToldTheHistoryOfTheCause
  <1> QED
    BY <1>1, FixedInvariant, PTL

-----------------------------------------------------------------------------
(* The refinement of CauseSide.  Of the nodes after the response, none     *)
(* touches what a run decides by, what it said, or whether it drifted.     *)

(* How a run decides, by cases. *)
LEMMA PolicyByCases ==
    /\ ScenarioPolicy = IF ~InScope
                        THEN IF scenario.has_safe_response THEN "hold" ELSE "silent"
                        ELSE IF UsesAuthorityProvenance THEN "by_history"
                        ELSE IF scenario.selected_skill_id # NoSkill THEN "fire"
                        ELSE "hold"
    /\ ScenarioPolicy \in ScenarioCause!Policies
  BY DEF ScenarioPolicy, InScope, ScenarioCause!Policies

(* Before and after the response there is no, or one, judged attempt.      *)
LEMMA StepsOfTheAuthority ==
    ASSUME FixedInv, [FixedNext]_fixedVars
    PROVE  /\ scenario' = scenario
           /\ \/ authority_provenance' = authority_provenance
              \/ ~InScope
              \/ UsesAuthorityProvenance /\ authority_provenance' # NoProvenance
  <1>1. CASE UNCHANGED fixedVars \/ FixedTerminated
    BY <1>1 DEF FixedTerminated, fixedVars, authorityVars
  <1>2. CASE GenerateSafeResponse
    <2>1. ~InScope
      BY <1>2 DEF GenerateSafeResponse, FixedInv, FixedTyped, RouteOfTheScenario,
                  LoadableScenario, InScope
    <2> QED
      BY <1>2, <2>1 DEF GenerateSafeResponse
  <1>3. CASE GenerateBadResponse
    <2>1. scenario' = scenario
      BY <1>3 DEF GenerateBadResponse
    <2>2. CASE UsesAuthorityProvenance
      <3>1. PICK attempt \in Attempt : JudgeAttempt(attempt)
        BY <1>3, <2>2 DEF GenerateBadResponse
      <3>2. PICK q \in Provenance : authority_provenance' = q
        BY <3>1, JudgeAttemptEffect DEF FixedInv
      <3>3. authority_provenance'.target \in Targets
        BY <3>2 DEF Provenance
      <3>4. authority_provenance' # NoProvenance
        BY <3>3, TargetsAssumption DEF NoProvenance
      <3> QED
        BY <2>1, <2>2, <3>4
    <2>3. CASE ~UsesAuthorityProvenance
      BY <1>3, <2>1, <2>3 DEF GenerateBadResponse, authorityVars
    <2> QED
      BY <2>2, <2>3
  <1>4. CASE LoadScenario \/ Classify \/ TriggerSkill
    BY <1>4 DEF LoadScenario, Classify, TriggerSkill, authorityVars
  <1>5. CASE MaybeCheck \/ CompareChecker \/ Explain
    BY <1>5 DEF MaybeCheck, CompareChecker, Explain, authorityVars
  <1>6. CASE AnalyzeTrace \/ RenderStateTrace \/ WriteArtifacts \/ Finalize
    BY <1>6 DEF AnalyzeTrace, RenderStateTrace, WriteArtifacts, Finalize, authorityVars
  <1>7. CASE NodeRaises
    BY <1>7 DEF NodeRaises, Raises, authorityVars
  <1> QED
    BY <1>1, <1>2, <1>3, <1>4, <1>5, <1>6, <1>7 DEF FixedNext, FixedStep

(* How a run decides never changes. *)
LEMMA ScenarioPolicyIsStable ==
    ASSUME FixedInv, [FixedNext]_fixedVars
    PROVE  ScenarioPolicy' = ScenarioPolicy
  <1>1. scenario' = scenario /\ InScope' = InScope
    BY StepsOfTheAuthority DEF InScope
  <1>2. CASE ~InScope
    BY <1>1, <1>2 DEF ScenarioPolicy, InScope
  <1>3. CASE InScope
    <2>1. FixedInv'
      BY FixedInvInductive
    <2>2. selected_skill_id' = selected_skill_id
      BY <1>1, <1>3, <2>1 DEF FixedInv, SkillOfTheScenario
    <2>3. UsesAuthorityProvenance' = UsesAuthorityProvenance
      BY <1>3, <2>2, StepsOfTheAuthority DEF UsesAuthorityProvenance
    <2> QED
      BY <1>1, <1>3, <2>3 DEF ScenarioPolicy, InScope
  <1> QED
    BY <1>2, <1>3

(* Where the cause side is, node by node. *)
LEMMA PhaseByNodes ==
    /\ node = "load_scenario" => ScenarioPhase = "resting"
    /\ node \in DecidingNodes \ {"load_scenario"} => ScenarioPhase = "deciding"
    /\ node \in ObservingNodes \cup {"write_artifacts", "finalize"} =>
          ScenarioPhase = "decided"
    /\ node \in {"end", "failed"} => ScenarioPhase = "over"
  BY DEF ScenarioPhase, DecidingNodes, ObservingNodes

(* The same of the next state. *)
LEMMA NextPhaseByNodes ==
    /\ node' \in DecidingNodes \ {"load_scenario"} => ScenarioPhase' = "deciding"
    /\ node' \in ObservingNodes \cup {"write_artifacts", "finalize"} =>
          ScenarioPhase' = "decided"
    /\ node' \in {"end", "failed"} => ScenarioPhase' = "over"
  BY DEF ScenarioPhase, DecidingNodes, ObservingNodes

(* Has the drift happened, on the cause side. *)
ScenarioFired == misreader_skill_fired /\ bad_response # NoTurn

(* The graph starts where the cause side starts. *)
LEMMA FixedInitIsCauseInit ==
    ASSUME FixedInit
    PROVE  ScenarioCause!CauseSideInit
  <1>1. messages \in Seq(ScenarioCause!Message)
    BY FixedInitTyped
    DEF FixedTyped, FixedTypeOK, ScenarioCause!Message, ScenarioCause!Speakers,
        Message, Speakers
  <1>2. ScenarioPhase = "resting" /\ ScenarioFired = FALSE
    BY PhaseByNodes DEF FixedInit, ScenarioFired
  <1> QED
    BY <1>1, <1>2, PolicyByCases DEF ScenarioCause!CauseSideInit, ScenarioFired

(* load_scenario is the cause side's deliberation. *)
LEMMA LoadScenarioIsDeliberate ==
    ASSUME FixedInv, LoadScenario
    PROVE  ScenarioCause!Deliberate
  <1>1. ScenarioPolicy' = ScenarioPolicy
    BY ScenarioPolicyIsStable DEF FixedNext, FixedStep
  <1>2. ScenarioPhase = "resting" /\ ScenarioPhase' = "deciding"
    BY Moves, PhaseByNodes, NextPhaseByNodes DEF DecidingNodes
  <1>3. messages' = messages /\ bad_response' = NoTurn
    BY Moves DEF LoadScenario, FixedInv, ResponseIsTheLastTurn, DecidingNodes, textVars
  <1> QED
    BY <1>1, <1>2, <1>3 DEF ScenarioCause!Deliberate

(* classify is a stutter, or the act of a run that says nothing. *)
LEMMA ClassifyIsActOrStutter ==
    ASSUME FixedInv, Classify
    PROVE  ScenarioCause!Act \/ UNCHANGED ScenarioCause!causeSideVars
  <1>1. ScenarioPolicy' = ScenarioPolicy
    BY ScenarioPolicyIsStable DEF FixedNext, FixedStep
  <1>2. /\ node = "classify"
        /\ node' = IF InScope THEN "trigger_skill"
                   ELSE IF scenario.has_safe_response THEN "generate_safe_response"
                   ELSE "write_artifacts"
        /\ UNCHANGED <<messages, misreader_skill_fired, bad_response>>
    BY DEF Classify, ClassificationOf, RouteAfterClassification, InScope, skillVars,
           textVars
  <1>3. bad_response = NoTurn /\ ScenarioPhase = "deciding"
    BY <1>2, PhaseByNodes DEF FixedInv, ResponseIsTheLastTurn, DecidingNodes
  <1>4. CASE InScope \/ scenario.has_safe_response
    <2>1. ScenarioPhase' = "deciding"
      BY <1>2, <1>4, NextPhaseByNodes DEF DecidingNodes
    <2> QED
      BY <1>1, <1>2, <1>3, <2>1 DEF ScenarioCause!causeSideVars
  <1>5. CASE ~InScope /\ ~scenario.has_safe_response
    <2>1. ScenarioPolicy = "silent"
      BY <1>5, PolicyByCases
    <2>2. ScenarioPhase' = "decided"
      BY <1>2, <1>5, NextPhaseByNodes
    <2> QED
      BY <1>1, <1>2, <1>3, <2>1, <2>2 DEF ScenarioCause!Act
  <1> QED
    BY <1>4, <1>5

(* Triggering a skill says nothing yet. *)
LEMMA TriggerSkillIsAStutter ==
    ASSUME FixedInv, TriggerSkill
    PROVE  UNCHANGED ScenarioCause!causeSideVars
  <1>1. ScenarioPolicy' = ScenarioPolicy
    BY ScenarioPolicyIsStable DEF FixedNext, FixedStep
  <1>2. ScenarioPhase = "deciding" /\ ScenarioPhase' = "deciding"
    BY Moves, PhaseByNodes, NextPhaseByNodes DEF DecidingNodes
  <1>3. /\ messages' = messages
        /\ bad_response = NoTurn /\ bad_response' = NoTurn
    BY Moves DEF TriggerSkill, FixedInv, ResponseIsTheLastTurn, DecidingNodes, textVars
  <1> QED
    BY <1>1, <1>2, <1>3 DEF ScenarioCause!causeSideVars

(* The safe response is the act of a run that holds. *)
LEMMA GenerateSafeResponseIsAct ==
    ASSUME FixedInv, GenerateSafeResponse
    PROVE  ScenarioCause!Act
  <1>1. ScenarioPolicy' = ScenarioPolicy
    BY ScenarioPolicyIsStable DEF FixedNext, FixedStep
  <1>2. ScenarioPhase = "deciding" /\ ScenarioPhase' = "decided"
    BY Moves, PhaseByNodes, NextPhaseByNodes DEF DecidingNodes
  <1>3. ~InScope /\ scenario.has_safe_response
    BY DEF GenerateSafeResponse, FixedInv, FixedTyped, RouteOfTheScenario,
           LoadableScenario, InScope
  <1>4. ScenarioPolicy = "hold"
    BY <1>3, PolicyByCases
  <1>5. \E c \in Contents :
           messages' = Append(messages, [speaker |-> "agent", content |-> c])
    BY DEF GenerateSafeResponse, Respond
  <1>6. misreader_skill_fired' = FALSE
    BY DEF GenerateSafeResponse
  <1> QED
    BY <1>1, <1>2, <1>4, <1>5, <1>6 DEF ScenarioCause!Act

(* The drifting response is the act of every run in scope: judged by       *)
(* history, it fires only on top of an ungranted agent proposal.           *)
LEMMA GenerateBadResponseIsAct ==
    ASSUME FixedInv, GenerateBadResponse
    PROVE  ScenarioCause!Act
  <1>1. ScenarioPolicy' = ScenarioPolicy
    BY ScenarioPolicyIsStable DEF FixedNext, FixedStep
  <1>2. ScenarioPhase = "deciding" /\ ScenarioPhase' = "decided"
    BY Moves, PhaseByNodes, NextPhaseByNodes DEF DecidingNodes, ObservingNodes
  <1>3. InScope /\ node = "generate_bad_response"
    BY DEF GenerateBadResponse, FixedInv, RouteOfTheScenario
  <1>4. \E c \in Contents :
           messages' = Append(messages, [speaker |-> "agent", content |-> c])
    BY DEF GenerateBadResponse, Respond
  <1>5. messages \in Seq(Message) /\ bad_response' # NoTurn
    BY DEF GenerateBadResponse, FixedInv, FixedTyped, FixedTypeOK, NoTurn
  <1>6. CASE UsesAuthorityProvenance
    <2>1. ScenarioPolicy = "by_history"
      BY <1>3, <1>6, PolicyByCases
    <2>2. PICK attempt \in Attempt : JudgeAttempt(attempt)
      BY <1>6 DEF GenerateBadResponse
    <2>3. PICK turn \in Nat :
             misreader_skill_fired' =
                IsLaundering(EvaluateAttempt(
                   DeriveProvenance(messages, DefaultTarget), attempt, turn))
      BY <2>2, JudgeAttemptEffect DEF FixedInv
    <2>4. misreader_skill_fired' =
             (/\ attempt = DefaultTarget
              /\ ProposalTurns(messages, DefaultTarget) # {}
              /\ GrantTurns(messages, DefaultTarget) = {})
      BY <1>5, <2>3, VerdictOfAnAttempt DEF IsLaundering
    <2>5. (misreader_skill_fired' /\ bad_response' # NoTurn)
             \in {ScenarioCause!Launderable(messages), FALSE}
      BY <1>5, <2>4
      DEF ScenarioCause!Launderable, ScenarioCause!ProposalTurns, ProposalTurns,
          ScenarioCause!GrantTurns, GrantTurns, ScenarioCause!DefaultTarget,
          DefaultTarget
    <2> QED
      BY <1>1, <1>2, <1>4, <2>1, <2>5 DEF ScenarioCause!Act
  <1>7. CASE ~UsesAuthorityProvenance
    <2>1. /\ misreader_skill_fired' = misreader_skill_fired
          /\ misreader_skill_fired <=> scenario.selected_skill_id # NoSkill
      BY <1>3, <1>7 DEF GenerateBadResponse, FixedInv, SkillOfTheScenario
    <2>2. CASE scenario.selected_skill_id # NoSkill
      <3>1. ScenarioPolicy = "fire"
        BY <1>3, <1>7, <2>2, PolicyByCases
      <3> QED
        BY <1>1, <1>2, <1>4, <1>5, <2>1, <2>2, <3>1 DEF ScenarioCause!Act
    <2>3. CASE scenario.selected_skill_id = NoSkill
      <3>1. ScenarioPolicy = "hold"
        BY <1>3, <1>7, <2>3, PolicyByCases
      <3> QED
        BY <1>1, <1>2, <1>4, <2>1, <2>3, <3>1 DEF ScenarioCause!Act
    <2> QED
      BY <2>2, <2>3
  <1> QED
    BY <1>6, <1>7

(* Nothing after the response is visible on the cause side. *)
LEMMA ObservingIsAStutter ==
    ASSUME FixedInv,
           MaybeCheck \/ CompareChecker \/ Explain \/ AnalyzeTrace \/ RenderStateTrace
    PROVE  UNCHANGED ScenarioCause!causeSideVars
  <1>1. ScenarioPolicy' = ScenarioPolicy
    BY ScenarioPolicyIsStable DEF FixedNext, FixedStep
  <1>2. ScenarioPhase = "decided" /\ ScenarioPhase' = "decided"
    BY Moves, PhaseByNodes, NextPhaseByNodes DEF ObservingNodes
  <1>3. UNCHANGED <<messages, misreader_skill_fired, bad_response>>
    BY DEF MaybeCheck, CompareChecker, Explain, AnalyzeTrace, RenderStateTrace,
           textVars, skillVars
  <1> QED
    BY <1>1, <1>2, <1>3 DEF ScenarioCause!causeSideVars

(* Writing is a stutter, finalizing settles the run. *)
LEMMA LastNodesSettle ==
    ASSUME FixedInv, WriteArtifacts \/ Finalize
    PROVE  [ScenarioCause!CauseSideNext]_(ScenarioCause!causeSideVars)
  <1>1. ScenarioPolicy' = ScenarioPolicy
    BY ScenarioPolicyIsStable DEF FixedNext, FixedStep
  <1>2. ScenarioPhase = "decided" /\ ScenarioPhase' \in {"decided", "over"}
    BY Moves, PhaseByNodes, NextPhaseByNodes
  <1>3. UNCHANGED <<messages, misreader_skill_fired, bad_response>>
    BY DEF WriteArtifacts, Finalize, textVars, skillVars
  <1> QED
    BY <1>1, <1>2, <1>3
    DEF ScenarioCause!CauseSideNext, ScenarioCause!Settle, ScenarioCause!causeSideVars

(* A node that raises ends the cause side too. *)
LEMMA NodeRaisesIsBreakOff ==
    ASSUME FixedInv, NodeRaises
    PROVE  ScenarioCause!BreakOff
  <1>1. ScenarioPolicy' = ScenarioPolicy
    BY ScenarioPolicyIsStable DEF FixedNext, FixedStep
  <1>2. /\ node \in {"trigger_skill", "generate_bad_response", "maybe_check",
                     "analyze_trace"}
        /\ node' = "failed"
        /\ UNCHANGED <<messages, misreader_skill_fired, bad_response>>
    BY DEF NodeRaises, Raises, textVars, skillVars
  <1>3. ScenarioPhase \in {"deciding", "decided"} /\ ScenarioPhase' = "over"
    BY <1>2, PhaseByNodes, NextPhaseByNodes DEF DecidingNodes, ObservingNodes
  <1> QED
    BY <1>1, <1>2, <1>3 DEF ScenarioCause!BreakOff

(* Every step of the graph is a step or a stutter of the cause side. *)
LEMMA FixedNextImplementsCauseNext ==
    ASSUME FixedInv, [FixedNext]_fixedVars
    PROVE  [ScenarioCause!CauseSideNext]_(ScenarioCause!causeSideVars)
  <1>1. CASE UNCHANGED fixedVars \/ FixedTerminated
    <2>1. UNCHANGED <<node, messages, misreader_skill_fired, bad_response>>
      BY <1>1 DEF FixedTerminated, fixedVars, textVars, skillVars
    <2>2. ScenarioPhase' = ScenarioPhase
      BY <2>1 DEF ScenarioPhase
    <2> QED
      BY <2>1, <2>2, ScenarioPolicyIsStable DEF ScenarioCause!causeSideVars
  <1>2. CASE LoadScenario
    BY <1>2, LoadScenarioIsDeliberate DEF ScenarioCause!CauseSideNext
  <1>3. CASE Classify
    BY <1>3, ClassifyIsActOrStutter DEF ScenarioCause!CauseSideNext
  <1>4. CASE GenerateSafeResponse \/ GenerateBadResponse
    BY <1>4, GenerateSafeResponseIsAct, GenerateBadResponseIsAct
    DEF ScenarioCause!CauseSideNext
  <1>5. CASE TriggerSkill
    BY <1>5, TriggerSkillIsAStutter
  <1>6. CASE MaybeCheck \/ CompareChecker \/ Explain \/ AnalyzeTrace
             \/ RenderStateTrace
    BY <1>6, ObservingIsAStutter
  <1>7. CASE WriteArtifacts \/ Finalize
    BY <1>7, LastNodesSettle
  <1>8. CASE NodeRaises
    BY <1>8, NodeRaisesIsBreakOff DEF ScenarioCause!CauseSideNext
  <1> QED
    BY <1>1, <1>2, <1>3, <1>4, <1>5, <1>6, <1>7, <1>8 DEF FixedNext, FixedStep

(* The fixed-scenario graph implements CauseSide: what fires and what is   *)
(* said is decided by the cause side alone.                                *)
THEOREM FixedGraphImplementsCauseSide == FixedSpec => FixedImplementsCauseSide
  <1>1. FixedInit => ScenarioCause!CauseSideInit
    BY FixedInitIsCauseInit
  <1>2. FixedInv /\ [FixedNext]_fixedVars =>
           [ScenarioCause!CauseSideNext]_(ScenarioCause!causeSideVars)
    BY FixedNextImplementsCauseNext
  <1> QED
    BY <1>1, <1>2, InitFixedInv, FixedInvInductive, PTL
    DEF FixedSpec, FixedImplementsCauseSide, ScenarioCause!CauseSideSpec

-----------------------------------------------------------------------------
(* The event stream: the inductive invariant, part by part. *)

FixedEvents ==
    [kind : {"phase"}, phase : {"plan", "do", "check", "explain"}]
    \cup [kind : {"text"}, turn : Nat]
    \cup [kind : {"cause"}, misreader_skill_fired : BOOLEAN,
          authority_provenance : Provenance \cup {NoProvenance},
          attempted : BOOLEAN]
    \cup [kind : {"checker"}, checker_ran : BOOLEAN,
          checker_observed_bypass : BOOLEAN, substituted : Substituted]
    \cup [kind : {"explain"}, status : {"provided", "refused", "unavailable"}]
    \cup [kind : {"completed"}, observation_outcome : Outcomes \cup {"none"},
          artifact_names : SUBSET {"classification", "response", "trace",
                                   "state_trace", "checker",
                                   "checker_comparison", "explanation"}]

Shown(kind) == Stream!Places(stream, kind)

StreamTyped ==
    /\ stream \in Stream!StreamOf(FixedEvents)
    /\ stream_status \in {"open", "completed", "raised"}
    /\ stream_status = "raised" => node = "failed"
    /\ stream_status = "completed" => node = "end"

(* Only steps that are there have been dealt with, and after each node but *)
(* the first check the last of them has.                                   *)
StepsAreDealtWith ==
    /\ stream.emitted_step_indexes \subseteq 0 .. (Len(step_traces) - 1)
    /\ node \notin {"load_scenario", "compare_checker", "failed"} =>
          Stream!DealtWith(stream, LatestTrace)

(* The comparison is made once, in scope, and shown when it is.            *)
ComparedOnce ==
    /\ ~InScope \/ node \in DecidingNodes \cup {"maybe_check", "compare_checker"} =>
          observation_outcome = "none"
    /\ InScope /\ node \in {"explain", "analyze_trace", "render_state_trace"}
                           \cup WritingNodes =>
          observation_outcome # "none"
    /\ stream.checker_emitted = TRUE <=> observation_outcome # "none"

AxisOfTheScenario == substituted = scenario.expected_substituted

(* What is shown is what the state holds, each stage once it is there. *)
ResponseIsShown ==
    IF EmittedResponse = NoTurn THEN Shown("text") = {} /\ Shown("cause") = {}
    ELSE /\ Stream!IsTheOnly(stream, Stream!Text(Len(messages)))
         /\ Stream!IsTheOnly(stream, ShownCause)

CheckerIsShown ==
    IF observation_outcome = "none" THEN Shown("checker") = {}
    ELSE Stream!IsTheOnly(stream, ShownChecker)

ExplanationIsShown ==
    IF self_explanation = "none" THEN Shown("explain") = {}
    ELSE Stream!IsTheOnly(stream, Stream!Explanation(self_explanation))

StagesAreShown ==
    /\ ResponseIsShown
    /\ CheckerIsShown
    /\ ExplanationIsShown
    /\ stream_status # "completed" => Shown("completed") = {}
    /\ Stream!InCausalOrder(stream)

FixedClientInv ==
    /\ StreamTyped
    /\ StepsAreDealtWith
    /\ ComparedOnce
    /\ AxisOfTheScenario
    /\ StagesAreShown

-----------------------------------------------------------------------------
(* What a step adds to the stream. *)

(* What StreamProjection assumes of its constants holds of its instance. *)
LEMMA StreamInstance ==
    /\ Contents \subseteq [proposes : SUBSET Targets, grants : SUBSET Targets]
    /\ Stream!DefaultTarget \in Targets
    /\ Stream!NoTarget \notin Targets
  BY TargetsAssumption, ContentsAssumption
     DEF Stream!DefaultTarget, DefaultTarget, Stream!NoTarget, NoTarget

ShownTyped ==
    /\ ShownCause \in FixedEvents /\ ShownCause.kind = "cause"
    /\ ShownChecker \in FixedEvents /\ ShownChecker.kind = "checker"
    /\ Stream!Text(Len(messages)) \in FixedEvents
    /\ EmittedResponse \in Nat

(* What is shown of a state is of the types of the events. *)
LEMMA ShownTypes == FixedTyped => ShownTyped
  <1> SUFFICES ASSUME FixedTyped
               PROVE  ShownTyped
    OBVIOUS
  <1>1. /\ misreader_skill_fired \in BOOLEAN
        /\ authority_provenance \in Provenance \cup {NoProvenance}
        /\ authority_cause_record.provenance \in Provenance \cup {NoProvenance}
        /\ checker_observation \in Observation \cup {NoObservation}
        /\ substituted \in Substituted
        /\ messages \in Seq(Message)
        /\ {bad_response, safe_response} \subseteq {NoTurn} \cup DOMAIN messages
    BY DEF FixedTyped, FixedTypeOK, CauseRecord
  <1>2. ShownCause \in FixedEvents /\ ShownCause.kind = "cause"
    BY <1>1 DEF ShownCause, Stream!Cause, Stream!ShownProvenance, FixedEvents
  <1>3. /\ checker_observation.ran \in BOOLEAN /\ checker_observation.bypass \in BOOLEAN
        /\ checker_observation.substituted \in Substituted
    BY <1>1, ObservationType
  <1>4. ShownChecker \in FixedEvents /\ ShownChecker.kind = "checker"
    BY <1>1, <1>3 DEF ShownChecker, Stream!Checker, FixedEvents
  <1>5. Len(messages) \in Nat
    BY <1>1
  <1>6. Stream!Text(Len(messages)) \in FixedEvents
    BY <1>5 DEF Stream!Text, FixedEvents
  <1>7. EmittedResponse \in Nat
    BY <1>1 DEF EmittedResponse, NoTurn
  <1> QED
    BY <1>2, <1>4, <1>6, <1>7 DEF ShownTyped

(* A phase, an explanation and the end are events. *)
LEMMA OtherEvents ==
    /\ \A p \in {"plan", "do", "check", "explain"} :
          Stream!Phase(p) \in FixedEvents /\ Stream!Phase(p).kind = "phase"
    /\ \A status \in {"provided", "refused", "unavailable"} :
          /\ Stream!Explanation(status) \in FixedEvents
          /\ Stream!Explanation(status).kind = "explain"
    /\ \A turn : Stream!Text(turn).kind = "text"
    /\ FixedTyped =>
          /\ Stream!Completed(observation_outcome, artifacts) \in FixedEvents
          /\ Stream!Completed(observation_outcome, artifacts).kind = "completed"
  <1>1. \A p \in {"plan", "do", "check", "explain"} :
           Stream!Phase(p) \in FixedEvents /\ Stream!Phase(p).kind = "phase"
    BY DEF Stream!Phase, FixedEvents
  <1>2. \A status \in {"provided", "refused", "unavailable"} :
           /\ Stream!Explanation(status) \in FixedEvents
           /\ Stream!Explanation(status).kind = "explain"
    BY DEF Stream!Explanation, FixedEvents
  <1>3. \A turn : Stream!Text(turn).kind = "text"
    BY DEF Stream!Text
  <1>4. FixedTyped =>
           /\ Stream!Completed(observation_outcome, artifacts) \in FixedEvents
           /\ Stream!Completed(observation_outcome, artifacts).kind = "completed"
    BY DEF Stream!Completed, FixedEvents, FixedTyped, FixedTypeOK
  <1> QED
    BY <1>1, <1>2, <1>3, <1>4

(* An event has one of six kinds. *)
LEMMA KindsOfEvents ==
    \A e \in FixedEvents :
        e.kind \in {"phase", "text", "cause", "checker", "explain", "completed"}
  BY DEF FixedEvents

(* A step that leaves a trace has not been dealt with when it is projected. *)
LEMMA NewStepIsProjected ==
    ASSUME FixedTyped, StepsAreDealtWith,
           NEW kind \in {"plan", "do", "check", "explain"},
           NEW fired, NEW ran, NEW bypass, NEW axis,
           StepUpdate(kind, fired, ran, bypass, axis)
    PROVE  /\ Len(step_traces) \in Nat
           /\ Len(step_traces') = Len(step_traces) + 1
           /\ LatestTrace'.step_kind = kind
           /\ LatestTrace'.step_index = Len(step_traces)
           /\ ~Stream!DealtWith(stream, LatestTrace')
  <1> DEFINE t == [step_index |-> step_index, step_kind |-> kind,
                   misreader_skill_fired |-> fired, checker_ran |-> ran,
                   checker_observed_bypass |-> bypass,
                   substituted |-> IF axis \in Axes THEN axis ELSE "none"]
  <1>1. t.step_index = step_index /\ t.step_kind = kind
    OBVIOUS
  <1>2. step_traces' = Append(step_traces, t)
    BY DEF StepUpdate
  <1>3. step_traces \in Seq(FixedStepTrace) /\ step_index = Len(step_traces)
    BY DEF FixedTyped, FixedTypeOK
  <1> HIDE DEF t
  <1>4. /\ Len(step_traces) \in Nat
        /\ Len(step_traces') = Len(step_traces) + 1
        /\ step_traces'[Len(step_traces')] = t
    BY <1>2, <1>3
  <1>5. LatestTrace' = t
    BY <1>4 DEF LatestTrace
  <1>6. ~Stream!DealtWith(stream, LatestTrace')
    BY <1>1, <1>3, <1>4, <1>5 DEF StepsAreDealtWith, Stream!DealtWith
  <1> QED
    BY <1>1, <1>3, <1>4, <1>5, <1>6

(* A step that is emitted is dealt with, and no step after it is.          *)
LEMMA EmittedStep ==
    ASSUME StreamTyped, StepsAreDealtWith, NEW new \in Seq(FixedEvents),
           Len(step_traces) \in Nat, Len(step_traces') = Len(step_traces) + 1,
           LatestTrace'.step_index = Len(step_traces),
           stream' = Stream!Emit(stream, LatestTrace', new)
    PROVE  /\ stream' \in Stream!StreamOf(FixedEvents)
           /\ Stream!Adds(FixedEvents, stream, stream', new)
           /\ StepsAreDealtWith'
           /\ stream'.checker_emitted = stream.checker_emitted
  <1> DEFINE t == LatestTrace'
  <1>1. t.step_index \in Nat /\ stream' = Stream!Emit(stream, t, new)
    OBVIOUS
  <1>2. t.step_index = Len(step_traces)
    OBVIOUS
  <1>3. stream \in Stream!StreamOf(FixedEvents)
    BY DEF StreamTyped
  <1> HIDE DEF t
  <1>4. /\ stream' \in Stream!StreamOf(FixedEvents)
        /\ Stream!Adds(FixedEvents, stream, stream', new)
        /\ stream'.emitted_step_indexes =
              stream.emitted_step_indexes \cup {t.step_index}
        /\ stream'.checker_emitted = stream.checker_emitted
    BY <1>1, <1>3, StreamInstance, Stream!EmitAdds
  <1>5. stream'.emitted_step_indexes \subseteq 0 .. (Len(step_traces') - 1)
    BY <1>2, <1>4 DEF StepsAreDealtWith
  <1>6. Stream!DealtWith(stream', t)
    BY <1>4 DEF Stream!DealtWith
  <1>7. StepsAreDealtWith'
    BY <1>5, <1>6 DEF StepsAreDealtWith, t
  <1> QED
    BY <1>4, <1>7

-----------------------------------------------------------------------------
(* The stages that are shown, by what a step adds. *)

(* Nothing that was shown, or that is shown once it is there, changes. *)
NothingNewIsSeen ==
    /\ EmittedResponse' = EmittedResponse
    /\ EmittedResponse # NoTurn => messages' = messages /\ ShownCause' = ShownCause
    /\ observation_outcome' = observation_outcome
    /\ observation_outcome # "none" => ShownChecker' = ShownChecker
    /\ self_explanation' = self_explanation

(* The response stays shown if no text and no cause is added. *)
LEMMA ResponseStaysShown ==
    ASSUME FixedTyped, ResponseIsShown, EmittedResponse' = EmittedResponse,
           EmittedResponse # NoTurn => messages' = messages /\ ShownCause' = ShownCause,
           Stream!Keeps(stream, stream', "text"), Stream!Keeps(stream, stream', "cause")
    PROVE  ResponseIsShown'
  <1>1. CASE EmittedResponse = NoTurn
    BY <1>1 DEF ResponseIsShown, Shown, Stream!Keeps
  <1>2. CASE EmittedResponse # NoTurn
    <2> DEFINE text == Stream!Text(Len(messages))
               cause == ShownCause
    <2>1. /\ Stream!IsTheOnly(stream, text) /\ Stream!IsTheOnly(stream, cause)
          /\ text.kind = "text" /\ cause.kind = "cause"
      BY <1>2, ShownTypes, OtherEvents DEF ShownTyped, ResponseIsShown
    <2>2. Stream!Text(Len(messages))' = text /\ ShownCause' = cause
      BY <1>2
    <2> HIDE DEF text, cause
    <2>3. Stream!IsTheOnly(stream', text)
      BY <2>1, StreamInstance, Stream!LastStays
    <2>4. Stream!IsTheOnly(stream', cause)
      BY <2>1, StreamInstance, Stream!LastStays
    <2> QED
      BY <1>2, <2>2, <2>3, <2>4 DEF ResponseIsShown
  <1> QED
    BY <1>1, <1>2

(* So does what the checker found, and what the agent said. *)
LEMMA CheckerStaysShown ==
    ASSUME FixedTyped, CheckerIsShown, observation_outcome' = observation_outcome,
           observation_outcome # "none" => ShownChecker' = ShownChecker,
           Stream!Keeps(stream, stream', "checker")
    PROVE  CheckerIsShown'
  <1>1. CASE observation_outcome = "none"
    BY <1>1 DEF CheckerIsShown, Shown, Stream!Keeps
  <1>2. CASE observation_outcome # "none"
    <2> DEFINE e == ShownChecker
    <2>1. Stream!IsTheOnly(stream, e) /\ e.kind = "checker"
      BY <1>2, ShownTypes DEF ShownTyped, CheckerIsShown
    <2>2. ShownChecker' = e
      BY <1>2
    <2> HIDE DEF e
    <2>3. Stream!IsTheOnly(stream', e)
      BY <2>1, StreamInstance, Stream!LastStays
    <2> QED
      BY <1>2, <2>2, <2>3 DEF CheckerIsShown
  <1> QED
    BY <1>1, <1>2

(* An explanation that was shown stays shown. *)
LEMMA ExplanationStaysShown ==
    ASSUME FixedTyped, ExplanationIsShown, self_explanation' = self_explanation,
           Stream!Keeps(stream, stream', "explain")
    PROVE  ExplanationIsShown'
  <1>1. CASE self_explanation = "none"
    BY <1>1 DEF ExplanationIsShown, Shown, Stream!Keeps
  <1>2. CASE self_explanation # "none"
    <2> DEFINE e == Stream!Explanation(self_explanation)
    <2>1. Stream!IsTheOnly(stream, e) /\ e.kind = "explain"
      BY <1>2 DEF ExplanationIsShown, Stream!Explanation
    <2>2. Stream!Explanation(self_explanation)' = e
      OBVIOUS
    <2> HIDE DEF e
    <2>3. Stream!IsTheOnly(stream', e)
      BY <2>1, StreamInstance, Stream!LastStays
    <2> QED
      BY <1>2, <2>2, <2>3 DEF ExplanationIsShown
  <1> QED
    BY <1>1, <1>2

(* A step that shows nothing keeps the stages. *)
LEMMA QuietStepKeepsStages ==
    ASSUME FixedTyped, StagesAreShown, NothingNewIsSeen,
           stream'.events = stream.events,
           stream_status' # "completed" => stream_status # "completed"
    PROVE  StagesAreShown'
  <1>1. /\ Stream!Keeps(stream, stream', "text")
        /\ Stream!Keeps(stream, stream', "cause")
        /\ Stream!Keeps(stream, stream', "checker")
        /\ Stream!Keeps(stream, stream', "explain")
        /\ Stream!Keeps(stream, stream', "completed")
    BY StreamInstance, Stream!NothingAddedKeeps
  <1>2. ResponseIsShown' /\ CheckerIsShown' /\ ExplanationIsShown'
    BY <1>1, ResponseStaysShown, CheckerStaysShown, ExplanationStaysShown
       DEF StagesAreShown, NothingNewIsSeen
  <1>3. stream_status' # "completed" => Shown("completed")' = {}
    BY <1>1 DEF StagesAreShown, Shown, Stream!Keeps
  <1>4. Stream!InCausalOrder(stream')
    BY DEF StagesAreShown, Stream!InCausalOrder
  <1> QED
    BY <1>2, <1>3, <1>4 DEF StagesAreShown

(* The kinds that are not shown are not those of the events there are. *)
LEMMA KindsShown ==
    ASSUME StreamTyped
    PROVE  \A i \in DOMAIN stream.events :
              /\ stream.events[i].kind \in
                    {"phase", "text", "cause", "checker", "explain", "completed"}
              /\ \A kind : Shown(kind) = {} => stream.events[i].kind # kind
  <1> TAKE i \in DOMAIN stream.events
  <1>1. stream.events \in Seq(FixedEvents)
    BY DEF StreamTyped, Stream!StreamOf
  <1>2. stream.events[i] \in FixedEvents
    BY <1>1
  <1> QED
    BY <1>2, KindsOfEvents DEF Shown, Stream!Places

(* A response is shown with its cause when there was neither. *)
LEMMA DoShowsTheResponse ==
    ASSUME FixedTyped', StreamTyped, StagesAreShown, stream_status # "completed",
           EmittedResponse = NoTurn, observation_outcome = "none",
           self_explanation = "none",
           EmittedResponse' # NoTurn, observation_outcome' = "none",
           self_explanation' = "none",
           Stream!Adds(FixedEvents, stream, stream',
                       <<Stream!Phase("do"), Stream!Text(Len(messages)'), ShownCause'>>)
    PROVE  StagesAreShown'
  <1> DEFINE phase == Stream!Phase("do")
             text == Stream!Text(Len(messages)')
             cause == ShownCause'
             new == <<phase, text, cause>>
  <1>1. ShownCause'.kind = "cause"
    BY DEF ShownCause, Stream!Cause
  <1>2. phase.kind = "phase" /\ text.kind = "text" /\ cause.kind = "cause"
    BY <1>1, OtherEvents
  <1>3. Stream!Adds(FixedEvents, stream, stream', new)
    OBVIOUS
  <1>4. Stream!Text(Len(messages))' = text /\ ShownCause' = cause
    OBVIOUS
  <1>5. /\ Shown("text") = {} /\ Shown("cause") = {} /\ Shown("checker") = {}
        /\ Shown("explain") = {} /\ Shown("completed") = {}
        /\ Stream!InCausalOrder(stream)
    BY DEF StagesAreShown, ResponseIsShown, CheckerIsShown, ExplanationIsShown
  <1> HIDE DEF phase, text, cause
  <1>6. Len(new) = 3 /\ new[1] = phase /\ new[2] = text /\ new[3] = cause
    OBVIOUS
  <1> HIDE DEF new
  <1>7. \A i \in 1..Len(new) : i = 1 \/ i = 2 \/ i = 3
    <2>1. \A i \in 1..3 : i = 1 \/ i = 2 \/ i = 3
      OBVIOUS
    <2> QED
      BY <1>6, <2>1
  <1>8. Stream!IsTheOnly(stream', text) /\ Stream!IsTheOnly(stream', cause)
    <2>1. Stream!NewAt(new, 2, text) /\ Stream!NewAt(new, 3, cause)
      BY <1>2, <1>6, <1>7 DEF Stream!NewAt
    <2>2. Stream!IsTheOnly(stream', text)
      BY <1>2, <1>3, <1>5, <2>1, StreamInstance, Stream!AddedIsTheOnly DEF Shown
    <2>3. Stream!IsTheOnly(stream', cause)
      BY <1>2, <1>3, <1>5, <2>1, StreamInstance, Stream!AddedIsTheOnly DEF Shown
    <2> QED
      BY <2>2, <2>3
  <1>9. \A i \in 1..Len(new) : new[i].kind \in {"phase", "text", "cause"}
    BY <1>2, <1>6, <1>7
  <1>10. /\ Stream!Keeps(stream, stream', "checker")
         /\ Stream!Keeps(stream, stream', "explain")
         /\ Stream!Keeps(stream, stream', "completed")
    BY <1>3, <1>9, StreamInstance, Stream!OthersKeep
  <1>11. Stream!InCausalOrder(stream')
    <2>1. \A i, j \in 1..Len(new) : i < j => Stream!Precedes(new[i], new[j])
      BY <1>2, <1>6, <1>7 DEF Stream!Precedes, Stream!Rank
    <2>2. \A i \in DOMAIN stream.events : stream.events[i].kind = "phase"
      BY <1>5, KindsShown
    <2>3. \A i \in DOMAIN stream.events, j \in 1..Len(new) :
             Stream!Precedes(stream.events[i], new[j])
      BY <2>2 DEF Stream!Precedes
    <2> QED
      BY <1>3, <1>5, <2>1, <2>3, StreamInstance, Stream!OrderIsKept
  <1>12. ResponseIsShown'
    BY <1>4, <1>8 DEF ResponseIsShown
  <1>13. CheckerIsShown' /\ ExplanationIsShown' /\ Shown("completed")' = {}
    BY <1>5, <1>10 DEF CheckerIsShown, ExplanationIsShown, Shown, Stream!Keeps
  <1> QED
    BY <1>11, <1>12, <1>13 DEF StagesAreShown

(* The kinds that come after a stage. *)
Later(kind) ==
    CASE kind = "checker" -> {"checker", "explain", "completed"}
      [] kind = "explain" -> {"explain", "completed"}
      [] kind = "completed" -> {"completed"}

(* One more stage is the only one of its kind, leaves the others as they   *)
(* are and keeps the order, if no stage that comes after it is there.      *)
LEMMA NextStage ==
    ASSUME StreamTyped, NEW new, NEW e, NEW k,
           Stream!Adds(FixedEvents, stream, stream', new),
           Stream!InCausalOrder(stream),
           e.kind \in {"checker", "explain", "completed"},
           Stream!NewAt(new, k, e),
           \A i \in 1..Len(new) : i # k => new[i].kind = "phase",
           \A kind \in Later(e.kind) : Shown(kind) = {}
    PROVE  /\ Stream!IsTheOnly(stream', e)
           /\ \A kind : kind # "phase" /\ kind # e.kind =>
                 Stream!Keeps(stream, stream', kind)
           /\ Stream!InCausalOrder(stream')
  <1>1. Shown(e.kind) = {}
    BY DEF Later
  <1>2. /\ k \in 1..Len(new) /\ new[k] = e
        /\ \A i \in 1..Len(new) : i = k \/ new[i].kind = "phase"
    BY DEF Stream!NewAt
  <1>3. Stream!IsTheOnly(stream', e)
    BY <1>1, StreamInstance, Stream!AddedIsTheOnly DEF Shown
  <1>4. ASSUME NEW kind, kind # "phase", kind # e.kind
        PROVE  Stream!Keeps(stream, stream', kind)
    <2>1. \A i \in 1..Len(new) : new[i].kind # kind
      BY <1>2, <1>4
    <2> QED
      BY <2>1, StreamInstance, Stream!OthersKeep
  <1>5. Stream!InCausalOrder(stream')
    <2>1. Len(new) \in Nat
      BY DEF Stream!Adds
    <2>2. \A i, j \in 1..Len(new) : i < j => Stream!Precedes(new[i], new[j])
      <3> SUFFICES ASSUME NEW i \in 1..Len(new), NEW j \in 1..Len(new), i < j
                   PROVE  Stream!Precedes(new[i], new[j])
        OBVIOUS
      <3>1. i # k \/ j # k
        BY <2>1
      <3> QED
        BY <1>2, <3>1 DEF Stream!Precedes
    <2>3. \A i \in DOMAIN stream.events, j \in 1..Len(new) :
             Stream!Precedes(stream.events[i], new[j])
      <3> SUFFICES ASSUME NEW i \in DOMAIN stream.events, NEW j \in 1..Len(new)
                   PROVE  Stream!Precedes(stream.events[i], new[j])
        OBVIOUS
      <3> DEFINE f == stream.events[i]
      <3>1. /\ f.kind \in {"phase", "text", "cause", "checker", "explain", "completed"}
            /\ f.kind \notin Later(e.kind)
        BY KindsShown
      <3>2. new[j].kind = "phase" \/ new[j].kind = e.kind
        BY <1>2
      <3> HIDE DEF f
      <3>3. f.kind # "phase" => Stream!Rank[f.kind] < Stream!Rank[e.kind]
        BY <3>1 DEF Later, Stream!Rank
      <3>4. Stream!Precedes(f, new[j])
        BY <3>2, <3>3 DEF Stream!Precedes
      <3> QED
        BY <3>4 DEF f
    <2> QED
      BY <2>2, <2>3, StreamInstance, Stream!OrderIsKept
  <1> QED
    BY <1>3, <1>4, <1>5

-----------------------------------------------------------------------------
(* The invariant of the stream, action by action. *)

(* A step of a plan is dealt with and not shown. *)
LEMMA PlanIsNotShown ==
    ASSUME FixedTyped, StreamTyped, StepsAreDealtWith,
           NEW fired, NEW ran, NEW bypass, NEW axis,
           StepUpdate("plan", fired, ran, bypass, axis), stream' = ProjectTheNewState
    PROVE  /\ stream' \in Stream!StreamOf(FixedEvents)
           /\ stream'.events = stream.events
           /\ StepsAreDealtWith'
           /\ stream'.checker_emitted = stream.checker_emitted
  <1> DEFINE new == <<>>
             l == LatestTrace'
             v == View'
  <1>1. /\ Len(step_traces) \in Nat
        /\ Len(step_traces') = Len(step_traces) + 1
        /\ l.step_kind = "plan"
        /\ l.step_index = Len(step_traces)
        /\ ~Stream!DealtWith(stream, l)
    BY NewStepIsProjected
  <1>2. stream' = Stream!Emit(stream, l, new)
    <2>1. stream' = Stream!ProjectStateProgress(stream, l, v)
      BY DEF ProjectTheNewState
    <2> HIDE DEF l, v
    <2> QED
      BY <1>1, <2>1, StreamInstance, Stream!PlanIsProjected
  <1>3. new \in Seq(FixedEvents) /\ stream.events \o new = stream.events
    BY DEF StreamTyped, Stream!StreamOf
  <1> HIDE DEF new
  <1> QED
    BY <1>1, <1>2, <1>3, EmittedStep DEF Stream!Adds

(* A state without a new step trace is not shown. *)
LEMMA NoStepIsNotShown ==
    ASSUME StepsAreDealtWith, step_traces' = step_traces,
           node \notin {"load_scenario", "compare_checker", "failed"},
           stream' = ProjectTheNewState
    PROVE  stream' = stream /\ StepsAreDealtWith'
  <1> DEFINE l == LatestTrace'
             v == View'
  <1>1. stream' = Stream!ProjectStateProgress(stream, l, v)
    BY DEF ProjectTheNewState
  <1>2. l = LatestTrace
    BY DEF LatestTrace
  <1>3. Stream!DealtWith(stream, l)
    BY <1>2 DEF StepsAreDealtWith
  <1> HIDE DEF l, v
  <1>4. stream' = stream
    BY <1>1, <1>3, StreamInstance, Stream!AlreadyDealtWith
  <1>5. stream'.emitted_step_indexes \subseteq 0 .. (Len(step_traces') - 1)
    BY <1>4 DEF StepsAreDealtWith
  <1>6. Stream!DealtWith(stream', LatestTrace')
    BY <1>3, <1>4 DEF l
  <1> QED
    BY <1>4, <1>5, <1>6 DEF StepsAreDealtWith

(* A step of do is shown with its response and its cause. *)
LEMMA DoIsShown ==
    ASSUME FixedTyped, FixedTyped', StreamTyped, StepsAreDealtWith,
           NEW fired, NEW ran, NEW bypass, NEW axis,
           StepUpdate("do", fired, ran, bypass, axis), stream' = ProjectTheNewState,
           EmittedResponse' = Len(messages)', EmittedResponse' # NoTurn
    PROVE  /\ stream' \in Stream!StreamOf(FixedEvents)
           /\ Stream!Adds(FixedEvents, stream, stream',
                          <<Stream!Phase("do"), Stream!Text(Len(messages)'), ShownCause'>>)
           /\ StepsAreDealtWith'
           /\ stream'.checker_emitted = stream.checker_emitted
  <1> DEFINE phase == Stream!Phase("do")
             text == Stream!Text(Len(messages)')
             cause == ShownCause'
             new == <<phase, text, cause>>
             l == LatestTrace'
             v == View'
  <1>1. /\ Len(step_traces) \in Nat
        /\ Len(step_traces') = Len(step_traces) + 1
        /\ l.step_kind = "do"
        /\ l.step_index = Len(step_traces)
        /\ ~Stream!DealtWith(stream, l)
    BY NewStepIsProjected
  <1>2. phase \in FixedEvents /\ text \in FixedEvents /\ cause \in FixedEvents
    <2>1. FixedTyped' => ShownTyped'
      BY ShownTypes, PTL
    <2>2. FixedEvents' = FixedEvents
      BY DEF FixedEvents
    <2> QED
      BY <2>1, <2>2, OtherEvents DEF ShownTyped
  <1>3. stream' = Stream!Emit(stream, l, (<<phase>> \o <<text>>) \o <<cause>>)
    <2>1. stream' = Stream!ProjectStateProgress(stream, l, v)
      BY DEF ProjectTheNewState
    <2>2. /\ v.response # Stream!NoTurn /\ v.cause = cause
          /\ Stream!Text(v.response) = text
      BY DEF View, Stream!NoTurn, NoTurn
    <2> HIDE DEF l, v, text, cause
    <2>3. Stream!ProjectStateProgress(stream, l, v) =
             Stream!Emit(stream, l,
                <<Stream!Phase("do")>>
                \o (IF v.response = Stream!NoTurn THEN <<>>
                    ELSE <<Stream!Text(v.response)>>)
                \o <<v.cause>>)
      BY <1>1, StreamInstance, Stream!DoIsProjected
    <2> QED
      BY <2>1, <2>2, <2>3
  <1> HIDE DEF phase, text, cause, l, v
  <1>4. (<<phase>> \o <<text>>) \o <<cause>> = new /\ new \in Seq(FixedEvents)
    <2>1. /\ <<phase>> \o <<text>> = <<phase, text>>
          /\ <<phase, text>> \o <<cause>> = <<phase, text, cause>>
          /\ <<phase, text, cause>> \in Seq(FixedEvents)
      BY <1>2, PairOf, TripleOf
    <2> QED
      BY <2>1, Zenon
  <1>5. stream' = Stream!Emit(stream, l, new)
    BY <1>3, <1>4
  <1> HIDE DEF new
  <1>6. /\ stream' \in Stream!StreamOf(FixedEvents)
        /\ Stream!Adds(FixedEvents, stream, stream', new)
        /\ StepsAreDealtWith'
        /\ stream'.checker_emitted = stream.checker_emitted
    BY <1>1, <1>4, <1>5, EmittedStep DEF l
  <1> QED
    BY <1>6 DEF new, phase, text, cause

(* A check without an outcome is held back. *)
LEMMA CheckIsHeldBack ==
    ASSUME FixedTyped, StreamTyped, StepsAreDealtWith,
           NEW fired, NEW ran, NEW bypass, NEW axis,
           StepUpdate("check", fired, ran, bypass, axis), stream' = ProjectTheNewState,
           observation_outcome' = "none"
    PROVE  stream' = stream /\ Len(step_traces) \in Nat
           /\ Len(step_traces') = Len(step_traces) + 1
  <1> DEFINE l == LatestTrace'
             v == View'
  <1>1. /\ Len(step_traces) \in Nat
        /\ Len(step_traces') = Len(step_traces) + 1
        /\ l.step_kind = "check"
        /\ ~Stream!DealtWith(stream, l)
    BY NewStepIsProjected
  <1>2. stream' = Stream!ProjectStateProgress(stream, l, v)
    BY DEF ProjectTheNewState
  <1>3. Stream!CheckerIsHeldBack(stream, v)
    BY DEF View, Stream!CheckerIsHeldBack
  <1> HIDE DEF l, v
  <1> QED
    BY <1>1, <1>2, <1>3, StreamInstance, Stream!CheckIsProjected

(* The first comparison is shown. *)
LEMMA CheckIsShown ==
    ASSUME FixedTyped, FixedTyped', StreamTyped, StepsAreDealtWith,
           NEW fired, NEW ran, NEW bypass, NEW axis,
           StepUpdate("check", fired, ran, bypass, axis), stream' = ProjectTheNewState,
           observation_outcome' # "none", stream.checker_emitted = FALSE
    PROVE  /\ stream' \in Stream!StreamOf(FixedEvents)
           /\ Stream!Adds(FixedEvents, stream, stream',
                          <<Stream!Phase("check"), ShownChecker'>>)
           /\ StepsAreDealtWith'
           /\ stream'.checker_emitted = TRUE
  <1> DEFINE phase == Stream!Phase("check")
             c == ShownChecker'
             new == <<phase, c>>
             l == LatestTrace'
             v == View'
             emitted == Stream!Emit(stream, l, new)
  <1>1. /\ Len(step_traces) \in Nat
        /\ Len(step_traces') = Len(step_traces) + 1
        /\ l.step_kind = "check"
        /\ l.step_index = Len(step_traces)
        /\ ~Stream!DealtWith(stream, l)
    BY NewStepIsProjected
  <1>2. phase \in FixedEvents /\ c \in FixedEvents
    <2>1. FixedTyped' => ShownTyped'
      BY ShownTypes, PTL
    <2>2. FixedEvents' = FixedEvents
      BY DEF FixedEvents
    <2> QED
      BY <2>1, <2>2, OtherEvents DEF ShownTyped
  <1>3. stream' = [emitted EXCEPT !.checker_emitted = TRUE]
    <2>1. stream' = Stream!ProjectStateProgress(stream, l, v)
      BY DEF ProjectTheNewState
    <2>2. ~Stream!CheckerIsHeldBack(stream, v) /\ v.checker = c
      BY DEF View, Stream!CheckerIsHeldBack
    <2> HIDE DEF l, v, c
    <2>3. Stream!ProjectStateProgress(stream, l, v) =
             IF Stream!CheckerIsHeldBack(stream, v) THEN stream
             ELSE [Stream!Emit(stream, l, <<Stream!Phase("check"), v.checker>>)
                   EXCEPT !.checker_emitted = TRUE]
      BY <1>1, StreamInstance, Stream!CheckIsProjected
    <2> QED
      BY <2>1, <2>2, <2>3
  <1>4. new \in Seq(FixedEvents)
    BY <1>2, PairOf
  <1> HIDE DEF phase, c, v, new
  <1>5. /\ emitted \in Stream!StreamOf(FixedEvents)
        /\ Stream!Adds(FixedEvents, stream, emitted, new)
        /\ emitted.emitted_step_indexes =
              stream.emitted_step_indexes \cup {l.step_index}
    <2>1. stream \in Stream!StreamOf(FixedEvents) /\ l.step_index \in Nat
      BY <1>1 DEF StreamTyped
    <2> HIDE DEF l
    <2> QED
      BY <1>4, <2>1, StreamInstance, Stream!EmitAdds
  <1> HIDE DEF emitted
  <1>6. /\ stream' \in Stream!StreamOf(FixedEvents)
        /\ stream'.events = emitted.events
        /\ stream'.emitted_step_indexes = emitted.emitted_step_indexes
        /\ stream'.checker_emitted = TRUE
    BY <1>3, <1>5 DEF Stream!StreamOf
  <1>7. Stream!Adds(FixedEvents, stream, stream', new)
    BY <1>5, <1>6 DEF Stream!Adds
  <1>8. StepsAreDealtWith'
    <2>1. stream'.emitted_step_indexes \subseteq 0 .. (Len(step_traces') - 1)
      BY <1>1, <1>5, <1>6 DEF StepsAreDealtWith
    <2>2. Stream!DealtWith(stream', l)
      BY <1>5, <1>6 DEF Stream!DealtWith
    <2> QED
      BY <2>1, <2>2 DEF StepsAreDealtWith, l
  <1> QED
    BY <1>6, <1>7, <1>8 DEF new, phase, c

(* An explanation is shown. *)
LEMMA ExplanationIsEmitted ==
    ASSUME FixedTyped, StreamTyped, StepsAreDealtWith,
           NEW fired, NEW ran, NEW bypass, NEW axis,
           StepUpdate("explain", fired, ran, bypass, axis),
           stream' = ProjectTheNewState,
           self_explanation' \in {"provided", "refused", "unavailable"}
    PROVE  /\ stream' \in Stream!StreamOf(FixedEvents)
           /\ Stream!Adds(FixedEvents, stream, stream',
                 <<Stream!Phase("explain"), Stream!Explanation(self_explanation')>>)
           /\ StepsAreDealtWith'
           /\ stream'.checker_emitted = stream.checker_emitted
  <1> DEFINE status == self_explanation'
             phase == Stream!Phase("explain")
             e == Stream!Explanation(status)
             new == <<phase, e>>
             l == LatestTrace'
             v == View'
  <1>1. /\ Len(step_traces) \in Nat
        /\ Len(step_traces') = Len(step_traces) + 1
        /\ l.step_kind = "explain"
        /\ l.step_index = Len(step_traces)
        /\ ~Stream!DealtWith(stream, l)
    BY NewStepIsProjected
  <1>2. phase \in FixedEvents /\ e \in FixedEvents /\ status # "none"
    BY OtherEvents
  <1>3. stream' = Stream!Emit(stream, l, new)
    <2>1. stream' = Stream!ProjectStateProgress(stream, l, v)
      BY DEF ProjectTheNewState
    <2>2. v.self_explanation = status
      BY DEF View
    <2> HIDE DEF l, v, status
    <2>3. Stream!ProjectStateProgress(stream, l, v) =
             Stream!Emit(stream, l, <<Stream!Phase("explain"),
                                      Stream!Explanation(v.self_explanation)>>)
      BY <1>1, <1>2, <2>2, StreamInstance, Stream!ExplainIsProjected
    <2> QED
      BY <2>1, <2>2, <2>3
  <1>4. new \in Seq(FixedEvents)
    BY <1>2, PairOf
  <1> HIDE DEF new, v
  <1>5. /\ stream' \in Stream!StreamOf(FixedEvents)
        /\ Stream!Adds(FixedEvents, stream, stream', new)
        /\ StepsAreDealtWith'
        /\ stream'.checker_emitted = stream.checker_emitted
    BY <1>1, <1>3, <1>4, EmittedStep
  <1> QED
    BY <1>5 DEF new

-----------------------------------------------------------------------------
(* The invariant, node by node. *)

(* What the parts of the invariant that are not about the stages need. *)
LEMMA QuietStepKeepsControl ==
    ASSUME FixedClientInv, UNCHANGED <<scenario, observation_outcome, stream_status>>,
           stream_status = "open",
           stream' \in Stream!StreamOf(FixedEvents),
           stream'.checker_emitted = stream.checker_emitted,
           node' \in DecidingNodes \cup {"maybe_check", "compare_checker"} =>
               observation_outcome = "none",
           InScope /\ node' \in {"explain", "analyze_trace", "render_state_trace"}
                               \cup WritingNodes =>
               observation_outcome # "none"
    PROVE  StreamTyped' /\ ComparedOnce'
  <1>1. StreamTyped'
    BY DEF FixedClientInv, StreamTyped, Stream!StreamOf, FixedEvents
  <1>2. InScope' <=> InScope
    BY DEF InScope
  <1>3. ComparedOnce'
    BY <1>2 DEF FixedClientInv, ComparedOnce, DecidingNodes, WritingNodes
  <1> QED
    BY <1>1, <1>3

(* Before the response nothing that is there is shown. *)
LEMMA NothingIsShownYet ==
    ASSUME FixedInv, node \in DecidingNodes
    PROVE  EmittedResponse = NoTurn /\ self_explanation = "none"
  BY DEF FixedInv, ResponseIsTheLastTurn, ReportOfTheRun, EmittedResponse

(* The nodes of the plan show nothing. *)
LEMMA PlanNodesKeepTheStream ==
    ASSUME FixedInv, FixedClientInv, LoadScenario \/ Classify \/ TriggerSkill,
           stream_status = "open", stream' = ProjectTheNewState,
           UNCHANGED stream_status
    PROVE  FixedClientInv'
  <1>1. /\ node \in {"load_scenario", "classify", "trigger_skill"}
        /\ node' \in {"classify", "trigger_skill", "generate_bad_response",
                      "generate_safe_response", "write_artifacts"}
        /\ node' = "write_artifacts" => ~InScope
    BY Moves DEF Classify, RouteAfterClassification, ClassificationOf, InScope
  <1>2. PICK fired, axis : StepUpdate("plan", fired, FALSE, FALSE, axis)
    BY DEF LoadScenario, Classify, TriggerSkill
  <1>3. /\ UNCHANGED <<scenario, messages, bad_response, safe_response,
                       observation_outcome, self_explanation>>
        /\ substituted' \in {substituted, scenario.expected_substituted}
    BY DEF LoadScenario, Classify, TriggerSkill, textVars, explainVars, axisVars
  <1>4. FixedTyped /\ EmittedResponse = NoTurn /\ self_explanation = "none"
    BY <1>1, NothingIsShownYet DEF FixedInv, DecidingNodes
  <1>5. observation_outcome = "none"
    BY <1>1 DEF FixedClientInv, ComparedOnce, DecidingNodes
  <1>6. /\ stream' \in Stream!StreamOf(FixedEvents)
        /\ stream'.events = stream.events
        /\ StepsAreDealtWith'
        /\ stream'.checker_emitted = stream.checker_emitted
    BY <1>2, <1>4, PlanIsNotShown DEF FixedClientInv
  <1>7. NothingNewIsSeen
    BY <1>3, <1>4, <1>5 DEF NothingNewIsSeen, EmittedResponse
  <1>8. StagesAreShown'
    BY <1>4, <1>6, <1>7, QuietStepKeepsStages DEF FixedClientInv
  <1>9. StreamTyped' /\ ComparedOnce'
    <2>1. InScope /\ node' \in {"explain", "analyze_trace", "render_state_trace"}
                               \cup WritingNodes => observation_outcome # "none"
      BY <1>1 DEF WritingNodes
    <2> QED
      BY <1>3, <1>5, <1>6, <2>1, QuietStepKeepsControl
  <1>10. AxisOfTheScenario'
    BY <1>3 DEF FixedClientInv, AxisOfTheScenario
  <1> QED
    BY <1>6, <1>8, <1>9, <1>10 DEF FixedClientInv

(* The nodes after the last step trace show nothing. *)
LEMMA LastNodesKeepTheStream ==
    ASSUME FixedInv, FixedClientInv,
           AnalyzeTrace \/ RenderStateTrace \/ WriteArtifacts \/ Finalize,
           node' # "failed",
           stream_status = "open", stream' = ProjectTheNewState,
           UNCHANGED stream_status
    PROVE  FixedClientInv'
  <1>1. /\ node \in {"analyze_trace", "render_state_trace", "write_artifacts", "finalize"}
        /\ node' \in {"render_state_trace", "write_artifacts", "finalize", "end"}
    BY Moves
  <1>2. UNCHANGED <<scenario, messages, bad_response, safe_response,
                    observation_outcome, self_explanation>>
    BY DEF AnalyzeTrace, RenderStateTrace, WriteArtifacts, Finalize, textVars,
           explainVars
  <1>3. UNCHANGED <<step_traces, misreader_skill_fired, authority_provenance,
                    authority_cause_record, checker_observation>>
    BY DEF AnalyzeTrace, RenderStateTrace, WriteArtifacts, Finalize, stepVars,
           skillVars, authorityVars, checkVars
  <1>4. substituted = scenario.expected_substituted /\ substituted' = substituted
    BY DEF AnalyzeTrace, RenderStateTrace, WriteArtifacts, Finalize, axisVars,
           FixedClientInv, AxisOfTheScenario
  <1>5. stream' = stream /\ StepsAreDealtWith'
    BY <1>1, <1>3, NoStepIsNotShown DEF FixedClientInv
  <1>6. NothingNewIsSeen
    BY <1>2, <1>3, <1>4 DEF NothingNewIsSeen, EmittedResponse, ShownCause, ShownChecker
  <1>7. StagesAreShown'
    BY <1>5, <1>6, QuietStepKeepsStages DEF FixedClientInv, FixedInv
  <1>8. StreamTyped' /\ ComparedOnce'
    <2>1. InScope => observation_outcome # "none"
      BY <1>1 DEF FixedClientInv, ComparedOnce, WritingNodes
    <2>2. node' \notin DecidingNodes \cup {"maybe_check", "compare_checker"}
      BY <1>1 DEF DecidingNodes
    <2>3. stream' \in Stream!StreamOf(FixedEvents)
      BY <1>5 DEF FixedClientInv, StreamTyped
    <2> QED
      BY <1>2, <1>5, <2>1, <2>2, <2>3, QuietStepKeepsControl
  <1>9. AxisOfTheScenario'
    BY <1>2, <1>4 DEF AxisOfTheScenario
  <1> QED
    BY <1>5, <1>7, <1>8, <1>9 DEF FixedClientInv

(* Both responses are shown when they are given. *)
LEMMA ResponsesKeepTheStream ==
    ASSUME FixedInv, FixedInv', FixedClientInv,
           GenerateSafeResponse \/ GenerateBadResponse,
           stream_status = "open", stream' = ProjectTheNewState,
           UNCHANGED stream_status
    PROVE  FixedClientInv'
  <1>1. /\ node \in DecidingNodes
        /\ \/ node' = "maybe_check"
           \/ node' = "write_artifacts" /\ ~InScope
    <2>1. node = "generate_safe_response" => ~InScope
      BY DEF FixedInv, FixedTyped, LoadableScenario, RouteOfTheScenario, InScope
    <2>2. \/ node = "generate_safe_response" /\ node' = "write_artifacts"
          \/ node = "generate_bad_response" /\ node' = "maybe_check"
      BY Moves
    <2> QED
      BY <2>1, <2>2 DEF DecidingNodes
  <1>2. PICK fired : StepUpdate("do", fired, FALSE, FALSE, "none")
    BY DEF GenerateSafeResponse, GenerateBadResponse, JudgeAttempt
  <1>3. FixedTyped /\ EmittedResponse = NoTurn /\ self_explanation = "none"
    BY <1>1, NothingIsShownYet DEF FixedInv
  <1>4. observation_outcome = "none"
    BY <1>1 DEF FixedClientInv, ComparedOnce
  <1>5. /\ EmittedResponse' = Len(messages)' /\ EmittedResponse' # NoTurn
        /\ UNCHANGED scenario
        /\ observation_outcome' = "none" /\ self_explanation' = "none"
    <2>1. /\ \E content \in Contents : Respond(content)
          /\ \/ safe_response' = Len(messages) + 1 /\ bad_response' = NoTurn
             \/ safe_response' = NoTurn /\ bad_response' = Len(messages) + 1
          /\ UNCHANGED scenario
          /\ observation_outcome' \in {observation_outcome, "none"}
          /\ self_explanation' \in {self_explanation, "none"}
      BY DEF GenerateSafeResponse, GenerateBadResponse, explainVars
    <2>2. messages \in Seq(Message)
      BY DEF FixedInv, FixedTyped, FixedTypeOK
    <2>3. Len(messages) \in Nat /\ Len(messages') = Len(messages) + 1
      BY <2>1, <2>2, RespondType
    <2> QED
      BY <1>3, <1>4, <2>1, <2>3 DEF EmittedResponse, NoTurn
  <1>6. /\ stream' \in Stream!StreamOf(FixedEvents)
        /\ Stream!Adds(FixedEvents, stream, stream',
                       <<Stream!Phase("do"), Stream!Text(Len(messages)'), ShownCause'>>)
        /\ StepsAreDealtWith'
        /\ stream'.checker_emitted = stream.checker_emitted
    BY <1>2, <1>3, <1>5, DoIsShown DEF FixedClientInv, FixedInv
  <1>7. StagesAreShown'
    BY <1>3, <1>4, <1>5, <1>6, DoShowsTheResponse DEF FixedClientInv, FixedInv
  <1>8. StreamTyped' /\ ComparedOnce'
    <2>1. ~(InScope /\ node' \in {"explain", "analyze_trace", "render_state_trace"}
                               \cup WritingNodes)
      BY <1>1 DEF WritingNodes
    <2> QED
      BY <1>4, <1>5, <1>6, <2>1, QuietStepKeepsControl
  <1>9. AxisOfTheScenario'
    <2>1. CASE GenerateSafeResponse
      <3>1. substituted' = "none" /\ node = "generate_safe_response"
        BY <2>1 DEF GenerateSafeResponse
      <3>2. scenario.expected_substituted = "none"
        BY <3>1 DEF FixedInv, FixedTyped, LoadableScenario, RouteOfTheScenario
      <3> QED
        BY <1>5, <3>1, <3>2 DEF AxisOfTheScenario
    <2>2. CASE GenerateBadResponse
      BY <1>5, <2>2 DEF GenerateBadResponse, axisVars, FixedClientInv, AxisOfTheScenario
    <2> QED
      BY <2>1, <2>2
  <1> QED
    BY <1>6, <1>7, <1>8, <1>9 DEF FixedClientInv

(* The observation is held back until it is compared. *)
LEMMA MaybeCheckKeepsTheStream ==
    ASSUME FixedInv, FixedClientInv, MaybeCheck,
           stream_status = "open", stream' = ProjectTheNewState,
           UNCHANGED stream_status
    PROVE  FixedClientInv'
  <1>1. node = "maybe_check" /\ node' = "compare_checker"
    BY Moves
  <1>2. PICK ran, bypass, axis :
           StepUpdate("check", misreader_skill_fired, ran, bypass, axis)
    BY DEF MaybeCheck
  <1>3. UNCHANGED <<scenario, messages, bad_response, safe_response,
                    observation_outcome, self_explanation, substituted>>
    BY DEF MaybeCheck, textVars, explainVars, axisVars
  <1>4. UNCHANGED <<misreader_skill_fired, authority_provenance,
                    authority_cause_record>>
    BY DEF MaybeCheck, skillVars, authorityVars
  <1>5. observation_outcome = "none"
    BY <1>1 DEF FixedClientInv, ComparedOnce
  <1>6. /\ stream' = stream /\ Len(step_traces) \in Nat
        /\ Len(step_traces') = Len(step_traces) + 1
    BY <1>2, <1>3, <1>5, CheckIsHeldBack DEF FixedClientInv, FixedInv
  <1>7. NothingNewIsSeen
    BY <1>3, <1>4, <1>5 DEF NothingNewIsSeen, EmittedResponse, ShownCause
  <1>8. StagesAreShown'
    BY <1>6, <1>7, QuietStepKeepsStages DEF FixedClientInv, FixedInv
  <1>9. StreamTyped' /\ ComparedOnce'
    <2>1. node' \notin {"explain", "analyze_trace", "render_state_trace"}
                        \cup WritingNodes
      BY <1>1 DEF WritingNodes
    <2>2. stream' \in Stream!StreamOf(FixedEvents)
      BY <1>6 DEF FixedClientInv, StreamTyped
    <2> QED
      BY <1>3, <1>5, <1>6, <2>1, <2>2, QuietStepKeepsControl
  <1>10. StepsAreDealtWith'
    BY <1>1, <1>6 DEF FixedClientInv, StepsAreDealtWith
  <1>11. AxisOfTheScenario'
    BY <1>3 DEF FixedClientInv, AxisOfTheScenario
  <1> QED
    BY <1>8, <1>9, <1>10, <1>11 DEF FixedClientInv

(* The comparison shows what the checker found. *)
LEMMA CompareCheckerKeepsTheStream ==
    ASSUME FixedInv, FixedInv', FixedClientInv, CompareChecker,
           stream_status = "open", stream' = ProjectTheNewState,
           UNCHANGED stream_status
    PROVE  FixedClientInv'
  <1> DEFINE phase == Stream!Phase("check")
             e == ShownChecker'
             new == <<phase, e>>
  <1>1. node = "compare_checker" /\ node' = "explain"
    BY Moves
  <1>2. PICK ran, bypass, axis :
           StepUpdate("check", misreader_skill_fired, ran, bypass, axis)
    BY DEF CompareChecker
  <1>3. UNCHANGED <<scenario, messages, bad_response, safe_response,
                    self_explanation, substituted>>
    BY DEF CompareChecker, textVars, explainVars, axisVars
  <1>4. UNCHANGED <<misreader_skill_fired, authority_provenance,
                    authority_cause_record>>
    BY DEF CompareChecker, skillVars, authorityVars
  <1>5. /\ observation_outcome = "none" /\ self_explanation = "none"
        /\ stream.checker_emitted = FALSE
    <2>1. observation_outcome = "none" /\ self_explanation = "none"
      BY <1>1 DEF FixedClientInv, ComparedOnce, FixedInv, ReportOfTheRun
    <2>2. stream.checker_emitted \in BOOLEAN /\ stream.checker_emitted # TRUE
      BY <2>1 DEF FixedClientInv, ComparedOnce, StreamTyped, Stream!StreamOf
    <2> QED
      BY <2>1, <2>2
  <1>6. observation_outcome' # "none"
    <2>1. misreader_skill_fired \in BOOLEAN
      BY DEF FixedInv, FixedTyped, FixedTypeOK
    <2>2. observation_outcome' \in Outcomes
      BY <2>1, CompareType DEF CompareChecker
    <2> QED
      BY <2>2 DEF Outcomes
  <1>7. /\ stream' \in Stream!StreamOf(FixedEvents)
        /\ Stream!Adds(FixedEvents, stream, stream', new)
        /\ StepsAreDealtWith'
        /\ stream'.checker_emitted = TRUE
    BY <1>2, <1>5, <1>6, CheckIsShown DEF FixedClientInv, FixedInv
  <1>8. e.kind = "checker" /\ phase.kind = "phase"
    BY OtherEvents DEF ShownChecker, Stream!Checker
  <1>9. /\ Shown("checker") = {} /\ Shown("explain") = {} /\ Shown("completed") = {}
        /\ Stream!InCausalOrder(stream)
    BY <1>5 DEF FixedClientInv, StagesAreShown, CheckerIsShown, ExplanationIsShown
  <1>10. ShownChecker' = e
    OBVIOUS
  <1> HIDE DEF e, phase
  <1>11. Stream!NewAt(new, 2, e) /\ \A i \in 1..Len(new) : i # 2 => new[i].kind = "phase"
    <2>1. Len(new) = 2 /\ new[1] = phase /\ new[2] = e
      OBVIOUS
    <2> HIDE DEF new
    <2>2. \A i \in 1..2 : i = 1 \/ i = 2
      OBVIOUS
    <2> QED
      BY <1>8, <2>1, <2>2 DEF Stream!NewAt
  <1> HIDE DEF new
  <1>12. /\ Stream!IsTheOnly(stream', e)
         /\ \A kind : kind # "phase" /\ kind # e.kind =>
               Stream!Keeps(stream, stream', kind)
         /\ Stream!InCausalOrder(stream')
    <2>1. \A kind \in Later(e.kind) : Shown(kind) = {}
      BY <1>8, <1>9 DEF Later
    <2> QED
      BY <1>7, <1>8, <1>9, <1>11, <2>1, NextStage DEF FixedClientInv
  <1>13. /\ Stream!Keeps(stream, stream', "text")
         /\ Stream!Keeps(stream, stream', "cause")
         /\ Stream!Keeps(stream, stream', "explain")
         /\ Stream!Keeps(stream, stream', "completed")
    BY <1>8, <1>12
  <1>14. EmittedResponse' = EmittedResponse /\ ShownCause' = ShownCause
    BY <1>3, <1>4 DEF EmittedResponse, ShownCause
  <1>15. StagesAreShown'
    <2>1. ResponseIsShown'
      BY <1>3, <1>13, <1>14, ResponseStaysShown
         DEF FixedClientInv, FixedInv, StagesAreShown
    <2>2. CheckerIsShown'
      BY <1>6, <1>10, <1>12 DEF CheckerIsShown
    <2>3. ExplanationIsShown' /\ Shown("completed")' = {}
      BY <1>3, <1>5, <1>9, <1>13 DEF ExplanationIsShown, Shown, Stream!Keeps
    <2> QED
      BY <1>12, <2>1, <2>2, <2>3 DEF StagesAreShown
  <1>16. StreamTyped' /\ ComparedOnce'
    <2>1. StreamTyped'
      BY <1>7 DEF FixedClientInv, StreamTyped, Stream!StreamOf, FixedEvents
    <2>2. InScope'
      <3>1. InScope
        BY <1>1 DEF FixedInv, RouteOfTheScenario, ObservingNodes
      <3> QED
        BY <1>3, <3>1 DEF InScope
    <2>3. node' \notin DecidingNodes \cup {"maybe_check", "compare_checker"}
      BY <1>1 DEF DecidingNodes
    <2>4. ComparedOnce'
      BY <1>6, <1>7, <2>2, <2>3 DEF ComparedOnce, DecidingNodes
    <2> QED
      BY <2>1, <2>4
  <1>17. AxisOfTheScenario'
    BY <1>3 DEF FixedClientInv, AxisOfTheScenario
  <1> QED
    BY <1>7, <1>15, <1>16, <1>17 DEF FixedClientInv

(* The explanation is shown if there is one. *)
LEMMA ExplainKeepsTheStream ==
    ASSUME FixedInv, FixedClientInv, Explain,
           stream_status = "open", stream' = ProjectTheNewState,
           UNCHANGED stream_status
    PROVE  FixedClientInv'
  <1>1. node = "explain" /\ node' = "analyze_trace"
    BY Moves
  <1>2. UNCHANGED <<scenario, messages, bad_response, safe_response,
                    observation_outcome, substituted, misreader_skill_fired>>
    BY DEF Explain, textVars, axisVars, skillVars
  <1>3. UNCHANGED <<authority_provenance, authority_cause_record, checker_observation>>
    BY DEF Explain, authorityVars, checkVars
  <1>4. EmittedResponse' = EmittedResponse /\ ShownCause' = ShownCause
        /\ ShownChecker' = ShownChecker
    BY <1>2, <1>3 DEF EmittedResponse, ShownCause, ShownChecker
  <1>5. self_explanation = "none" /\ FixedTyped
    BY <1>1 DEF FixedInv, ReportOfTheRun
  <1>6. /\ stream' \in Stream!StreamOf(FixedEvents)
        /\ stream'.checker_emitted = stream.checker_emitted
        /\ StepsAreDealtWith'
        /\ StagesAreShown'
    <2>1. CASE ShouldExplain
      <3> DEFINE phase == Stream!Phase("explain")
                 e == Stream!Explanation(self_explanation')
                 new == <<phase, e>>
      <3>1. self_explanation' \in {"provided", "refused", "unavailable"}
        BY <2>1 DEF Explain, ExplanationCalls, ExplanationStatus
      <3>2. StepUpdate("explain", misreader_skill_fired, TRUE,
                       checker_observation.bypass, checker_observation.substituted)
        BY <2>1 DEF Explain
      <3>3. /\ stream' \in Stream!StreamOf(FixedEvents)
            /\ Stream!Adds(FixedEvents, stream, stream', new)
            /\ StepsAreDealtWith'
            /\ stream'.checker_emitted = stream.checker_emitted
        BY <1>5, <3>1, <3>2, ExplanationIsEmitted DEF FixedClientInv
      <3>4. e.kind = "explain" /\ phase.kind = "phase"
        BY <3>1, OtherEvents
      <3>5. /\ Shown("explain") = {} /\ Shown("completed") = {}
            /\ Stream!InCausalOrder(stream)
        BY <1>5 DEF FixedClientInv, StagesAreShown, ExplanationIsShown
      <3>6. Stream!Explanation(self_explanation)' = e
        OBVIOUS
      <3> HIDE DEF e, phase
      <3>7. Stream!NewAt(new, 2, e) /\ \A i \in 1..Len(new) : i # 2 => new[i].kind = "phase"
        <4>1. Len(new) = 2 /\ new[1] = phase /\ new[2] = e
          OBVIOUS
        <4> HIDE DEF new
        <4>2. \A i \in 1..2 : i = 1 \/ i = 2
          OBVIOUS
        <4> QED
          BY <3>4, <4>1, <4>2 DEF Stream!NewAt
      <3> HIDE DEF new
      <3>8. /\ Stream!IsTheOnly(stream', e)
            /\ \A kind : kind # "phase" /\ kind # e.kind =>
                  Stream!Keeps(stream, stream', kind)
            /\ Stream!InCausalOrder(stream')
        <4>1. \A kind \in Later(e.kind) : Shown(kind) = {}
          BY <3>4, <3>5 DEF Later
        <4> QED
          BY <3>3, <3>4, <3>5, <3>7, <4>1, NextStage DEF FixedClientInv
      <3>9. /\ Stream!Keeps(stream, stream', "text")
            /\ Stream!Keeps(stream, stream', "cause")
            /\ Stream!Keeps(stream, stream', "checker")
            /\ Stream!Keeps(stream, stream', "completed")
        BY <3>4, <3>8
      <3>10. ResponseIsShown' /\ CheckerIsShown'
        BY <1>2, <1>4, <1>5, <3>9, ResponseStaysShown, CheckerStaysShown
           DEF FixedClientInv, StagesAreShown
      <3>11. ExplanationIsShown'
        BY <3>1, <3>6, <3>8 DEF ExplanationIsShown
      <3>12. Shown("completed")' = {}
        BY <3>5, <3>9 DEF Shown, Stream!Keeps
      <3> QED
        BY <3>3, <3>8, <3>10, <3>11, <3>12 DEF StagesAreShown
    <2>2. CASE ~ShouldExplain
      <3>1. step_traces' = step_traces /\ self_explanation' = self_explanation
        BY <2>2 DEF Explain, explainVars, stepVars
      <3>2. stream' = stream /\ StepsAreDealtWith'
        BY <1>1, <3>1, NoStepIsNotShown DEF FixedClientInv
      <3>3. NothingNewIsSeen
        BY <1>2, <1>4, <3>1 DEF NothingNewIsSeen
      <3>4. StagesAreShown'
        BY <1>5, <3>2, <3>3, QuietStepKeepsStages DEF FixedClientInv
      <3> QED
        BY <3>2, <3>4 DEF FixedClientInv, StreamTyped
    <2> QED
      BY <2>1, <2>2
  <1>7. StreamTyped' /\ ComparedOnce'
    <2>1. node' \notin DecidingNodes \cup {"maybe_check", "compare_checker"}
      BY <1>1 DEF DecidingNodes
    <2>2. InScope => observation_outcome # "none"
      BY <1>1 DEF FixedClientInv, ComparedOnce
    <2> QED
      BY <1>2, <1>6, <2>1, <2>2, QuietStepKeepsControl
  <1>8. AxisOfTheScenario'
    BY <1>2 DEF FixedClientInv, AxisOfTheScenario
  <1> QED
    BY <1>6, <1>7, <1>8 DEF FixedClientInv

(* A node that raises ends the stream as it is. *)
LEMMA RaiseKeepsTheStream ==
    ASSUME FixedInv, FixedClientInv, NodeRaises \/ WriteArtifacts, node' = "failed",
           stream_status' = "raised", UNCHANGED stream, stream_status = "open"
    PROVE  FixedClientInv'
  <1>1. UNCHANGED <<scenario, messages, bad_response, safe_response,
                    observation_outcome, self_explanation, substituted>>
    BY DEF NodeRaises, Raises, WriteArtifacts, textVars, explainVars, axisVars
  <1>2. UNCHANGED <<step_traces, misreader_skill_fired, authority_provenance,
                    authority_cause_record, checker_observation>>
    BY DEF NodeRaises, Raises, WriteArtifacts, stepVars, skillVars, authorityVars,
           checkVars
  <1>3. NothingNewIsSeen
    BY <1>1, <1>2 DEF NothingNewIsSeen, EmittedResponse, ShownCause, ShownChecker
  <1>4. StagesAreShown'
    BY <1>3, QuietStepKeepsStages DEF FixedClientInv, FixedInv
  <1>5. StreamTyped' /\ StepsAreDealtWith'
    BY <1>2 DEF FixedClientInv, StreamTyped, StepsAreDealtWith
  <1>6. ComparedOnce' /\ AxisOfTheScenario'
    BY <1>1 DEF FixedClientInv, ComparedOnce, AxisOfTheScenario, InScope,
                DecidingNodes, WritingNodes
  <1> QED
    BY <1>4, <1>5, <1>6 DEF FixedClientInv

(* The end of the stream comes after everything that was shown. *)
LEMMA FinishKeepsTheStream ==
    ASSUME FixedInv, FixedClientInv, FinishFixed
    PROVE  FixedClientInv'
  <1> DEFINE e == Stream!Completed(observation_outcome, artifacts)
             new == <<e>>
  <1>1. /\ stream_status = "open" /\ node = "end" /\ stream_status' = "completed"
        /\ stream' = [stream EXCEPT !.events = Append(@, e)]
    BY DEF FinishFixed
  <1>2. UNCHANGED <<scenario, node, messages, bad_response, safe_response,
                    observation_outcome, self_explanation, substituted>>
    BY DEF FinishFixed, fixedVars, textVars, explainVars, axisVars
  <1>3. UNCHANGED <<step_traces, misreader_skill_fired, authority_provenance,
                    authority_cause_record, checker_observation>>
    BY DEF FinishFixed, fixedVars, stepVars, skillVars, authorityVars, checkVars
  <1>4. FixedTyped /\ e \in FixedEvents /\ e.kind = "completed"
    BY OtherEvents DEF FixedInv
  <1> HIDE DEF e
  <1>5. /\ stream' \in Stream!StreamOf(FixedEvents)
        /\ stream'.checker_emitted = stream.checker_emitted
        /\ stream'.emitted_step_indexes = stream.emitted_step_indexes
        /\ Stream!Adds(FixedEvents, stream, stream', new)
    <2>1. stream \in Stream!StreamOf(FixedEvents)
      BY DEF FixedClientInv, StreamTyped
    <2>2. /\ stream'.events = Append(stream.events, e)
          /\ stream'.checker_emitted = stream.checker_emitted
          /\ stream'.emitted_step_indexes = stream.emitted_step_indexes
          /\ stream' \in Stream!StreamOf(FixedEvents)
      <3> DEFINE events == Append(stream.events, e)
      <3>1. events \in Seq(FixedEvents)
        BY <1>4, <2>1 DEF Stream!StreamOf
      <3>2. stream' = [stream EXCEPT !.events = events]
        BY <1>1
      <3> HIDE DEF events
      <3>3. /\ stream'.events = events
            /\ stream'.checker_emitted = stream.checker_emitted
            /\ stream'.emitted_step_indexes = stream.emitted_step_indexes
            /\ stream' \in Stream!StreamOf(FixedEvents)
        BY <2>1, <3>1, <3>2 DEF Stream!StreamOf
      <3> QED
        BY <3>3 DEF events
    <2>3. stream.events \in Seq(FixedEvents)
      BY <2>1 DEF Stream!StreamOf
    <2>4. new \in Seq(FixedEvents) /\ Append(stream.events, e) = stream.events \o new
      BY <1>4, <2>3, AppendIsConcat
    <2> QED
      BY <2>2, <2>3, <2>4 DEF Stream!Adds
  <1>6. Shown("completed") = {} /\ Stream!InCausalOrder(stream)
    BY <1>1 DEF FixedClientInv, StagesAreShown
  <1>7. Stream!NewAt(new, 1, e) /\ \A i \in 1..Len(new) : i # 1 => new[i].kind = "phase"
    <2>1. Len(new) = 1 /\ new[1] = e
      OBVIOUS
    <2> HIDE DEF new
    <2> QED
      BY <2>1 DEF Stream!NewAt
  <1> HIDE DEF new
  <1>8. /\ \A kind : kind # "phase" /\ kind # e.kind =>
              Stream!Keeps(stream, stream', kind)
        /\ Stream!InCausalOrder(stream')
    <2>1. \A kind \in Later(e.kind) : Shown(kind) = {}
      BY <1>4, <1>6 DEF Later
    <2> QED
      BY <1>4, <1>5, <1>6, <1>7, <2>1, NextStage DEF FixedClientInv
  <1>9. /\ Stream!Keeps(stream, stream', "text")
        /\ Stream!Keeps(stream, stream', "cause")
        /\ Stream!Keeps(stream, stream', "checker")
        /\ Stream!Keeps(stream, stream', "explain")
    BY <1>4, <1>8
  <1>10. /\ EmittedResponse' = EmittedResponse /\ ShownCause' = ShownCause
         /\ ShownChecker' = ShownChecker
    BY <1>2, <1>3 DEF EmittedResponse, ShownCause, ShownChecker
  <1>11. StagesAreShown'
    <2>1. ResponseIsShown' /\ CheckerIsShown' /\ ExplanationIsShown'
      BY <1>2, <1>4, <1>9, <1>10, ResponseStaysShown, CheckerStaysShown,
         ExplanationStaysShown DEF FixedClientInv, StagesAreShown
    <2> QED
      BY <1>1, <1>8, <2>1 DEF StagesAreShown
  <1>12. StreamTyped'
    BY <1>1, <1>2, <1>5 DEF StreamTyped, Stream!StreamOf, FixedEvents
  <1>13. StepsAreDealtWith'
    BY <1>1, <1>2, <1>3, <1>5 DEF FixedClientInv, StepsAreDealtWith, LatestTrace,
                            Stream!DealtWith
  <1>14. ComparedOnce' /\ AxisOfTheScenario'
    BY <1>2, <1>5 DEF FixedClientInv, ComparedOnce, AxisOfTheScenario, InScope,
                      DecidingNodes, WritingNodes
  <1> QED
    BY <1>11, <1>12, <1>13, <1>14 DEF FixedClientInv

(* A step that changes nothing keeps the invariant. *)
LEMMA StutterKeepsTheStream ==
    ASSUME FixedInv, FixedClientInv,
           UNCHANGED <<fixedVars, stream, stream_status>>
    PROVE  FixedClientInv'
  <1>1. UNCHANGED <<scenario, node, messages, bad_response, safe_response,
                    observation_outcome, self_explanation, substituted>>
    BY DEF fixedVars, textVars, explainVars, axisVars
  <1>2. UNCHANGED <<step_traces, misreader_skill_fired, authority_provenance,
                    authority_cause_record, checker_observation>>
    BY DEF fixedVars, stepVars, skillVars, authorityVars, checkVars
  <1>3. NothingNewIsSeen
    BY <1>1, <1>2 DEF NothingNewIsSeen, EmittedResponse, ShownCause, ShownChecker
  <1>4. StagesAreShown'
    BY <1>3, QuietStepKeepsStages DEF FixedClientInv, FixedInv
  <1>5. StreamTyped' /\ StepsAreDealtWith'
    BY <1>1, <1>2 DEF FixedClientInv, StreamTyped, StepsAreDealtWith, LatestTrace
  <1>6. ComparedOnce' /\ AxisOfTheScenario'
    BY <1>1 DEF FixedClientInv, ComparedOnce, AxisOfTheScenario, InScope,
                DecidingNodes, WritingNodes
  <1> QED
    BY <1>4, <1>5, <1>6 DEF FixedClientInv

(* The stream starts with the announcement of the plan. *)
LEMMA InitFixedClientInv == FixedStreamInit => FixedClientInv
  <1> SUFFICES ASSUME FixedStreamInit
               PROVE  FixedClientInv
    OBVIOUS
  <1>1. /\ FixedInit /\ stream_status = "open"
        /\ stream = Stream!NewStream
    BY DEF FixedStreamInit
  <1> DEFINE e == Stream!Phase("plan")
  <1>2. e \in FixedEvents /\ e.kind = "phase"
    BY OtherEvents
  <1>3. /\ stream.events = <<e>> /\ stream.emitted_step_indexes = {}
        /\ stream.checker_emitted = FALSE
        /\ stream \in Stream!StreamOf(FixedEvents)
    <2>1. stream = [events |-> <<e>>, emitted_step_indexes |-> {},
                    checker_emitted |-> FALSE]
      BY <1>1 DEF Stream!NewStream
    <2> HIDE DEF e
    <2>2. <<e>> \in Seq(FixedEvents)
      BY <1>2
    <2> DEFINE events == <<e>>
    <2> HIDE DEF events
    <2>3. /\ stream.events = events /\ stream.emitted_step_indexes = {}
          /\ stream.checker_emitted = FALSE
          /\ stream \in Stream!StreamOf(FixedEvents)
      BY <2>1, <2>2 DEF Stream!StreamOf, events
    <2> QED
      BY <2>3 DEF events
  <1> HIDE DEF e
  <1>4. DOMAIN stream.events = {1} /\ stream.events[1] = e
    BY <1>3
  <1>5. \A kind : kind # "phase" => Shown(kind) = {}
    BY <1>2, <1>4 DEF Shown, Stream!Places
  <1>6. Stream!InCausalOrder(stream)
    BY <1>4 DEF Stream!InCausalOrder
  <1>7. /\ EmittedResponse = NoTurn /\ observation_outcome = "none"
        /\ self_explanation = "none" /\ node = "load_scenario"
        /\ substituted = scenario.expected_substituted
    BY <1>1 DEF FixedInit, EmittedResponse
  <1>8. StagesAreShown
    BY <1>1, <1>5, <1>6, <1>7
       DEF StagesAreShown, ResponseIsShown, CheckerIsShown, ExplanationIsShown
  <1>9. StreamTyped /\ StepsAreDealtWith
    BY <1>1, <1>3, <1>7 DEF StreamTyped, StepsAreDealtWith
  <1>10. ComparedOnce /\ AxisOfTheScenario
    BY <1>3, <1>7 DEF ComparedOnce, AxisOfTheScenario, WritingNodes
  <1> QED
    BY <1>8, <1>9, <1>10 DEF FixedClientInv

(* Every step of the stream is a step of the graph or leaves the graph be. *)
LEMMA StreamStepIsAStep ==
    [FixedStreamNext]_<<fixedVars, stream, stream_status>> => [FixedNext]_fixedVars
  BY DEF FixedStreamNext, AdvanceFixed, RaiseFixed, FinishFixed, FixedDrained, FixedNext

(* Every step of the stream keeps its invariant. *)
LEMMA FixedClientInvInductive ==
    FixedInv /\ FixedClientInv /\ FixedInv'
    /\ [FixedStreamNext]_<<fixedVars, stream, stream_status>> => FixedClientInv'
  <1> SUFFICES ASSUME FixedInv, FixedClientInv, FixedInv',
                      [FixedStreamNext]_<<fixedVars, stream, stream_status>>
               PROVE  FixedClientInv'
    OBVIOUS
  <1>1. CASE AdvanceFixed
    <2>1. /\ stream_status = "open" /\ FixedStep /\ node' # "failed"
          /\ stream' = ProjectTheNewState /\ UNCHANGED stream_status
      BY <1>1 DEF AdvanceFixed
    <2>2. CASE LoadScenario \/ Classify \/ TriggerSkill
      BY <2>1, <2>2, PlanNodesKeepTheStream
    <2>3. CASE GenerateSafeResponse \/ GenerateBadResponse
      BY <2>1, <2>3, ResponsesKeepTheStream
    <2>4. CASE MaybeCheck
      BY <2>1, <2>4, MaybeCheckKeepsTheStream
    <2>5. CASE CompareChecker
      BY <2>1, <2>5, CompareCheckerKeepsTheStream
    <2>6. CASE Explain
      BY <2>1, <2>6, ExplainKeepsTheStream
    <2>7. CASE AnalyzeTrace \/ RenderStateTrace \/ WriteArtifacts \/ Finalize
      BY <2>1, <2>7, LastNodesKeepTheStream
    <2>8. ~NodeRaises
      BY <2>1 DEF NodeRaises, Raises
    <2> QED
      BY <2>1, <2>2, <2>3, <2>4, <2>5, <2>6, <2>7, <2>8 DEF FixedStep
  <1>2. CASE RaiseFixed
    <2>1. /\ stream_status = "open" /\ FixedStep /\ node' = "failed"
          /\ stream_status' = "raised" /\ UNCHANGED stream
      BY <1>2 DEF RaiseFixed
    <2>2. /\ ~LoadScenario /\ ~GenerateSafeResponse /\ ~TriggerSkill
          /\ ~GenerateBadResponse /\ ~MaybeCheck /\ ~CompareChecker /\ ~Explain
          /\ ~AnalyzeTrace /\ ~RenderStateTrace /\ ~Finalize
      BY <2>1, Moves
    <2>3. ~Classify
      BY <2>1 DEF Classify, RouteAfterClassification
    <2>4. NodeRaises \/ WriteArtifacts
      BY <2>1, <2>2, <2>3 DEF FixedStep
    <2> QED
      BY <2>1, <2>4, RaiseKeepsTheStream
  <1>3. CASE FinishFixed
    BY <1>3, FinishKeepsTheStream
  <1>4. CASE FixedDrained \/ UNCHANGED <<fixedVars, stream, stream_status>>
    BY <1>4, StutterKeepsTheStream DEF FixedDrained
  <1> QED
    BY <1>1, <1>2, <1>3, <1>4 DEF FixedStreamNext

(* Watching the graph does not change it: what is proved of the graph      *)
(* holds of a graph that is streamed.                                      *)
THEOREM FixedStreamImplementsGraph == FixedStreamSpec => FixedSpec
  <1>1. FixedStreamInit => FixedInit
    BY DEF FixedStreamInit
  <1> QED
    BY <1>1, StreamStepIsAStep, PTL DEF FixedStreamSpec, FixedSpec

(* Both invariants hold of every stream. *)
LEMMA FixedClientInvariant == FixedStreamSpec => [](FixedInv /\ FixedClientInv)
  <1>1. FixedStreamInit => FixedInv /\ FixedClientInv
    BY InitFixedInv, InitFixedClientInv DEF FixedStreamInit
  <1>2. FixedInv /\ FixedClientInv
        /\ [FixedStreamNext]_<<fixedVars, stream, stream_status>>
           => (FixedInv /\ FixedClientInv)'
    BY StreamStepIsAStep, FixedInvInductive, FixedClientInvInductive
  <1> QED
    BY <1>1, <1>2, PTL DEF FixedStreamSpec

(* A completed run has shown each of its stages exactly once, although the *)
(* graph goes on after its last step trace and two nodes record a check.   *)
THEOREM EveryStageIsShownOnce == FixedStreamSpec => []EachStageIsShownOnce
  <1>1. FixedInv /\ FixedClientInv => EachStageIsShownOnce
    <2> SUFFICES ASSUME FixedInv, FixedClientInv, stream_status = "completed"
                 PROVE  EachStageIsShownOnce
      BY DEF EachStageIsShownOnce
    <2>1. node = "end"
      BY DEF FixedClientInv, StreamTyped
    <2>2. classification = "in_scope" <=> observation_outcome # "none"
      BY <2>1 DEF FixedInv, RouteOfTheScenario, ClassificationOf, FixedClientInv,
                  ComparedOnce, InScope, WritingNodes
    <2>3. /\ ResponseIsShown /\ CheckerIsShown /\ ExplanationIsShown
          /\ ShownTyped
      BY ShownTypes DEF FixedClientInv, StagesAreShown, FixedInv
    <2>4. /\ Stream!Text(Len(messages)).kind = "text"
          /\ ShownCause.kind = "cause" /\ ShownChecker.kind = "checker"
          /\ Stream!Explanation(self_explanation).kind = "explain"
      BY <2>3, OtherEvents DEF ShownTyped, Stream!Explanation
    <2>5. /\ Stream!ShownOnceIf(stream, EmittedResponse # NoTurn,
                                Stream!Text(Len(messages)))
          /\ Stream!ShownOnceIf(stream, EmittedResponse # NoTurn, ShownCause)
      BY <2>3, <2>4 DEF ResponseIsShown, Stream!ShownOnceIf, Shown
    <2>6. Stream!ShownOnceIf(stream, classification = "in_scope", ShownChecker)
      BY <2>2, <2>3, <2>4 DEF CheckerIsShown, Stream!ShownOnceIf, Shown
    <2>7. Stream!ShownOnceIf(stream, self_explanation # "none",
                             Stream!Explanation(self_explanation))
      BY <2>3, <2>4 DEF ExplanationIsShown, Stream!ShownOnceIf, Shown
    <2> QED
      BY <2>5, <2>6, <2>7 DEF EachStageIsShownOnce
  <1> QED
    BY <1>1, FixedClientInvariant, PTL

(* The order of what is shown is causal at every moment, and the cause     *)
(* that was shown is never revised.                                        *)
THEOREM StagesFollowTheirCauses == FixedStreamSpec => []StagesAreShownInCausalOrder
  <1>1. FixedInv /\ FixedClientInv => StagesAreShownInCausalOrder
    <2> SUFFICES ASSUME FixedInv, FixedClientInv
                 PROVE  StagesAreShownInCausalOrder
      OBVIOUS
    <2>1. ResponseIsShown /\ Stream!InCausalOrder(stream)
      BY DEF FixedClientInv, StagesAreShown
    <2>2. ShownCause.kind = "cause"
      BY DEF ShownCause, Stream!Cause
    <2>3. \A i \in Stream!Places(stream, "cause") : stream.events[i] = ShownCause
      <3>1. CASE EmittedResponse = NoTurn
        BY <2>1, <3>1 DEF ResponseIsShown, Shown
      <3>2. CASE EmittedResponse # NoTurn
        <4>1. Stream!IsTheOnly(stream, ShownCause)
          BY <2>1, <3>2 DEF ResponseIsShown
        <4> QED
          BY <2>2, <4>1 DEF Stream!IsTheOnly
      <3> QED
        BY <3>1, <3>2
    <2> QED
      BY <2>1, <2>3 DEF StagesAreShownInCausalOrder
  <1> QED
    BY <1>1, FixedClientInvariant, PTL
=============================================================================
