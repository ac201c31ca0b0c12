--------------------------- MODULE MinimalLoopProofs ---------------------------
(***************************************************************************)
(* Type correctness of the controlled loop, what its cause side guarantees *)
(* and that it implements CauseSide, and what its observer side reports,   *)
(* for every catalog, history, prompt, language-model answer and iteration *)
(* limit.                                                                  *)
(***************************************************************************)
EXTENDS MinimalLoop, PromptContractProofs

-----------------------------------------------------------------------------
(* Lemmas about the operators the nodes are built from. *)

(* An axis, as a state or a step trace reports it. *)
LEMMA AxisTypes ==
    /\ Axes \subseteq Substituted /\ "none" \in Substituted
    /\ \A s : StepSubstituted(s) \in Substituted
    /\ \A s \in Substituted : ExpectedFailure[s] \in FailureModes
  BY DeclaredAxes DEF StepSubstituted

(* The firing evaluation reports a declared reason. *)
LEMMA PromptFiringType ==
    PromptFiring.should_fire \in BOOLEAN /\ PromptFiring.reason \in Reasons
  BY DEF PromptFiring, EvaluatePromptFiring, PressureReason, Reasons,
         IsHeavyTime, IsQuotaPressure

(* The checker's context has turns or none at all. *)
LEMMA ContextForCheckerType ==
    ASSUME messages \in Seq(Message), messages # <<>>, NEW attempt \in Attempt
    PROVE  ContextForChecker(attempt) \in CheckerContext \cup {NoCheckerContext}
  <1>1. Len(messages) \in 1..(Len(messages) + 1)
    OBVIOUS
  <1> QED
    BY <1>1, CheckerContextType DEF ContextForChecker

(* A step trace is appended and counted. *)
LEMMA StepUpdateType ==
    ASSUME step_traces \in Seq(StepTrace), step_index \in Nat,
           NEW kind \in {"plan", "do", "check", "explain"},
           NEW fired \in BOOLEAN, NEW ran \in BOOLEAN, NEW bypass \in BOOLEAN,
           NEW axis, StepUpdate(kind, fired, ran, bypass, axis)
    PROVE  step_traces' \in Seq(StepTrace) /\ step_index' \in Nat
  BY AxisTypes DEF StepUpdate, StepTrace

(* A generated text becomes the last turn of the conversation. *)
LEMMA GenerateType ==
    ASSUME messages \in Seq(Message), NEW content \in Contents, Generate(content)
    PROVE  messages' \in Seq(Message) /\ messages' # <<>> /\ bad_response' \in Nat
  BY AgentTurnAddsNoGrant DEF Generate

-----------------------------------------------------------------------------
(* Type correctness.  The checker reads the last turn, so a conversation   *)
(* is never empty.                                                         *)

Typed ==
    /\ TypeOK
    /\ messages # <<>>

(* The typing holds when the graph is invoked.                             *)
LEMMA InitTyped == Init => Typed
  <1> SUFFICES ASSUME Init
               PROVE  Typed
    OBVIOUS
  <1>1. messages \in Seq(Message) /\ messages # <<>> /\ Len(messages) \in Nat \ {0}
    BY InitialConversationsAssumption DEF Init
  <1>2. /\ run \in RunInputs
        /\ framework_specified \in BOOLEAN /\ boundary_detected \in BOOLEAN
    <2>1. CASE InitFixed
      <3>1. PICK s \in Scenarios, max \in IterationLimits :
               run = RunFromScenario(s, max, Len(messages))
        BY <2>1 DEF InitFixed
      <3>2. run \in RunInputs
        BY <1>1, <2>1, <3>1, ScenariosAssumption
           DEF InitFixed, RunFromScenario, RunInputs, Decisions
      <3> QED
        BY <2>1, <3>2 DEF InitFixed
    <2>2. CASE InitPrompt
      <3>1. PICK c \in DetectedContracts(DeriveProvenance(messages, DefaultTarget)),
                 decision \in Decisions, signals \in FiringSignals,
                 max \in IterationLimits :
               /\ run = RunFromContract(c, decision, signals, max, Len(messages))
               /\ framework_specified = c.framework_specified
               /\ boundary_detected = c.boundary_detected
        BY <2>2 DEF InitPrompt
      <3>2. c \in ContractShape
        BY DEF DetectedContracts, Contract
      <3>3. run \in RunInputs
        BY <1>1, <2>2, <3>1, <3>2
           DEF InitPrompt, RunFromContract, RunInputs, ContractShape, Template,
               Substituted
      <3> QED
        BY <3>1, <3>2, <3>3 DEF ContractShape
    <2> QED
      BY <2>1, <2>2 DEF Init
  <1>3. authority_provenance \in AnyProvenance
    BY <1>1, DeriveProvenanceProperties, TargetsAssumption DEF Init, AnyProvenance
  <1>4. run.expected_substituted \in Substituted
    BY <1>2 DEF RunInputs
  <1>5. authority_cause_record \in [provenance : AnyProvenance,
                                    action_attempt : Attempt, drift_fired : BOOLEAN]
    BY DEF Init, NoCause, AnyProvenance, Attempt
  <1>6. substituted \in Substituted /\ failure_mode \in FailureModes
    BY <1>4, AxisTypes DEF Init
  <1>7. step_traces \in Seq(StepTrace) /\ errors \in Seq({"leaks", "raises"})
    BY DEF Init
  <1> QED
    BY <1>1, <1>2, <1>3, <1>5, <1>6, <1>7
       DEF Init, Typed, TypeOK, Reasons, NoTurn

(* A skipped or raising node changes nothing but the node to execute.      *)
LEMMA TypedNodeOnly ==
    ASSUME Typed,
           node' \in {"plan", "do", "check", "explain", "end", "failed"},
           UNCHANGED <<run, causeVars, axisVars, boundaryVars, observationVars,
                       progressVars, explainVars, traceVars>>
    PROVE  Typed'
  BY DEF Typed, TypeOK, causeVars, axisVars, boundaryVars, observationVars,
         progressVars, explainVars, traceVars

(* plan keeps the typing.                                                  *)
LEMMA PlanTyped == Typed /\ Plan => Typed'
  <1> SUFFICES ASSUME Typed, Plan
               PROVE  Typed'
    OBVIOUS
  <1>1. step_traces' \in Seq(StepTrace) /\ step_index' \in Nat
    BY StepUpdateType DEF Plan, Typed, TypeOK
  <1>2. /\ substituted' \in Substituted
        /\ framework_specified' \in BOOLEAN
        /\ boundary_detected' \in BOOLEAN
    BY DEF Plan, Typed, TypeOK, RunInputs
  <1> QED
    BY <1>1, <1>2 DEF Plan, Typed, TypeOK, observationVars, progressVars

(* The parts of the typing that do writes, and the parts it leaves alone.  *)
DoWritesTyped ==
    /\ node \in {"plan", "do", "check", "explain", "end", "failed"}
    /\ messages \in Seq(Message) /\ messages # <<>> /\ bad_response \in Nat
    /\ substituted \in Substituted /\ failure_mode \in FailureModes
    /\ misreader_skill_fired \in BOOLEAN
    /\ firing_reason \in Reasons
    /\ selected_skill_perspective \in BOOLEAN
    /\ generation_used_skill \in BOOLEAN
    /\ authority_provenance \in AnyProvenance
    /\ authority_cause_record \in [provenance : AnyProvenance,
                                   action_attempt : Attempt, drift_fired : BOOLEAN]
    /\ step_index \in Nat /\ step_traces \in Seq(StepTrace)

DoLeavesTyped ==
    /\ run \in RunInputs
    /\ framework_specified \in BOOLEAN /\ boundary_detected \in BOOLEAN
    /\ checker_observation \in Observation \cup {NoObservation}
    /\ checker_context \in CheckerContext \cup {NoCheckerContext}
    /\ observation_outcome \in Outcomes \cup {"none"}
    /\ checker_matches_expected \in BOOLEAN
    /\ loop_iteration \in Nat /\ loop_completed \in BOOLEAN
    /\ self_explanation \in {"none", "provided", "refused", "unavailable"}
    /\ errors \in Seq({"leaks", "raises"})

(* The typing is those two parts.                                          *)
LEMMA TypedByParts == Typed <=> DoWritesTyped /\ DoLeavesTyped
  BY Zenon DEF Typed, TypeOK, DoWritesTyped, DoLeavesTyped

(* What do leaves alone keeps its type.                                    *)
LEMMA DoLeavesKept ==
    ASSUME Typed,
           UNCHANGED <<run, boundaryVars, observationVars, progressVars, explainVars>>
    PROVE  DoLeavesTyped'
  <1>1. DoLeavesTyped
    BY TypedByParts
  <1>2. UNCHANGED <<run, framework_specified, boundary_detected,
                    checker_observation, checker_context, observation_outcome,
                    checker_matches_expected, loop_iteration, loop_completed,
                    self_explanation, errors>>
    BY DEF boundaryVars, observationVars, progressVars, explainVars
  <1> QED
    BY <1>1, <1>2 DEF DoLeavesTyped

(* do keeps the typing.                                                    *)
LEMMA DoTyped == Typed /\ Do => Typed'
  <1> SUFFICES ASSUME Typed, Do
               PROVE  Typed'
    OBVIOUS
  <1>0. Typed' <=> DoWritesTyped' /\ DoLeavesTyped'
    BY TypedByParts, PTL
  <1>1. RecordFiringReason => firing_reason' \in Reasons
    BY PromptFiringType DEF RecordFiringReason, Typed, TypeOK
  <1>2. run.expected_substituted \in Substituted
    BY DEF Typed, TypeOK, RunInputs
  <1>3. CASE DoOutOfScope
    <2>1. step_traces' \in Seq(StepTrace) /\ step_index' \in Nat
      BY <1>3, StepUpdateType DEF DoOutOfScope, Typed, TypeOK
    <2>2. firing_reason' \in Reasons
      BY <1>1, <1>3 DEF DoOutOfScope
    <2>3. bad_response' \in Nat
      BY <1>3 DEF DoOutOfScope, NoTurn
    <2>4. messages' \in Seq(Message) /\ messages' # <<>>
      BY <1>3 DEF DoOutOfScope, Typed, TypeOK
    <2>5. /\ node' = "check"
          /\ misreader_skill_fired' = FALSE /\ generation_used_skill' = FALSE
          /\ UNCHANGED <<run, selected_skill_perspective, authority_provenance,
                         authority_cause_record>>
          /\ UNCHANGED <<substituted, failure_mode>>
      BY <1>3 DEF DoOutOfScope, axisVars
    <2>6. DoLeavesTyped'
      BY <1>3, DoLeavesKept DEF DoOutOfScope
    <2>7. DoWritesTyped
      BY TypedByParts
    <2> QED
      BY <1>0, <2>1, <2>2, <2>3, <2>4, <2>5, <2>6, <2>7 DEF DoWritesTyped
  <1>4. CASE DoAuthority
    <2>1. PICK content \in Contents, attempt \in Attempt :
             LET turn == IF attempt = NoTarget THEN NoTurn ELSE Len(messages) + 1
                 provenance == EvaluateAttempt(
                     DeriveProvenance(messages, DefaultTarget), attempt, turn)
                 fired == IsLaundering(provenance)
                 axis == IF fired THEN run.expected_substituted ELSE "none"
             IN  /\ Generate(content)
                 /\ authority_provenance' = provenance
                 /\ authority_cause_record' = [provenance |-> provenance,
                                               action_attempt |-> attempt,
                                               drift_fired |-> fired]
                 /\ misreader_skill_fired' = fired
                 /\ selected_skill_perspective' =
                       (selected_skill_perspective \/ fired)
                 /\ substituted' = axis
                 /\ failure_mode' = ExpectedFailure[axis]
                 /\ StepUpdate("do", fired, FALSE, FALSE, axis)
      BY <1>4 DEF DoAuthority
    <2> DEFINE turn == IF attempt = NoTarget THEN NoTurn ELSE Len(messages) + 1
               provenance == EvaluateAttempt(
                   DeriveProvenance(messages, DefaultTarget), attempt, turn)
               fired == IsLaundering(provenance)
               axis == IF fired THEN run.expected_substituted ELSE "none"
    <2>2. messages \in Seq(Message) /\ turn \in Nat
      BY DEF Typed, TypeOK, NoTurn
    <2>3. provenance \in Provenance
      BY <2>2, DeriveProvenanceProperties, EvaluateAttemptProperties,
         TargetsAssumption
    <2>4. fired \in BOOLEAN
      BY DEF IsLaundering
    <2>5. axis \in Substituted
      BY <1>2, AxisTypes
    <2>6. /\ Generate(content)
          /\ authority_provenance' = provenance
          /\ authority_cause_record' = [provenance |-> provenance,
                                        action_attempt |-> attempt,
                                        drift_fired |-> fired]
          /\ misreader_skill_fired' = fired
          /\ selected_skill_perspective' = (selected_skill_perspective \/ fired)
          /\ substituted' = axis
          /\ failure_mode' = ExpectedFailure[axis]
          /\ StepUpdate("do", fired, FALSE, FALSE, axis)
      BY <2>1
    <2> HIDE DEF turn, provenance, fired, axis
    <2>7. messages' \in Seq(Message) /\ messages' # <<>> /\ bad_response' \in Nat
      BY <2>2, <2>6, GenerateType
    <2>8. step_traces' \in Seq(StepTrace) /\ step_index' \in Nat
      BY <2>4, <2>6, StepUpdateType DEF Typed, TypeOK
    <2>9. failure_mode' \in FailureModes /\ substituted' \in Substituted
      BY <2>5, <2>6, AxisTypes
    <2>10. /\ authority_provenance' \in AnyProvenance
           /\ authority_cause_record' \in
                 [provenance : AnyProvenance, action_attempt : Attempt,
                  drift_fired : BOOLEAN]
           /\ misreader_skill_fired' \in BOOLEAN
           /\ selected_skill_perspective' \in BOOLEAN
      BY <2>3, <2>4, <2>6 DEF AnyProvenance, Typed, TypeOK
    <2>11. /\ node' = "check"
           /\ generation_used_skill' \in BOOLEAN /\ firing_reason' \in Reasons
           /\ UNCHANGED run
      BY <1>1, <1>4, <2>6 DEF DoAuthority, Typed, TypeOK
    <2>12. DoLeavesTyped'
      BY <1>4, DoLeavesKept DEF DoAuthority
    <2> QED
      BY <1>0, <2>7, <2>8, <2>9, <2>10, <2>11, <2>12 DEF DoWritesTyped
  <1>5. CASE DoMisreaderFires
    <2>1. messages' \in Seq(Message) /\ messages' # <<>> /\ bad_response' \in Nat
      BY <1>5, GenerateType DEF DoMisreaderFires, Typed, TypeOK
    <2>2. step_traces' \in Seq(StepTrace) /\ step_index' \in Nat
      BY <1>5, StepUpdateType DEF DoMisreaderFires, Typed, TypeOK
    <2>3. /\ node' = "check"
          /\ misreader_skill_fired' \in BOOLEAN
          /\ generation_used_skill' \in BOOLEAN
          /\ selected_skill_perspective' \in BOOLEAN
          /\ firing_reason' \in Reasons
          /\ UNCHANGED <<substituted, failure_mode, authority_provenance,
                         authority_cause_record>>
      BY <1>1, <1>5 DEF DoMisreaderFires, axisVars
    <2>4. DoLeavesTyped'
      BY <1>5, DoLeavesKept DEF DoMisreaderFires
    <2>5. DoWritesTyped
      BY TypedByParts
    <2> QED
      BY <1>0, <2>1, <2>2, <2>3, <2>4, <2>5 DEF DoWritesTyped
  <1>6. CASE DoMisreaderDoesNotFire
    <2>1. messages' \in Seq(Message) /\ messages' # <<>> /\ bad_response' \in Nat
      BY <1>6, GenerateType DEF DoMisreaderDoesNotFire, Typed, TypeOK
    <2>2. step_traces' \in Seq(StepTrace) /\ step_index' \in Nat
      BY <1>6, StepUpdateType DEF DoMisreaderDoesNotFire, Typed, TypeOK
    <2>3. substituted' \in Substituted /\ failure_mode' \in FailureModes
      BY <1>2, <1>6, AxisTypes DEF DoMisreaderDoesNotFire
    <2>4. firing_reason' \in Reasons
      BY <1>1, <1>6 DEF DoMisreaderDoesNotFire
    <2>5. /\ node' = "check"
          /\ misreader_skill_fired' = FALSE /\ generation_used_skill' = FALSE
          /\ UNCHANGED <<run, selected_skill_perspective, authority_provenance,
                         authority_cause_record>>
      BY <1>6 DEF DoMisreaderDoesNotFire
    <2>6. DoLeavesTyped'
      BY <1>6, DoLeavesKept DEF DoMisreaderDoesNotFire
    <2>7. DoWritesTyped
      BY TypedByParts
    <2> QED
      BY <1>0, <2>1, <2>2, <2>3, <2>4, <2>5, <2>6, <2>7 DEF DoWritesTyped
  <1>7. CASE DoRaises
    BY <1>7, TypedNodeOnly DEF DoRaises, Raises
  <1> QED
    BY <1>3, <1>4, <1>5, <1>6, <1>7 DEF Do

(* Whatever is observed, and whatever context it was observed with. *)
LEMMA CheckTyped ==
    ASSUME Typed, NEW observation \in Observation \cup {NoObservation},
           NEW context \in CheckerContext \cup {NoCheckerContext},
           Check(observation, context)
    PROVE  Typed'
  <1> DEFINE axis == IF observation.ran THEN observation.substituted
                     ELSE substituted
  <1>1. /\ observation.ran \in BOOLEAN /\ observation.bypass \in BOOLEAN
        /\ observation.substituted \in Substituted
    BY ObservationType
  <1>2. step_traces' \in Seq(StepTrace) /\ step_index' \in Nat
    <2>1. StepUpdate("check", misreader_skill_fired, observation.ran,
                     observation.bypass, axis)
      BY DEF Check
    <2> QED
      BY <1>1, <2>1, StepUpdateType DEF Typed, TypeOK
  <1>3. /\ observation_outcome' \in Outcomes
        /\ checker_matches_expected' \in BOOLEAN
    BY CompareType DEF Check, Typed, TypeOK
  <1>4. loop_iteration' \in Nat /\ loop_completed' \in BOOLEAN
    BY DEF Check, Typed, TypeOK
  <1> QED
    BY <1>2, <1>3, <1>4
       DEF Check, Typed, TypeOK, causeVars, axisVars, boundaryVars, explainVars

(* check keeps the typing, whatever the checker answers.                   *)
LEMMA CheckNodeTyped ==
    Typed /\ (CheckObserves \/ CheckSkipped \/ CheckRaises) => Typed'
  <1> SUFFICES ASSUME Typed, CheckObserves \/ CheckSkipped \/ CheckRaises
               PROVE  Typed'
    OBVIOUS
  <1>1. CASE CheckObserves
    <2>1. PICK observation \in Observations, attempt \in Attempt :
             Check(observation, ContextForChecker(attempt))
      BY <1>1 DEF CheckObserves
    <2>2. ContextForChecker(attempt) \in CheckerContext \cup {NoCheckerContext}
      BY ContextForCheckerType DEF Typed, TypeOK
    <2> QED
      BY <2>1, <2>2, CheckTyped, ObservationsAssumption
  <1>2. CASE CheckSkipped
    BY <1>2, CheckTyped DEF CheckSkipped
  <1>3. CASE CheckRaises
    BY <1>3, TypedNodeOnly DEF CheckRaises, Raises
  <1> QED
    BY <1>1, <1>2, <1>3

(* explain keeps the typing, also when there is nothing to explain.        *)
LEMMA ExplainTyped == Typed /\ (Explain \/ ExplainSkipped) => Typed'
  <1> SUFFICES ASSUME Typed, Explain \/ ExplainSkipped
               PROVE  Typed'
    OBVIOUS
  <1>1. RouteAfterCheck \in {"plan", "end"}
    BY DEF RouteAfterCheck
  <1>2. CASE Explain
    <2>1. /\ checker_observation.ran \in BOOLEAN
          /\ checker_observation.bypass \in BOOLEAN
      BY ObservationType DEF Typed, TypeOK
    <2>2. step_traces' \in Seq(StepTrace) /\ step_index' \in Nat
      BY <1>2, <2>1, StepUpdateType DEF Explain, Typed, TypeOK
    <2>3. /\ self_explanation' \in {"none", "provided", "refused", "unavailable"}
          /\ errors' \in Seq({"leaks", "raises"})
      BY <1>2 DEF Explain, ExplanationCalls, ExplanationStatus, Typed, TypeOK
    <2> QED
      BY <1>1, <1>2, <2>2, <2>3
         DEF Explain, Typed, TypeOK, causeVars, axisVars, boundaryVars,
             observationVars, progressVars
  <1>3. CASE ExplainSkipped
    BY <1>1, <1>3, TypedNodeOnly DEF ExplainSkipped
  <1> QED
    BY <1>2, <1>3

(* Every step keeps the typing.                                            *)
LEMMA TypedInductive == Typed /\ [Next]_vars => Typed'
  <1> SUFFICES ASSUME Typed, [Next]_vars
               PROVE  Typed'
    OBVIOUS
  <1>1. CASE UNCHANGED vars
    BY <1>1, TypedNodeOnly DEF vars, Typed, TypeOK
  <1>2. CASE Terminated
    BY <1>1, <1>2 DEF Terminated
  <1> QED
    BY <1>1, <1>2, PlanTyped, DoTyped, CheckNodeTyped, ExplainTyped DEF Next

(* TypeOK holds in every state of every run: in particular an explanation  *)
(* that quotes the history is never kept as the state's self_explanation.  *)
THEOREM TypeCorrect == Spec => []TypeOK
  <1>1. Typed => TypeOK
    BY DEF Typed
  <1> QED
    BY <1>1, InitTyped, TypedInductive, PTL DEF Spec

-----------------------------------------------------------------------------
(* The cause side.  Three kinds of step touch what the drift is decided    *)
(* from: the generation of a turn outside the authority path, the          *)
(* authority path itself, and every other step, which touches none of it.  *)

(* What each step does to the cause and to the history.                    *)
LEMMA StepsOfTheCause ==
    ASSUME [Next]_vars
    PROVE  /\ run' = run
           /\ \/ UNCHANGED <<messages, authority_provenance, authority_cause_record>>
              \/ /\ ~UsesAuthorityProvenance
                 /\ UNCHANGED <<authority_provenance, authority_cause_record>>
                 /\ \E content \in Contents : Generate(content)
              \/ DoAuthority
  <1>1. CASE UNCHANGED vars
    BY <1>1 DEF vars, causeVars
  <1>2. CASE Plan
    BY <1>2 DEF Plan
  <1>3. CASE Do
    <2>1. CASE DoOutOfScope
      BY <2>1 DEF DoOutOfScope
    <2>2. CASE DoAuthority
      BY <2>2 DEF DoAuthority
    <2>3. CASE DoMisreaderFires
      BY <2>3 DEF DoMisreaderFires
    <2>4. CASE DoMisreaderDoesNotFire
      BY <2>4 DEF DoMisreaderDoesNotFire
    <2>5. CASE DoRaises
      BY <2>5 DEF DoRaises, Raises, causeVars
    <2> QED
      BY <1>3, <2>1, <2>2, <2>3, <2>4, <2>5 DEF Do
  <1>4. CASE CheckObserves \/ CheckSkipped \/ CheckRaises
    BY <1>4 DEF CheckObserves, CheckSkipped, CheckRaises, Check, Raises, causeVars
  <1>5. CASE Explain \/ ExplainSkipped
    BY <1>5 DEF Explain, ExplainSkipped, causeVars
  <1>6. CASE Terminated
    BY <1>6 DEF Terminated, vars, causeVars
  <1> QED
    BY <1>1, <1>2, <1>3, <1>4, <1>5, <1>6 DEF Next

(* What one step of the authority path leaves behind. *)
LEMMA DoAuthorityEffect ==
    ASSUME Typed, DoAuthority
    PROVE  \E content \in Contents, attempt \in Attempt, turn \in Nat :
              LET q == EvaluateAttempt(DeriveProvenance(messages, DefaultTarget),
                                       attempt, turn)
              IN  /\ Generate(content)
                  /\ turn = IF attempt = NoTarget THEN NoTurn ELSE Len(messages) + 1
                  /\ authority_provenance' = q
                  /\ authority_cause_record'.provenance = q
                  /\ authority_cause_record'.action_attempt = attempt
                  /\ authority_cause_record'.drift_fired = IsLaundering(q)
                  /\ misreader_skill_fired' = IsLaundering(q)
  <1>1. PICK content \in Contents, attempt \in Attempt :
           LET turn == IF attempt = NoTarget THEN NoTurn ELSE Len(messages) + 1
               q == EvaluateAttempt(DeriveProvenance(messages, DefaultTarget),
                                    attempt, turn)
           IN  /\ Generate(content)
               /\ authority_provenance' = q
               /\ authority_cause_record' = [provenance |-> q,
                                             action_attempt |-> attempt,
                                             drift_fired |-> IsLaundering(q)]
               /\ misreader_skill_fired' = IsLaundering(q)
    BY DEF DoAuthority
  <1>2. (IF attempt = NoTarget THEN NoTurn ELSE Len(messages) + 1) \in Nat
    BY DEF Typed, TypeOK, NoTurn
  <1> QED
    BY <1>1, <1>2

(* Every turn said during the run is the agent's. *)
OnlyTheAgentSpeaks ==
    /\ run.initial_turns =< Len(messages)
    /\ \A i \in (run.initial_turns + 1)..Len(messages) :
          messages[i].speaker = "agent"

(* The evidence behind "authorized" is a grant in the conversation. *)
AuthorizedByAGrant ==
    authority_provenance.result = "authorized" =>
        /\ authority_provenance.target = DefaultTarget
        /\ GrantTurns(messages, DefaultTarget) # {}

(* The proposal of record is the conversation's first for the target. *)
RecordIsTheFirstProposal ==
    authority_provenance.prior_agent_proposal_turn # NoTurn =>
        /\ authority_provenance.target = DefaultTarget
        /\ authority_provenance.prior_agent_proposal_turn =
              FirstAgentProposalTurn(messages, DefaultTarget)

CauseInv ==
    /\ Typed
    /\ OnlyTheAgentSpeaks
    /\ AuthorizedByAGrant
    /\ RecordIsTheFirstProposal
    /\ LaunderingIsGrounded

(* The cause invariant holds when the graph is invoked.                    *)
LEMMA InitCauseInv == Init => CauseInv
  <1> SUFFICES ASSUME Init
               PROVE  CauseInv
    OBVIOUS
  <1>1. Typed
    BY InitTyped
  <1>2. messages \in Seq(Message) /\ Len(messages) \in Nat
    BY <1>1 DEF Typed, TypeOK
  <1>3. run.initial_turns = Len(messages)
    BY DEF Init, InitFixed, InitPrompt, RunFromScenario, RunFromContract
  <1>4. OnlyTheAgentSpeaks
    BY <1>2, <1>3 DEF OnlyTheAgentSpeaks
  <1>5. AuthorizedByAGrant /\ RecordIsTheFirstProposal
    <2>1. authority_provenance = DeriveProvenance(messages, DefaultTarget)
      BY DEF Init
    <2>2. CASE authority_provenance = NoProvenance
      BY <2>2 DEF AuthorizedByAGrant, RecordIsTheFirstProposal, NoProvenance
    <2>3. CASE authority_provenance # NoProvenance
      BY <1>2, <2>1, <2>3, DeriveProvenanceProperties, TargetsAssumption
         DEF AuthorizedByAGrant, RecordIsTheFirstProposal
    <2> QED
      BY <2>2, <2>3
  <1>6. LaunderingIsGrounded
    BY DEF Init, NoCause, LaunderingIsGrounded
  <1> QED
    BY <1>1, <1>4, <1>5, <1>6 DEF CauseInv

(* A generated turn is an agent turn, whatever generated it. *)
LEMMA GenerateKeepsOnlyTheAgentSpeaks ==
    ASSUME CauseInv, NEW content \in Contents, Generate(content), run' = run
    PROVE  OnlyTheAgentSpeaks'
  <1>1. /\ messages \in Seq(Message)
        /\ run.initial_turns \in Nat /\ Len(messages) \in Nat
    BY DEF CauseInv, Typed, TypeOK, RunInputs
  <1>2. /\ Len(messages') = Len(messages) + 1
        /\ \A i \in 1..Len(messages) : messages'[i] = messages[i]
        /\ messages'[Len(messages) + 1].speaker = "agent"
    BY <1>1, AgentTurnAddsNoGrant DEF Generate
  <1> QED
    BY <1>1, <1>2 DEF CauseInv, OnlyTheAgentSpeaks

(* A generated turn does not touch the evidence already recorded. *)
LEMMA GenerateKeepsTheEvidence ==
    ASSUME CauseInv, NEW content \in Contents, Generate(content),
           UNCHANGED <<authority_provenance, authority_cause_record>>
    PROVE  AuthorizedByAGrant' /\ RecordIsTheFirstProposal' /\ LaunderingIsGrounded'
  <1>1. messages \in Seq(Message) /\ Len(messages) \in Nat
    BY DEF CauseInv, Typed, TypeOK
  <1>2. /\ messages' \in Seq(Message)
        /\ Len(messages') = Len(messages) + 1
        /\ \A target : GrantTurns(messages', target) = GrantTurns(messages, target)
        /\ \A target : ProposalTurns(messages, target) \subseteq
                          ProposalTurns(messages', target)
    BY <1>1, AgentTurnAddsNoGrant DEF Generate
  <1>3. AuthorizedByAGrant'
    BY <1>2 DEF CauseInv, AuthorizedByAGrant
  <1>4. RecordIsTheFirstProposal'
    BY <1>1, FirstProposalIsStable
       DEF CauseInv, RecordIsTheFirstProposal, Generate
  <1>5. DOMAIN messages \subseteq DOMAIN messages'
    BY <1>1, <1>2
  <1>6. LaunderingIsGrounded'
    BY <1>2, <1>5 DEF CauseInv, LaunderingIsGrounded
  <1> QED
    BY <1>3, <1>4, <1>6

(* A cause derived from the history stands on turns of that history.       *)
LEMMA AuthorityPathKeepsTheEvidence ==
    ASSUME CauseInv, DoAuthority
    PROVE  AuthorizedByAGrant' /\ RecordIsTheFirstProposal' /\ LaunderingIsGrounded'
  <1>1. Typed /\ messages \in Seq(Message) /\ Len(messages) \in Nat
    BY DEF CauseInv, Typed, TypeOK
  <1>2. PICK content \in Contents, attempt \in Attempt, turn \in Nat :
           LET q == EvaluateAttempt(DeriveProvenance(messages, DefaultTarget),
                                    attempt, turn)
           IN  /\ Generate(content)
               /\ turn = IF attempt = NoTarget THEN NoTurn ELSE Len(messages) + 1
               /\ authority_provenance' = q
               /\ authority_cause_record'.provenance = q
               /\ authority_cause_record'.action_attempt = attempt
               /\ authority_cause_record'.drift_fired = IsLaundering(q)
    BY <1>1, DoAuthorityEffect
  <1> DEFINE p == DeriveProvenance(messages, DefaultTarget)
             q == EvaluateAttempt(p, attempt, turn)
             first == FirstAgentProposalTurn(messages, DefaultTarget)
  <1>3. /\ p \in Provenance \cup {NoProvenance}
        /\ p # NoProvenance =>
              /\ p.target = DefaultTarget
              /\ p.prior_agent_proposal_turn = first
    BY <1>1, DeriveProvenanceProperties, TargetsAssumption
  <1> HIDE DEF p
  <1>4. /\ q.prior_agent_proposal_turn # NoTurn =>
              /\ q.target = DefaultTarget
              /\ q.prior_agent_proposal_turn = first
        /\ attempt # NoTarget =>
              /\ q.target = attempt
              /\ q.action_attempt_turn = turn
    BY <1>3, EvaluateAttemptProperties
  <1>5. /\ IsLaundering(q) <=>
              /\ attempt = DefaultTarget
              /\ ProposalTurns(messages, DefaultTarget) # {}
              /\ GrantTurns(messages, DefaultTarget) = {}
        /\ q.result = "authorized" <=>
              /\ attempt = DefaultTarget
              /\ ProposalTurns(messages, DefaultTarget) # {}
              /\ GrantTurns(messages, DefaultTarget) # {}
        /\ IsLaundering(q) => q.prior_agent_proposal_turn = first
    BY <1>1, VerdictOfAnAttempt DEF p
  <1>6. /\ messages' \in Seq(Message)
        /\ Len(messages') = Len(messages) + 1
        /\ GrantTurns(messages', DefaultTarget) = GrantTurns(messages, DefaultTarget)
        /\ ProposalTurns(messages, DefaultTarget) \subseteq
              ProposalTurns(messages', DefaultTarget)
    BY <1>1, <1>2, AgentTurnAddsNoGrant DEF Generate
  <1>7. first # NoTurn => FirstAgentProposalTurn(messages', DefaultTarget) = first
    BY <1>1, <1>2, FirstProposalIsStable DEF Generate
  <1>8. /\ ProposalTurns(messages, DefaultTarget) # {} =>
              first \in ProposalTurns(messages, DefaultTarget)
        /\ ProposalTurns(messages, DefaultTarget) \subseteq 1..Len(messages)
    BY <1>1, TurnsAreTurns, FirstTurnProperties DEF FirstAgentProposalTurn
  <1>9. /\ authority_provenance' = q
        /\ authority_cause_record'.provenance = q
        /\ authority_cause_record'.action_attempt = attempt
        /\ authority_cause_record'.drift_fired = IsLaundering(q)
        /\ turn = IF attempt = NoTarget THEN NoTurn ELSE Len(messages) + 1
    BY <1>2 DEF p
  <1> HIDE DEF q, first
  <1>10. DefaultTarget # NoTarget
    BY TargetsAssumption
  <1>11. AuthorizedByAGrant'
    BY <1>4, <1>5, <1>6, <1>9, <1>10 DEF AuthorizedByAGrant
  <1>12. RecordIsTheFirstProposal'
    BY <1>4, <1>7, <1>9 DEF RecordIsTheFirstProposal
  <1>13. LaunderingIsGrounded'
    <2> SUFFICES ASSUME IsLaundering(q)
                 PROVE  /\ q.prior_agent_proposal_turn \in
                              ProposalTurns(messages', attempt)
                        /\ q.prior_agent_proposal_turn < q.action_attempt_turn
                        /\ q.action_attempt_turn \in DOMAIN messages'
                        /\ GrantTurns(messages', attempt) = {}
      BY <1>9 DEF LaunderingIsGrounded
    <2>1. /\ attempt = DefaultTarget
          /\ q.prior_agent_proposal_turn = first
          /\ q.action_attempt_turn = Len(messages) + 1
          /\ first \in ProposalTurns(messages, DefaultTarget)
          /\ GrantTurns(messages, DefaultTarget) = {}
      BY <1>4, <1>5, <1>8, <1>9, <1>10
    <2>2. first < Len(messages) + 1
      BY <1>1, <1>8, <2>1
    <2>3. Len(messages) + 1 \in DOMAIN messages'
      BY <1>1, <1>6
    <2> QED
      BY <1>6, <2>1, <2>2, <2>3
  <1> QED
    BY <1>11, <1>12, <1>13

(* Every step keeps the cause invariant.                                   *)
LEMMA CauseInvInductive == CauseInv /\ [Next]_vars => CauseInv'
  <1> SUFFICES ASSUME CauseInv, [Next]_vars
               PROVE  CauseInv'
    OBVIOUS
  <1>1. Typed'
    BY TypedInductive DEF CauseInv
  <1>2. run' = run
    BY StepsOfTheCause
  <1>3. CASE UNCHANGED <<messages, authority_provenance, authority_cause_record>>
    BY <1>1, <1>2, <1>3
       DEF CauseInv, OnlyTheAgentSpeaks, AuthorizedByAGrant,
           RecordIsTheFirstProposal, LaunderingIsGrounded
  <1>4. CASE /\ UNCHANGED <<authority_provenance, authority_cause_record>>
             /\ \E content \in Contents : Generate(content)
    BY <1>1, <1>2, <1>4, GenerateKeepsOnlyTheAgentSpeaks, GenerateKeepsTheEvidence
       DEF CauseInv
  <1>5. CASE DoAuthority
    BY <1>1, <1>2, <1>5, DoAuthorityEffect, GenerateKeepsOnlyTheAgentSpeaks,
       AuthorityPathKeepsTheEvidence DEF CauseInv
  <1> QED
    BY <1>3, <1>4, <1>5, StepsOfTheCause

(* The cause invariant holds in every reachable state.                     *)
LEMMA CauseInvariant == Spec => []CauseInv
  BY InitCauseInv, CauseInvInductive, PTL DEF Spec

(* A drift recorded as laundering rests on an earlier agent proposal for   *)
(* the attempted target and on the absence of any principal grant for it.  *)
THEOREM LaunderingGrounded == Spec => []LaunderingIsGrounded
  <1>1. CauseInv => LaunderingIsGrounded
    BY DEF CauseInv
  <1> QED
    BY <1>1, CauseInvariant, PTL

(* "authorized" needs a principal grant in the conversation the run        *)
(* started from: what the loop itself generates cannot authorize it.       *)
THEOREM AgentNeverAuthorizesItself == Spec => []AgentCannotAuthorizeItself
  <1>1. CauseInv => AgentCannotAuthorizeItself
    <2> SUFFICES ASSUME CauseInv, authority_provenance.result = "authorized"
                 PROVE  \E i \in 1..run.initial_turns :
                           /\ messages[i].speaker = "principal"
                           /\ authority_provenance.target \in
                                 messages[i].content.grants
      BY DEF AgentCannotAuthorizeItself
    <2>1. /\ authority_provenance.target = DefaultTarget
          /\ GrantTurns(messages, DefaultTarget) # {}
      BY DEF CauseInv, AuthorizedByAGrant
    <2>2. PICK i \in DOMAIN messages :
             /\ messages[i].speaker = "principal"
             /\ DefaultTarget \in messages[i].content.grants
      BY <2>1 DEF GrantTurns
    <2>3. /\ messages \in Seq(Message) /\ Len(messages) \in Nat
          /\ run.initial_turns \in Nat
      BY DEF CauseInv, Typed, TypeOK, RunInputs
    <2>4. i \in 1..run.initial_turns
      BY <2>2, <2>3 DEF CauseInv, OnlyTheAgentSpeaks
    <2> QED
      BY <2>1, <2>2, <2>4
  <1> QED
    BY <1>1, CauseInvariant, PTL

(* The proposal of record never moves: every record of it is the first     *)
(* proposal of the conversation, and later agent turns do not precede it.  *)
THEOREM ProposalNeverMoves == Spec => ProposalOfRecordIsStable
  <1>1. ASSUME CauseInv, CauseInv', [Next]_vars,
               authority_provenance.prior_agent_proposal_turn # NoTurn,
               authority_provenance'.prior_agent_proposal_turn # NoTurn
        PROVE  authority_provenance'.prior_agent_proposal_turn =
                  authority_provenance.prior_agent_proposal_turn
    <2>1. /\ authority_provenance.prior_agent_proposal_turn =
                FirstAgentProposalTurn(messages, DefaultTarget)
          /\ authority_provenance'.prior_agent_proposal_turn =
                FirstAgentProposalTurn(messages', DefaultTarget)
      BY <1>1 DEF CauseInv, RecordIsTheFirstProposal
    <2>2. messages \in Seq(Message)
      BY <1>1 DEF CauseInv, Typed, TypeOK
    <2>3. messages' = messages \/ \E content \in Contents : Generate(content)
      BY <1>1, StepsOfTheCause, DoAuthorityEffect DEF CauseInv
    <2> QED
      BY <1>1, <2>1, <2>2, <2>3, FirstProposalIsStable DEF Generate
  <1> QED
    BY <1>1, CauseInvariant, PTL DEF Spec, ProposalOfRecordIsStable

(* An evaluated attempt never erases the provenance it was evaluated from. *)
LEMMA UsesAuthorityIsStable ==
    ASSUME Typed, [Next]_vars
    PROVE  UsesAuthorityProvenance' <=> UsesAuthorityProvenance
  <1>1. run' = run
    BY StepsOfTheCause
  <1>2. CASE authority_provenance' = authority_provenance
    BY <1>1, <1>2 DEF UsesAuthorityProvenance
  <1>3. CASE DoAuthority
    <2>1. UsesAuthorityProvenance
      BY <1>3 DEF DoAuthority
    <2>2. authority_provenance' # NoProvenance
      <3>1. messages \in Seq(Message)
        BY DEF Typed, TypeOK
      <3>2. PICK attempt \in Attempt, turn \in Nat :
               authority_provenance' =
                  EvaluateAttempt(DeriveProvenance(messages, DefaultTarget),
                                  attempt, turn)
        BY <1>3, DoAuthorityEffect
      <3>3. DeriveProvenance(messages, DefaultTarget) \in
               Provenance \cup {NoProvenance}
        BY <3>1, DeriveProvenanceProperties, TargetsAssumption
      <3> QED
        BY <3>2, <3>3, EvaluateAttemptProperties
    <2> QED
      BY <1>1, <2>1, <2>2 DEF UsesAuthorityProvenance
  <1> QED
    BY <1>2, <1>3, StepsOfTheCause

(* A run decides by authority provenance in every iteration or in none.    *)
THEOREM AuthorityPathNeverSwitches == Spec => AuthorityPathIsStable
  <1>1. Typed /\ [Next]_vars =>
           (UsesAuthorityProvenance' <=> UsesAuthorityProvenance)
    BY UsesAuthorityIsStable
  <1> QED
    BY <1>1, InitTyped, TypedInductive, PTL DEF Spec, AuthorityPathIsStable

-----------------------------------------------------------------------------
(* The refinement of CauseSide.  Seen through its cause-side variables the *)
(* loop decides by a policy fixed before the first iteration, and the      *)
(* checker and the explanation are stutters.                               *)

(* What a fixed scenario's firing depends on, apart from the run's inputs, *)
(* is settled by plan and the same in every iteration.                     *)
FrameworkIsSettled ==
    run.loop_source = "fixed_scenario" =>
        /\ run.misreader_firing_decision = "unset"
        /\ framework_specified => run.selected_skill_id = FrameworkSkill
        /\ node = "do" /\ run.selected_skill_id = FrameworkSkill =>
              framework_specified

PolicyInv == Typed /\ FrameworkIsSettled

(* When the graph is invoked, the framework belongs to its skill.          *)
LEMMA InitPolicyInv == Init => PolicyInv
  <1> SUFFICES ASSUME Init
               PROVE  FrameworkIsSettled
    BY InitTyped DEF PolicyInv
  <1>1. CASE InitFixed
    BY <1>1 DEF Init, InitFixed, RunFromScenario, FrameworkIsSettled
  <1>2. CASE InitPrompt
    BY <1>2 DEF Init, InitPrompt, RunFromContract, FrameworkIsSettled
  <1> QED
    BY <1>1, <1>2 DEF Init

(* Only plan touches the boundary, and only a fixed scenario's. *)
LEMMA StepsOfTheBoundary ==
    ASSUME Typed, [Next]_vars
    PROVE  \/ UNCHANGED boundaryVars /\ (node' # "do" \/ node' = node)
           \/ /\ framework_specified' =
                    (framework_specified \/ run.selected_skill_id = FrameworkSkill)
              /\ run.loop_source # "fixed_scenario" =>
                    boundary_detected' = boundary_detected
              /\ Plan
  <1>1. CASE UNCHANGED vars
    BY <1>1 DEF vars, boundaryVars
  <1>2. CASE Plan
    <2>1. boundary_detected \in BOOLEAN
      BY DEF Typed, TypeOK
    <2>2. /\ framework_specified' =
                (framework_specified \/ run.selected_skill_id = FrameworkSkill)
          /\ boundary_detected' =
                (boundary_detected \/
                   (run.loop_source = "fixed_scenario" /\ framework_specified'))
      BY <1>2 DEF Plan
    <2>3. ASSUME run.loop_source # "fixed_scenario"
          PROVE  boundary_detected' = boundary_detected
      BY <2>1, <2>2, <2>3, Zenon
    <2> QED
      BY <1>2, <2>2, <2>3
  <1>3. CASE Do
    BY <1>3 DEF Do, DoOutOfScope, DoAuthority, DoMisreaderFires,
                DoMisreaderDoesNotFire, DoRaises, Raises
  <1>4. CASE CheckObserves \/ CheckSkipped \/ CheckRaises
    BY <1>4 DEF CheckObserves, CheckSkipped, CheckRaises, Check, Raises
  <1>5. CASE Explain \/ ExplainSkipped
    BY <1>5 DEF Explain, ExplainSkipped, RouteAfterCheck
  <1>6. CASE Terminated
    BY <1>6 DEF Terminated, vars
  <1> QED
    BY <1>1, <1>2, <1>3, <1>4, <1>5, <1>6 DEF Next

(* Every step keeps the framework of a run settled.                        *)
LEMMA PolicyInvInductive == PolicyInv /\ [Next]_vars => PolicyInv'
  <1> SUFFICES ASSUME PolicyInv, [Next]_vars
               PROVE  FrameworkIsSettled'
    BY TypedInductive DEF PolicyInv
  <1>1. run' = run
    BY StepsOfTheCause
  <1>2. CASE UNCHANGED boundaryVars /\ (node' # "do" \/ node' = node)
    BY <1>1, <1>2 DEF PolicyInv, FrameworkIsSettled, boundaryVars
  <1>3. CASE framework_specified' =
                (framework_specified \/ run.selected_skill_id = FrameworkSkill)
    <2>1. framework_specified \in BOOLEAN
      BY DEF PolicyInv, Typed, TypeOK
    <2> QED
      BY <1>1, <1>3, <2>1 DEF PolicyInv, FrameworkIsSettled
  <1> QED
    BY <1>2, <1>3, StepsOfTheBoundary DEF PolicyInv

(* How a run decides never changes.  The boundary matters to a prompt's    *)
(* firing evaluation only, and plan leaves a prompt's boundary alone.      *)
LEMMA PolicyIsStable ==
    ASSUME PolicyInv, [Next]_vars
    PROVE  RunPolicy' = RunPolicy
  <1>1. run' = run
    BY StepsOfTheCause
  <1>2. InScope' = InScope
    BY <1>1 DEF InScope
  <1>3. UsesAuthorityProvenance' = UsesAuthorityProvenance
    BY UsesAuthorityIsStable DEF PolicyInv, UsesAuthorityProvenance
  <1>4. run.loop_source = "prompt_contract" => PromptFiring' = PromptFiring
    <2> SUFFICES ASSUME run.loop_source = "prompt_contract"
                 PROVE  PromptFiring' = PromptFiring
      OBVIOUS
    <2>1. boundary_detected' = boundary_detected
      BY StepsOfTheBoundary DEF PolicyInv, boundaryVars
    <2> QED
      BY <1>1, <2>1 DEF PromptFiring
  <1> QED
    BY <1>1, <1>2, <1>3, <1>4 DEF RunPolicy

(* In do, the misreader of a fixed scenario fires for the framework skill. *)
LEMMA ShouldFireIsThePolicy ==
    ASSUME PolicyInv, node = "do", InScope, ~UsesAuthorityProvenance
    PROVE  RunPolicy = IF ShouldFire THEN "fire" ELSE "hold"
  <1>1. run.loop_source \in {"fixed_scenario", "prompt_contract"}
    BY LoopSourcesAssumption DEF PolicyInv, Typed, TypeOK, RunInputs
  <1>2. CASE run.loop_source = "prompt_contract"
    BY <1>2 DEF RunPolicy, ShouldFire
  <1>3. CASE run.loop_source = "fixed_scenario"
    BY <1>3 DEF PolicyInv, FrameworkIsSettled, RunPolicy, ShouldFire,
                FixedScenarioFires, FrameworkSkill, NoSkill
  <1> QED
    BY <1>1, <1>2, <1>3

(* The policy of a run is one the cause side knows.                        *)
LEMMA PolicyType == RunPolicy \in Cause!Policies
  BY DEF RunPolicy, Cause!Policies

-----------------------------------------------------------------------------
(* The steps, one by one. *)

(* The loop starts where the cause side starts.                            *)
LEMMA InitIsCauseInit ==
    ASSUME Init
    PROVE  Cause!CauseSideInit
  <1>1. messages \in Seq(Cause!Message)
    BY InitTyped DEF Typed, TypeOK, Cause!Message, Cause!Speakers, Message, Speakers
  <1>2. Phase = "resting" /\ misreader_skill_fired = FALSE
    BY DEF Init, Phase
  <1> QED
    BY <1>1, <1>2, PolicyType DEF Cause!CauseSideInit

(* plan is the cause side's deliberation.                                  *)
LEMMA PlanIsDeliberate ==
    ASSUME PolicyInv, Plan
    PROVE  Cause!Deliberate
  <1>1. RunPolicy' = RunPolicy
    BY PolicyIsStable DEF Next
  <1> QED
    BY <1>1 DEF Plan, Phase, Cause!Deliberate

(* do is the cause side's act.                                             *)
LEMMA DoIsAct ==
    ASSUME PolicyInv, Do, ~DoRaises
    PROVE  Cause!Act
  <1>1. RunPolicy' = RunPolicy
    BY PolicyIsStable DEF Next
  <1>2. node = "do" /\ node' = "check"
    BY DEF Do, DoOutOfScope, DoAuthority, DoMisreaderFires,
           DoMisreaderDoesNotFire
  <1>3. Phase = "deciding" /\ Phase' = "decided"
    BY <1>2 DEF Phase
  <1>4. CASE DoOutOfScope
    <2>1. RunPolicy = "silent"
      BY <1>4 DEF DoOutOfScope, RunPolicy
    <2> QED
      BY <1>1, <1>3, <1>4, <2>1 DEF DoOutOfScope, Cause!Act
  <1>5. CASE DoAuthority
    <2>1. RunPolicy = "by_history"
      BY <1>5 DEF DoAuthority, RunPolicy
    <2>2. Typed /\ messages \in Seq(Message)
      BY DEF PolicyInv, Typed, TypeOK
    <2>3. PICK content \in Contents, attempt \in Attempt, turn \in Nat :
             LET q == EvaluateAttempt(DeriveProvenance(messages, DefaultTarget),
                                      attempt, turn)
             IN  /\ Generate(content)
                 /\ misreader_skill_fired' = IsLaundering(q)
      BY <1>5, <2>2, DoAuthorityEffect
    <2>4. misreader_skill_fired' =
             (/\ attempt = DefaultTarget
              /\ ProposalTurns(messages, DefaultTarget) # {}
              /\ GrantTurns(messages, DefaultTarget) = {})
      BY <2>2, <2>3, VerdictOfAnAttempt DEF IsLaundering
    <2>5. misreader_skill_fired' \in {Cause!Launderable(messages), FALSE}
      BY <2>4 DEF Cause!Launderable, Cause!ProposalTurns, ProposalTurns,
                  Cause!GrantTurns, GrantTurns, Cause!DefaultTarget, DefaultTarget
    <2>6. \E c \in Contents :
             messages' = Append(messages, [speaker |-> "agent", content |-> c])
      BY <2>3 DEF Generate
    <2> QED
      BY <1>1, <1>3, <2>1, <2>5, <2>6 DEF Cause!Act
  <1>6. CASE DoMisreaderFires
    <2>1. RunPolicy = "fire"
      BY <1>2, <1>6, ShouldFireIsThePolicy DEF DoMisreaderFires
    <2>2. \E c \in Contents :
             messages' = Append(messages, [speaker |-> "agent", content |-> c])
      BY <1>6 DEF DoMisreaderFires, Generate
    <2>3. misreader_skill_fired' = TRUE
      BY <1>6 DEF DoMisreaderFires
    <2> QED
      BY <1>1, <1>3, <2>1, <2>2, <2>3 DEF Cause!Act
  <1>7. CASE DoMisreaderDoesNotFire
    <2>1. RunPolicy = "hold"
      BY <1>2, <1>7, ShouldFireIsThePolicy DEF DoMisreaderDoesNotFire
    <2>2. \E c \in Contents :
             messages' = Append(messages, [speaker |-> "agent", content |-> c])
      BY <1>7 DEF DoMisreaderDoesNotFire, Generate
    <2>3. misreader_skill_fired' = FALSE
      BY <1>7 DEF DoMisreaderDoesNotFire
    <2> QED
      BY <1>1, <1>3, <2>1, <2>2, <2>3 DEF Cause!Act
  <1> QED
    BY <1>4, <1>5, <1>6, <1>7 DEF Do

(* A node that raises ends the cause side too.                             *)
LEMMA RaiseIsBreakOff ==
    ASSUME PolicyInv, DoRaises \/ CheckRaises
    PROVE  Cause!BreakOff
  <1>1. RunPolicy' = RunPolicy
    BY PolicyIsStable DEF Next, Do
  <1> QED
    BY <1>1 DEF DoRaises, CheckRaises, Raises, causeVars, Phase, Cause!BreakOff

(* Nothing the checker does is visible on the cause side.                  *)
LEMMA CheckIsAStutter ==
    ASSUME PolicyInv, CheckObserves \/ CheckSkipped
    PROVE  UNCHANGED <<RunPolicy, messages, Phase, misreader_skill_fired>>
  <1>1. RunPolicy' = RunPolicy
    BY PolicyIsStable DEF Next
  <1> QED
    BY <1>1 DEF CheckObserves, CheckSkipped, Check, causeVars, Phase

(* explain only lets the cause side go on or stop.                         *)
LEMMA ExplainIsSettle ==
    ASSUME PolicyInv, Explain \/ ExplainSkipped
    PROVE  Cause!Settle
  <1>1. RunPolicy' = RunPolicy
    BY PolicyIsStable DEF Next
  <1> QED
    BY <1>1 DEF Explain, ExplainSkipped, RouteAfterCheck, causeVars, Phase,
                Cause!Settle

(* Every step of the loop is a step or a stutter of the cause side.        *)
LEMMA NextImplementsCauseNext ==
    ASSUME PolicyInv, [Next]_vars
    PROVE  [Cause!CauseSideNext]_(Cause!causeSideVars)
  <1>1. CASE UNCHANGED vars
    BY <1>1, PolicyIsStable DEF vars, causeVars, Phase, Cause!causeSideVars
  <1>2. CASE Plan
    BY <1>2, PlanIsDeliberate DEF Cause!CauseSideNext
  <1>3. CASE Do
    BY <1>3, DoIsAct, RaiseIsBreakOff DEF Cause!CauseSideNext
  <1>4. CASE CheckObserves \/ CheckSkipped
    BY <1>4, CheckIsAStutter DEF Cause!causeSideVars
  <1>5. CASE CheckRaises
    BY <1>5, RaiseIsBreakOff DEF Cause!CauseSideNext
  <1>6. CASE Explain \/ ExplainSkipped
    BY <1>6, ExplainIsSettle DEF Cause!CauseSideNext
  <1>7. CASE Terminated
    BY <1>1, <1>7 DEF Terminated
  <1> QED
    BY <1>1, <1>2, <1>3, <1>4, <1>5, <1>6, <1>7 DEF Next

(* The loop implements CauseSide: what fires and what is said is decided   *)
(* by the cause side alone, on every run.                                  *)
THEOREM LoopImplementsCauseSide == Spec => ImplementsCauseSide
  <1>1. Init => Cause!CauseSideInit
    BY InitIsCauseInit
  <1>2. PolicyInv /\ [Next]_vars => [Cause!CauseSideNext]_(Cause!causeSideVars)
    BY NextImplementsCauseNext
  <1> QED
    BY <1>1, <1>2, InitPolicyInv, PolicyInvInductive, PTL
       DEF Spec, ImplementsCauseSide, Cause!CauseSideSpec

-----------------------------------------------------------------------------
(* The observer side: the checker, the comparison, the explanation and the *)
(* step traces.  Each of them is about the text of the present iteration.  *)
(*                                                                         *)
(* Its inductive invariant, part by part.                                  *)

(* A recorded cause is about the last turn of the conversation, and stands *)
(* on the turns before it.                                                 *)
CauseIsOfTheLastText ==
    LET cause == authority_cause_record
        earlier == Before(messages, Len(messages))
    IN  cause # NoCause =>
            /\ InScope
            /\ UsesAuthorityProvenance
            /\ cause.provenance = authority_provenance
            /\ cause.drift_fired => IsLaundering(authority_provenance)
            /\ cause.drift_fired => cause.action_attempt = DefaultTarget
            /\ cause.action_attempt = DefaultTarget =>
                  /\ authority_provenance.prior_agent_proposal_turn =
                        FirstAgentProposalTurn(earlier, DefaultTarget)
                  /\ authority_provenance.principal_grant_turn =
                        FirstPrincipalGrantTurn(earlier, DefaultTarget)
                  /\ authority_provenance.action_attempt_turn = Len(messages)
            /\ node \in {"plan", "check", "explain", "end"} =>
                  misreader_skill_fired = cause.drift_fired

(* A prompt's run has a template and a skill exactly when its contract was *)
(* detected, and such a contract names an axis.                            *)
RunIsOfItsContract ==
    run.loop_source = "prompt_contract" =>
        /\ run.template = NoTemplate <=> run.selected_skill_id = NoSkill
        /\ run.selected_skill_id # NoSkill =>
              /\ run.prompt_contract_status = "contract_detected"
              /\ InScope

(* A run in scope has a text to check. *)
TextIsGenerated ==
    /\ InScope
    /\ node \in {"check", "explain", "end"}
    => bad_response # NoTurn

(* The axis the state reports, and its failure mode. *)
AxisOfTheIteration ==
    /\ node = "do" => substituted = run.expected_substituted
    /\ RunPolicy \in {"silent", "fire"} =>
          failure_mode = ExpectedFailure[run.expected_substituted]
    /\ node \in {"check", "explain", "end"} =>
          /\ failure_mode = ExpectedFailure[substituted]
          /\ SupportedPromptContract /\ ~misreader_skill_fired =>
                substituted = "none"

(* What the comparison of a prompt-derived loop ends in. *)
ComparisonOfTheIteration ==
    /\ run.loop_source = "prompt_contract"
    /\ node \in {"explain", "end"}
    => IF SupportedPromptContract
       THEN /\ checker_observation.ran
            /\ observation_outcome =
                  ObservationOutcome(misreader_skill_fired,
                                     checker_observation.bypass)
            /\ checker_matches_expected <=>
                  (checker_observation.bypass = misreader_skill_fired)
       ELSE /\ ~checker_observation.ran
            /\ observation_outcome = "not_applicable"

(* The last step trace is the one of the node before the next one. *)
LastTraceIsOfTheLastNode ==
    LET n == Len(step_traces)
        Kind(i) == step_traces[i].step_kind
    IN  CASE node = "plan" -> n > 0 => Kind(n) \in {"check", "explain"}
          [] node = "do" -> n > 0 /\ Kind(n) = "plan"
          [] node = "check" ->
                /\ n > 0
                /\ Kind(n) = "do"
                /\ step_traces[n].misreader_skill_fired = misreader_skill_fired
          [] node = "explain" ->
                /\ n > 1
                /\ Kind(n) = "check"
                /\ step_traces[n].checker_ran = checker_observation.ran
                /\ step_traces[n - 1].misreader_skill_fired = misreader_skill_fired
          [] OTHER -> TRUE

ObserverInv ==
    /\ PolicyInv
    /\ CauseIsOfTheLastText
    /\ RunIsOfItsContract
    /\ TextIsGenerated
    /\ AxisOfTheIteration
    /\ ComparisonOfTheIteration
    /\ ExplanationIsFresh
    /\ CheckerSeesTheHistoryOfTheCause
    /\ StepTracesFollowTheGraph
    /\ LastTraceIsOfTheLastNode

-----------------------------------------------------------------------------
(* Lemmas about the operators of the observer side. *)

(* A context about a target is read off the turns before the last one.     *)
LEMMA ContextOfTheDefaultTarget ==
    ASSUME NEW attempt \in Attempt,
           ContextForChecker(attempt).target = DefaultTarget
    PROVE  LET context == ContextForChecker(attempt)
               earlier == Before(messages, Len(messages))
           IN  /\ context.prior_agent_proposal_turn =
                     FirstAgentProposalTurn(earlier, DefaultTarget)
               /\ context.principal_grant_turn =
                     FirstPrincipalGrantTurn(earlier, DefaultTarget)
               /\ context.generated_action_attempt_turn = Len(messages)
  <1>1. ContextForChecker(attempt) # NoCheckerContext
    BY TargetsAssumption DEF NoCheckerContext
  <1>2. ContextForChecker(attempt) =
           DeriveCheckerContext(messages, attempt, Len(messages))
    BY <1>1 DEF ContextForChecker
  <1> QED
    BY <1>2, ContextOfTheTarget

(* The comparison of a prompt-derived loop, by its cases. *)
LEMMA CompareOfAPrompt ==
    ASSUME NEW template, NEW fired \in BOOLEAN, NEW observation
    PROVE  LET comparison ==
                  Compare("prompt_contract", template, fired, observation)
           IN  /\ template = NoTemplate =>
                     comparison.observation_outcome = "not_applicable"
               /\ template # NoTemplate =>
                     /\ comparison.observation_outcome =
                           ObservationOutcome(fired, observation.bypass)
                     /\ comparison.matches_expected =
                           (observation.ran /\ observation.bypass = fired)
  BY DEF Compare, ExpectedBypass, MatchesExpected

(* What an outcome says about its two sides. *)
LEMMA OutcomeOfBothSides ==
    ASSUME NEW fired \in BOOLEAN, NEW bypass \in BOOLEAN
    PROVE  LET outcome == ObservationOutcome(fired, bypass)
           IN  /\ outcome # "not_applicable"
               /\ outcome \in {"observation_succeeded",
                               "checker_missed_boundary_event"} <=> fired
               /\ outcome = "matched_no_boundary_event" <=> ~fired /\ ~bypass
  BY DEF ObservationOutcome

(* The new trace is the last, the earlier ones are kept.                   *)
LEMMA StepUpdateAppends ==
    ASSUME step_traces \in Seq(StepTrace), step_index = Len(step_traces),
           NEW kind \in {"plan", "do", "check", "explain"},
           NEW fired \in BOOLEAN, NEW ran \in BOOLEAN, NEW bypass \in BOOLEAN,
           NEW axis, StepUpdate(kind, fired, ran, bypass, axis)
    PROVE  LET n == Len(step_traces)
           IN  /\ n \in Nat
               /\ Len(step_traces') = n + 1
               /\ step_index' = n + 1
               /\ \A i \in 1..n : step_traces'[i] = step_traces[i]
               /\ step_traces'[n + 1].step_index = n
               /\ step_traces'[n + 1].step_kind = kind
               /\ step_traces'[n + 1].checker_ran = ran
               /\ step_traces'[n + 1].misreader_skill_fired = fired
  BY DEF StepUpdate

-----------------------------------------------------------------------------
(* The invariant holds when the graph is invoked. *)

(* A contract with a skill was detected, and its axis puts the run in      *)
(* scope; a contract without one has no template.                          *)
LEMMA RunFromContractIsOfIt ==
    ASSUME NEW c \in Contract, NEW decision, NEW signals, NEW max, NEW turns,
           run = RunFromContract(c, decision, signals, max, turns)
    PROVE  RunIsOfItsContract
  <1>1. c \in ContractShape /\ ConsistentStatus(c)
    BY DEF Contract
  <1>2. /\ c.status \in Statuses
        /\ c.substitution_axis \in Axes \cup {NoAxis}
    BY <1>1 DEF ContractShape
  <1>3. c.selected_skill_id # NoSkill =>
           c.status = "contract_detected" /\ c.substitution_axis # NoAxis
    BY <1>1, <1>2 DEF ConsistentStatus, Statuses
  <1>4. [bypass |-> FALSE, substituted |-> "none"] # NoTemplate
    BY DEF NoTemplate
  <1>5. "none" \notin Axes
    BY DEF Axes
  <1>6. /\ run.selected_skill_id = c.selected_skill_id
        /\ run.prompt_contract_status = c.status
        /\ run.expected_substituted =
              IF IsSupported(c) /\ c.substitution_axis # NoAxis
              THEN c.substitution_axis ELSE "none"
        /\ run.template = IF c.selected_skill_id # NoSkill
                          THEN [bypass |-> FALSE, substituted |-> "none"]
                          ELSE NoTemplate
    BY DEF RunFromContract
  <1> QED
    BY <1>2, <1>3, <1>4, <1>5, <1>6 DEF RunIsOfItsContract, InScope, IsSupported

(* Nothing is recorded, generated, observed or traced yet.                 *)
LEMMA InitObserverInv == Init => ObserverInv
  <1> SUFFICES ASSUME Init
               PROVE  ObserverInv
    OBVIOUS
  <1>1. PolicyInv
    BY InitPolicyInv
  <1>2. CauseIsOfTheLastText
    BY DEF Init, CauseIsOfTheLastText
  <1>3. RunIsOfItsContract
    <2>1. CASE InitFixed
      BY <2>1 DEF InitFixed, RunFromScenario, RunIsOfItsContract
    <2>2. CASE InitPrompt
      <3>1. PICK c \in DetectedContracts(DeriveProvenance(messages, DefaultTarget)),
                 decision \in Decisions, signals \in FiringSignals,
                 max \in IterationLimits :
               run = RunFromContract(c, decision, signals, max, Len(messages))
        BY <2>2 DEF InitPrompt
      <3>2. c \in Contract
        BY DEF DetectedContracts
      <3> QED
        BY <3>1, <3>2, RunFromContractIsOfIt
    <2> QED
      BY <2>1, <2>2 DEF Init
  <1>4. TextIsGenerated /\ AxisOfTheIteration /\ ComparisonOfTheIteration
    BY DEF Init, TextIsGenerated, AxisOfTheIteration, ComparisonOfTheIteration
  <1>5. ExplanationIsFresh /\ CheckerSeesTheHistoryOfTheCause
    BY DEF Init, ExplanationIsFresh, CheckerSeesTheHistoryOfTheCause
  <1>6. StepTracesFollowTheGraph /\ LastTraceIsOfTheLastNode
    BY DEF Init, StepTracesFollowTheGraph, LastTraceIsOfTheLastNode
  <1> QED
    BY <1>1, <1>2, <1>3, <1>4, <1>5, <1>6 DEF ObserverInv

-----------------------------------------------------------------------------
(* The steps keep it, part by part. *)

(* Outside do, and out of the authority path, the recorded cause is left   *)
(* alone together with the history it was decided from.                    *)
LEMMA StepsOfAnAuthorityRun ==
    ASSUME [Next]_vars, InScope, UsesAuthorityProvenance, ~DoAuthority
    PROVE  /\ UNCHANGED <<messages, authority_provenance, authority_cause_record>>
           /\ node' \in {"plan", "check", "explain", "end"} =>
                 /\ node \in {"plan", "check", "explain", "end"}
                 /\ misreader_skill_fired' = misreader_skill_fired
  <1>1. CASE UNCHANGED vars
    BY <1>1 DEF vars, causeVars
  <1>2. CASE Plan
    BY <1>2 DEF Plan
  <1>3. CASE DoOutOfScope \/ DoMisreaderFires \/ DoMisreaderDoesNotFire
    BY <1>3 DEF DoOutOfScope, DoMisreaderFires, DoMisreaderDoesNotFire
  <1>4. CASE DoRaises \/ CheckRaises
    BY <1>4 DEF DoRaises, CheckRaises, Raises, causeVars
  <1>5. CASE CheckObserves \/ CheckSkipped
    BY <1>5 DEF CheckObserves, CheckSkipped, Check, causeVars
  <1>6. CASE Explain \/ ExplainSkipped
    BY <1>6 DEF Explain, ExplainSkipped, causeVars
  <1>7. CASE Terminated
    BY <1>7 DEF Terminated, vars, causeVars
  <1> QED
    BY <1>1, <1>2, <1>3, <1>4, <1>5, <1>6, <1>7 DEF Next, Do

(* The authority path records a cause about the text it has generated.     *)
LEMMA DoAuthorityRecordsItsText ==
    ASSUME Typed, DoAuthority
    PROVE  CauseIsOfTheLastText'
  <1>1. messages \in Seq(Message) /\ Len(messages) \in Nat
    BY DEF Typed, TypeOK
  <1>2. PICK content \in Contents, attempt \in Attempt, turn \in Nat :
           LET q == EvaluateAttempt(DeriveProvenance(messages, DefaultTarget),
                                    attempt, turn)
           IN  /\ Generate(content)
               /\ turn = IF attempt = NoTarget THEN NoTurn ELSE Len(messages) + 1
               /\ authority_provenance' = q
               /\ authority_cause_record'.provenance = q
               /\ authority_cause_record'.action_attempt = attempt
               /\ authority_cause_record'.drift_fired = IsLaundering(q)
               /\ misreader_skill_fired' = IsLaundering(q)
    BY DoAuthorityEffect
  <1> DEFINE q == EvaluateAttempt(DeriveProvenance(messages, DefaultTarget),
                                  attempt, turn)
             m == [speaker |-> "agent", content |-> content]
  <1>3. /\ messages' = Append(messages, m)
        /\ turn = IF attempt = NoTarget THEN NoTurn ELSE Len(messages) + 1
        /\ authority_provenance' = q
        /\ authority_cause_record'.provenance = q
        /\ authority_cause_record'.action_attempt = attempt
        /\ authority_cause_record'.drift_fired = IsLaundering(q)
        /\ misreader_skill_fired' = IsLaundering(q)
    BY <1>2 DEF Generate
  <1>4. IsLaundering(q) => attempt = DefaultTarget
    BY <1>1, VerdictOfAnAttempt
  <1>5. attempt = DefaultTarget =>
           /\ q.prior_agent_proposal_turn =
                 FirstAgentProposalTurn(messages, DefaultTarget)
           /\ q.principal_grant_turn =
                 FirstPrincipalGrantTurn(messages, DefaultTarget)
           /\ q.action_attempt_turn = turn
    BY <1>1, AttemptOfTheDefaultTarget
  <1> HIDE DEF q
  <1>6. m \in Message
    BY DEF Message, Speakers
  <1>7. /\ Before(messages', Len(messages')) = messages
        /\ Len(messages') = Len(messages) + 1
    BY <1>1, <1>3, <1>6, BeforeTheAppended
  <1>8. run' = run /\ InScope' /\ UsesAuthorityProvenance'
    BY UsesAuthorityIsStable DEF DoAuthority, Next, Do, InScope
  <1>9. attempt = DefaultTarget => turn = Len(messages')
    BY <1>3, <1>7, TargetsAssumption
  <1> QED
    BY <1>3, <1>4, <1>5, <1>7, <1>8, <1>9 DEF CauseIsOfTheLastText

(* No step separates a recorded cause from its text.                       *)
LEMMA CauseStaysWithItsText ==
    ASSUME Typed, CauseIsOfTheLastText, [Next]_vars
    PROVE  CauseIsOfTheLastText'
  <1>1. CASE DoAuthority
    BY <1>1, DoAuthorityRecordsItsText
  <1>2. CASE ~DoAuthority
    <2> SUFFICES ASSUME authority_cause_record' # NoCause
                 PROVE  CauseIsOfTheLastText'
      BY DEF CauseIsOfTheLastText
    <2>1. authority_cause_record' = authority_cause_record /\ run' = run
      BY <1>2, StepsOfTheCause
    <2>2. InScope /\ UsesAuthorityProvenance
      BY <2>1 DEF CauseIsOfTheLastText
    <2>3. InScope' /\ UsesAuthorityProvenance'
      BY <2>1, <2>2, UsesAuthorityIsStable DEF InScope
    <2>4. /\ UNCHANGED <<messages, authority_provenance, authority_cause_record>>
          /\ node' \in {"plan", "check", "explain", "end"} =>
                /\ node \in {"plan", "check", "explain", "end"}
                /\ misreader_skill_fired' = misreader_skill_fired
      BY <1>2, <2>2, StepsOfAnAuthorityRun
    <2> QED
      BY <2>1, <2>3, <2>4 DEF CauseIsOfTheLastText
  <1> QED
    BY <1>1, <1>2

(* A run in scope leaves do with a text, and only do replaces it.          *)
LEMMA TextStaysGenerated ==
    ASSUME Typed, TextIsGenerated, [Next]_vars
    PROVE  TextIsGenerated'
  <1>1. run' = run /\ (InScope' <=> InScope)
    BY StepsOfTheCause DEF InScope
  <1>2. Len(messages) \in Nat
    BY DEF Typed, TypeOK
  <1>3. CASE UNCHANGED vars
    BY <1>1, <1>3 DEF vars, causeVars, TextIsGenerated
  <1>4. CASE Plan
    BY <1>4 DEF Plan, TextIsGenerated
  <1>5. CASE DoOutOfScope
    BY <1>1, <1>5 DEF DoOutOfScope, TextIsGenerated
  <1>6. CASE DoAuthority \/ DoMisreaderFires \/ DoMisreaderDoesNotFire
    <2>1. bad_response' = Len(messages) + 1
      BY <1>6 DEF DoAuthority, DoMisreaderFires, DoMisreaderDoesNotFire, Generate
    <2> QED
      BY <1>2, <2>1 DEF TextIsGenerated, NoTurn
  <1>7. CASE DoRaises \/ CheckRaises
    BY <1>7 DEF DoRaises, CheckRaises, Raises, TextIsGenerated
  <1>8. CASE CheckObserves \/ CheckSkipped
    BY <1>1, <1>8 DEF CheckObserves, CheckSkipped, Check, causeVars, TextIsGenerated
  <1>9. CASE Explain \/ ExplainSkipped
    BY <1>1, <1>9 DEF Explain, ExplainSkipped, causeVars, TextIsGenerated
  <1>10. CASE Terminated
    BY <1>3, <1>10 DEF Terminated
  <1> QED
    BY <1>3, <1>4, <1>5, <1>6, <1>7, <1>8, <1>9, <1>10 DEF Next, Do

(* The axis and its failure mode agree after do, whichever branch it took: *)
(* the branch that fires sets neither, but a run that fires always fires.  *)
LEMMA AxisStaysWithItsFailureMode ==
    ASSUME PolicyInv, AxisOfTheIteration, [Next]_vars
    PROVE  AxisOfTheIteration'
  <1>1. run' = run /\ RunPolicy' = RunPolicy
    BY StepsOfTheCause, PolicyIsStable
  <1>2. SupportedPromptContract' <=> SupportedPromptContract
    BY <1>1 DEF SupportedPromptContract
  <1>3. CASE UNCHANGED vars
    BY <1>1, <1>2, <1>3 DEF vars, causeVars, axisVars, AxisOfTheIteration
  <1>4. CASE Plan
    BY <1>1, <1>4 DEF Plan, AxisOfTheIteration
  <1>5. CASE DoOutOfScope
    <2>1. RunPolicy = "silent" /\ run.expected_substituted = "none"
      BY <1>5 DEF DoOutOfScope, RunPolicy, InScope
    <2>2. /\ node = "do" /\ node' = "check"
          /\ UNCHANGED <<substituted, failure_mode>>
      BY <1>5 DEF DoOutOfScope, axisVars
    <2> QED
      BY <1>1, <2>1, <2>2 DEF AxisOfTheIteration
  <1>6. CASE DoAuthority
    <2>1. RunPolicy = "by_history"
      BY <1>6 DEF DoAuthority, RunPolicy
    <2>2. PICK axis :
             /\ substituted' = axis
             /\ failure_mode' = ExpectedFailure[axis]
             /\ ~misreader_skill_fired' => axis = "none"
      BY <1>6 DEF DoAuthority
    <2>3. node' = "check"
      BY <1>6 DEF DoAuthority
    <2> QED
      BY <1>1, <2>1, <2>2, <2>3 DEF AxisOfTheIteration
  <1>7. CASE DoMisreaderFires
    <2>1. RunPolicy = "fire"
      BY <1>7, ShouldFireIsThePolicy DEF DoMisreaderFires
    <2>2. /\ node = "do" /\ node' = "check"
          /\ misreader_skill_fired' = TRUE
          /\ UNCHANGED <<substituted, failure_mode>>
      BY <1>7 DEF DoMisreaderFires, axisVars
    <2> QED
      BY <1>1, <2>1, <2>2 DEF AxisOfTheIteration
  <1>8. CASE DoMisreaderDoesNotFire
    <2>1. RunPolicy = "hold"
      BY <1>8, ShouldFireIsThePolicy DEF DoMisreaderDoesNotFire
    <2>2. /\ node' = "check"
          /\ failure_mode' = ExpectedFailure[substituted']
          /\ SupportedPromptContract => substituted' = "none"
      BY <1>8 DEF DoMisreaderDoesNotFire
    <2> QED
      BY <1>1, <1>2, <2>1, <2>2 DEF AxisOfTheIteration
  <1>9. CASE DoRaises \/ CheckRaises
    BY <1>1, <1>9 DEF DoRaises, CheckRaises, Raises, axisVars, AxisOfTheIteration
  <1>10. CASE CheckObserves \/ CheckSkipped
    BY <1>1, <1>2, <1>10
       DEF CheckObserves, CheckSkipped, Check, causeVars, axisVars,
           AxisOfTheIteration
  <1>11. CASE Explain \/ ExplainSkipped
    BY <1>1, <1>2, <1>11
       DEF Explain, ExplainSkipped, causeVars, axisVars, RouteAfterCheck,
           AxisOfTheIteration
  <1>12. CASE Terminated
    BY <1>3, <1>12 DEF Terminated
  <1> QED
    BY <1>3, <1>4, <1>5, <1>6, <1>7, <1>8, <1>9, <1>10, <1>11, <1>12 DEF Next, Do

(* What check leaves behind on a prompt-derived loop.                      *)
LEMMA CheckComparesAPrompt ==
    ASSUME Typed, RunIsOfItsContract, TextIsGenerated,
           run.loop_source = "prompt_contract",
           CheckObserves \/ CheckSkipped
    PROVE  ComparisonOfTheIteration'
  <1>1. misreader_skill_fired \in BOOLEAN /\ node = "check"
    BY DEF Typed, TypeOK, CheckObserves, CheckSkipped
  <1>2. /\ SupportedPromptContract <=> run.selected_skill_id # NoSkill
        /\ SupportedPromptContract <=> run.template # NoTemplate
        /\ SupportedPromptContract <=> CheckerRuns
    BY <1>1 DEF RunIsOfItsContract, SupportedPromptContract, TextIsGenerated,
                CheckerRuns
  <1>3. ASSUME NEW observation, NEW context, Check(observation, context)
        PROVE  LET comparison == Compare("prompt_contract", run.template,
                                         misreader_skill_fired, observation)
               IN  /\ checker_observation' = observation
                   /\ observation_outcome' = comparison.observation_outcome
                   /\ checker_matches_expected' = comparison.matches_expected
                   /\ UNCHANGED <<run, misreader_skill_fired>>
    BY <1>3 DEF Check, causeVars
  <1>4. CASE CheckObserves
    <2>1. PICK observation \in Observations, attempt \in Attempt :
             Check(observation, ContextForChecker(attempt))
      BY <1>4 DEF CheckObserves
    <2>2. observation.ran = TRUE /\ observation.bypass \in BOOLEAN
      BY ObservationsAssumption DEF Observation
    <2>3. SupportedPromptContract /\ run.template # NoTemplate
      BY <1>2, <1>4 DEF CheckObserves
    <2>4. /\ checker_observation' = observation
          /\ observation_outcome' = ObservationOutcome(misreader_skill_fired,
                                                       observation.bypass)
          /\ checker_matches_expected' =
                (observation.ran /\ observation.bypass = misreader_skill_fired)
          /\ UNCHANGED <<run, misreader_skill_fired>>
      BY <1>1, <1>3, <2>1, <2>3, CompareOfAPrompt
    <2>5. SupportedPromptContract'
      BY <2>3, <2>4 DEF SupportedPromptContract
    <2> QED
      BY <2>2, <2>4, <2>5 DEF ComparisonOfTheIteration
  <1>5. CASE CheckSkipped
    <2>1. Check(NoObservation, NoCheckerContext) /\ ~CheckerRuns
      BY <1>5 DEF CheckSkipped
    <2>2. ~SupportedPromptContract /\ run.template = NoTemplate
      BY <1>2, <2>1
    <2>3. /\ checker_observation' = NoObservation
          /\ observation_outcome' = "not_applicable"
          /\ UNCHANGED run
      BY <1>1, <1>3, <2>1, <2>2, CompareOfAPrompt
    <2>4. ~SupportedPromptContract'
      BY <2>2, <2>3 DEF SupportedPromptContract
    <2> QED
      BY <2>3, <2>4 DEF ComparisonOfTheIteration, NoObservation
  <1> QED
    BY <1>4, <1>5

(* The comparison of an iteration stands until the next do.                *)
LEMMA ComparisonStands ==
    ASSUME Typed, RunIsOfItsContract, TextIsGenerated, ComparisonOfTheIteration,
           [Next]_vars
    PROVE  ComparisonOfTheIteration'
  <1>1. run' = run /\ (SupportedPromptContract' <=> SupportedPromptContract)
    BY StepsOfTheCause DEF SupportedPromptContract
  <1>2. CASE UNCHANGED vars
    BY <1>1, <1>2
       DEF vars, causeVars, observationVars, ComparisonOfTheIteration
  <1>3. CASE Plan
    BY <1>3 DEF Plan, ComparisonOfTheIteration
  <1>4. CASE Do
    BY <1>4 DEF Do, DoOutOfScope, DoAuthority, DoMisreaderFires,
                DoMisreaderDoesNotFire, DoRaises, Raises, ComparisonOfTheIteration
  <1>5. CASE CheckObserves \/ CheckSkipped
    <2>1. CASE run.loop_source = "prompt_contract"
      BY <1>5, <2>1, CheckComparesAPrompt
    <2>2. CASE run.loop_source # "prompt_contract"
      BY <1>1, <2>2 DEF ComparisonOfTheIteration
    <2> QED
      BY <2>1, <2>2
  <1>6. CASE CheckRaises
    BY <1>6 DEF CheckRaises, Raises, ComparisonOfTheIteration
  <1>7. CASE Explain \/ ExplainSkipped
    BY <1>1, <1>7 DEF Explain, ExplainSkipped, causeVars, observationVars,
                      ComparisonOfTheIteration
  <1>8. CASE Terminated
    BY <1>2, <1>8 DEF Terminated
  <1> QED
    BY <1>2, <1>3, <1>4, <1>5, <1>6, <1>7, <1>8 DEF Next

(* An explanation is set after a drift that was checked, and dropped by    *)
(* plan before anything else is generated.                                 *)
LEMMA ExplanationStaysFresh ==
    ASSUME Typed, CauseInv, CauseIsOfTheLastText, ExplanationIsFresh, [Next]_vars
    PROVE  ExplanationIsFresh'
  <1>1. CASE UNCHANGED vars \/ Terminated
    BY <1>1 DEF vars, causeVars, observationVars, explainVars, Terminated,
                ExplanationIsFresh
  <1>2. CASE Plan
    BY <1>2 DEF Plan, ExplanationIsFresh
  <1>3. CASE node \in {"do", "check"} /\ self_explanation' = self_explanation
    BY <1>3 DEF ExplanationIsFresh
  <1>4. CASE ExplainSkipped
    <2>1. node = "explain" /\ self_explanation' = self_explanation
      BY <1>4 DEF ExplainSkipped, explainVars
    <2> QED
      BY <2>1 DEF ExplanationIsFresh
  <1>5. CASE Explain
    <2>1. /\ node = "explain"
          /\ node' \in {"plan", "end"}
          /\ authority_cause_record.drift_fired
          /\ checker_observation.ran
          /\ UNCHANGED <<messages, misreader_skill_fired, authority_provenance,
                         authority_cause_record, checker_observation>>
      BY <1>5 DEF Explain, ShouldExplain, RouteAfterCheck, causeVars,
                  observationVars
    <2>2. authority_cause_record # NoCause
      BY <2>1 DEF NoCause
    <2>3. /\ authority_cause_record.provenance = authority_provenance
          /\ authority_cause_record.action_attempt = DefaultTarget
          /\ misreader_skill_fired = authority_cause_record.drift_fired
      BY <2>1, <2>2 DEF CauseIsOfTheLastText
    <2>4. authority_provenance.action_attempt_turn = Len(messages)
      BY <2>1, <2>2, <2>3 DEF CauseIsOfTheLastText
    <2> QED
      BY <2>1, <2>3, <2>4 DEF ExplanationIsFresh
  <1> QED
    BY <1>1, <1>2, <1>3, <1>4, <1>5
       DEF Next, Do, DoOutOfScope, DoAuthority, DoMisreaderFires,
           DoMisreaderDoesNotFire, DoRaises, CheckObserves, CheckSkipped,
           CheckRaises, Check, Raises, explainVars

(* The checker's context is derived again from a history one turn longer,  *)
(* and names the turns of the cause.                                       *)
LEMMA CheckerSeesTheCauseAgain ==
    ASSUME Typed, CauseIsOfTheLastText, CheckerSeesTheHistoryOfTheCause,
           [Next]_vars
    PROVE  CheckerSeesTheHistoryOfTheCause'
  <1>1. CASE UNCHANGED vars \/ Terminated
    BY <1>1 DEF vars, causeVars, observationVars, Terminated,
                CheckerSeesTheHistoryOfTheCause
  <1>2. CASE Plan
    BY <1>2 DEF Plan, CheckerSeesTheHistoryOfTheCause
  <1>3. CASE Do
    BY <1>3 DEF Do, DoOutOfScope, DoAuthority, DoMisreaderFires,
                DoMisreaderDoesNotFire, DoRaises, Raises,
                CheckerSeesTheHistoryOfTheCause
  <1>4. CASE CheckObserves
    <2>1. PICK observation \in Observations, attempt \in Attempt :
             Check(observation, ContextForChecker(attempt))
      BY <1>4 DEF CheckObserves
    <2>2. /\ checker_context' = ContextForChecker(attempt)
          /\ UNCHANGED <<messages, authority_provenance, authority_cause_record>>
      BY <2>1 DEF Check, causeVars
    <2> SUFFICES ASSUME ContextForChecker(attempt).target = DefaultTarget,
                        authority_cause_record.action_attempt = DefaultTarget
                 PROVE  CheckerSeesTheHistoryOfTheCause'
      BY <2>2 DEF CheckerSeesTheHistoryOfTheCause
    <2>3. authority_cause_record # NoCause
      BY TargetsAssumption DEF NoCause
    <2> QED
      BY <2>2, <2>3, ContextOfTheDefaultTarget
         DEF CauseIsOfTheLastText, CheckerSeesTheHistoryOfTheCause
  <1>5. CASE CheckSkipped
    <2>1. checker_context'.target # DefaultTarget
      BY <1>5, TargetsAssumption DEF CheckSkipped, Check, NoCheckerContext
    <2> QED
      BY <2>1 DEF CheckerSeesTheHistoryOfTheCause
  <1>6. CASE CheckRaises
    BY <1>6 DEF CheckRaises, Raises, CheckerSeesTheHistoryOfTheCause
  <1>7. CASE Explain \/ ExplainSkipped
    BY <1>7 DEF Explain, ExplainSkipped, causeVars, observationVars,
                CheckerSeesTheHistoryOfTheCause
  <1> QED
    BY <1>1, <1>2, <1>3, <1>4, <1>5, <1>6, <1>7 DEF Next

-----------------------------------------------------------------------------
(* The step traces. *)

TracesInv == StepTracesFollowTheGraph /\ LastTraceIsOfTheLastNode

(* What StepTracesFollowTheGraph says of one trace. *)
TraceFollows(traces, i) ==
    LET Kind(j) == traces[j].step_kind
    IN  /\ traces[i].step_index = i - 1
        /\ i = 1 => Kind(i) = "plan"
        /\ i > 1 => <<Kind(i - 1), Kind(i)>> \in
              {<<"plan", "do">>, <<"do", "check">>, <<"check", "explain">>,
               <<"check", "plan">>, <<"explain", "plan">>}
        /\ Kind(i) = "explain" =>
              /\ i > 2
              /\ traces[i - 1].checker_ran
              /\ traces[i - 2].misreader_skill_fired

(* A step that appends a trace keeps the earlier ones as they were.        *)
LEMMA AppendedTraceFollows ==
    ASSUME Typed, StepTracesFollowTheGraph,
           NEW kind \in {"plan", "do", "check", "explain"},
           NEW fired \in BOOLEAN, NEW ran \in BOOLEAN, NEW bypass \in BOOLEAN,
           NEW axis, StepUpdate(kind, fired, ran, bypass, axis),
           TraceFollows(step_traces', Len(step_traces) + 1)
    PROVE  StepTracesFollowTheGraph'
  <1> DEFINE n == Len(step_traces)
  <1>1. step_traces \in Seq(StepTrace) /\ step_index = n
    BY DEF Typed, TypeOK, StepTracesFollowTheGraph
  <1>2. /\ n \in Nat
        /\ Len(step_traces') = n + 1
        /\ step_index' = n + 1
        /\ \A i \in 1..n : step_traces'[i] = step_traces[i]
    BY <1>1, StepUpdateAppends
  <1>3. step_traces' \in Seq(StepTrace)
    BY <1>1, <1>2, StepUpdateType DEF Typed, TypeOK
  <1>4. DOMAIN step_traces = 1..n /\ DOMAIN step_traces' = 1..(n + 1)
    BY <1>1, <1>2, <1>3
  <1>5. \A i \in 1..n : TraceFollows(step_traces, i)
    BY <1>4 DEF StepTracesFollowTheGraph, TraceFollows
  <1>6. TraceFollows(step_traces', n + 1)
    OBVIOUS
  <1> HIDE DEF n
  <1>7. ASSUME NEW i \in 1..n
        PROVE  TraceFollows(step_traces', i)
    <2>1. /\ step_traces'[i] = step_traces[i]
          /\ i > 1 => step_traces'[i - 1] = step_traces[i - 1]
          /\ i > 2 => step_traces'[i - 2] = step_traces[i - 2]
      BY <1>2, <1>7
    <2>2. TraceFollows(step_traces, i)
      BY <1>5, <1>7
    <2> QED
      BY <1>2, <1>7, <2>1, <2>2 DEF TraceFollows
  <1>8. \A i \in DOMAIN step_traces' : TraceFollows(step_traces', i)
    BY <1>2, <1>4, <1>6, <1>7
  <1> QED
    BY <1>2, <1>8 DEF StepTracesFollowTheGraph, TraceFollows

(* plan's trace follows nothing, a check or an explanation.                *)
LEMMA PlanIsTraced ==
    ASSUME Typed, TracesInv, Plan
    PROVE  TracesInv'
  <1> DEFINE n == Len(step_traces)
  <1>1. /\ step_traces \in Seq(StepTrace) /\ step_index = n
        /\ StepUpdate("plan", FALSE, FALSE, FALSE, "none")
        /\ node = "plan" /\ node' = "do"
    BY DEF Typed, TypeOK, TracesInv, StepTracesFollowTheGraph, Plan
  <1>2. /\ n \in Nat
        /\ Len(step_traces') = n + 1
        /\ \A i \in 1..n : step_traces'[i] = step_traces[i]
        /\ step_traces'[n + 1].step_index = n
        /\ step_traces'[n + 1].step_kind = "plan"
    BY <1>1, StepUpdateAppends
  <1>3. n > 0 => step_traces[n].step_kind \in {"check", "explain"}
    BY <1>1 DEF TracesInv, LastTraceIsOfTheLastNode
  <1> HIDE DEF n
  <1>4. TraceFollows(step_traces', n + 1)
    BY <1>2, <1>3 DEF TraceFollows
  <1>5. StepTracesFollowTheGraph'
    BY <1>1, <1>4, AppendedTraceFollows DEF TracesInv, n
  <1>6. LastTraceIsOfTheLastNode'
    BY <1>1, <1>2 DEF LastTraceIsOfTheLastNode
  <1> QED
    BY <1>5, <1>6 DEF TracesInv

(* do's trace follows plan's, whichever branch it took.                    *)
LEMMA DoIsTraced ==
    ASSUME Typed, TracesInv, Typed', Do, ~DoRaises
    PROVE  TracesInv'
  <1> DEFINE n == Len(step_traces)
  <1>1. PICK axis :
           StepUpdate("do", misreader_skill_fired', FALSE, FALSE, axis)
    BY DEF Do, DoOutOfScope, DoAuthority, DoMisreaderFires,
           DoMisreaderDoesNotFire
  <1>2. /\ step_traces \in Seq(StepTrace) /\ step_index = n
        /\ misreader_skill_fired' \in BOOLEAN
        /\ node = "do" /\ node' = "check"
    BY DEF Typed, TypeOK, TracesInv, StepTracesFollowTheGraph, Do, DoOutOfScope,
           DoAuthority, DoMisreaderFires, DoMisreaderDoesNotFire
  <1>3. /\ n \in Nat
        /\ Len(step_traces') = n + 1
        /\ \A i \in 1..n : step_traces'[i] = step_traces[i]
        /\ step_traces'[n + 1].step_index = n
        /\ step_traces'[n + 1].step_kind = "do"
        /\ step_traces'[n + 1].misreader_skill_fired = misreader_skill_fired'
    BY <1>1, <1>2, StepUpdateAppends
  <1>4. n > 0 /\ step_traces[n].step_kind = "plan"
    BY <1>2 DEF TracesInv, LastTraceIsOfTheLastNode
  <1>5. StepTracesFollowTheGraph'
    <2> HIDE DEF n
    <2>1. TraceFollows(step_traces', n + 1)
      BY <1>3, <1>4 DEF TraceFollows
    <2> QED
      BY <1>1, <1>2, <2>1, AppendedTraceFollows DEF TracesInv, n
  <1>6. LastTraceIsOfTheLastNode'
    BY <1>2, <1>3 DEF LastTraceIsOfTheLastNode
  <1> QED
    BY <1>5, <1>6 DEF TracesInv

(* check's trace follows do's and reports whether the checker ran.         *)
LEMMA CheckIsTraced ==
    ASSUME Typed, TracesInv, Typed', CheckObserves \/ CheckSkipped
    PROVE  TracesInv'
  <1> DEFINE n == Len(step_traces)
  <1>1. PICK axis :
           StepUpdate("check", misreader_skill_fired, checker_observation'.ran,
                      checker_observation'.bypass, axis)
    BY DEF CheckObserves, CheckSkipped, Check
  <1>2. /\ step_traces \in Seq(StepTrace) /\ step_index = n
        /\ misreader_skill_fired \in BOOLEAN
        /\ checker_observation' \in Observation \cup {NoObservation}
        /\ node = "check" /\ node' = "explain"
        /\ misreader_skill_fired' = misreader_skill_fired
    BY DEF Typed, TypeOK, TracesInv, StepTracesFollowTheGraph, CheckObserves,
           CheckSkipped, Check, causeVars
  <1>3. checker_observation'.ran \in BOOLEAN /\ checker_observation'.bypass \in BOOLEAN
    BY <1>2, ObservationType
  <1>4. /\ n \in Nat
        /\ Len(step_traces') = n + 1
        /\ \A i \in 1..n : step_traces'[i] = step_traces[i]
        /\ step_traces'[n + 1].step_index = n
        /\ step_traces'[n + 1].step_kind = "check"
        /\ step_traces'[n + 1].checker_ran = checker_observation'.ran
    BY <1>1, <1>2, <1>3, StepUpdateAppends
  <1>5. /\ n > 0
        /\ step_traces[n].step_kind = "do"
        /\ step_traces[n].misreader_skill_fired = misreader_skill_fired
    BY <1>2 DEF TracesInv, LastTraceIsOfTheLastNode
  <1>6. StepTracesFollowTheGraph'
    <2> HIDE DEF n
    <2>1. TraceFollows(step_traces', n + 1)
      BY <1>4, <1>5 DEF TraceFollows
    <2> QED
      BY <1>1, <1>2, <1>3, <2>1, AppendedTraceFollows DEF TracesInv, n
  <1>7. LastTraceIsOfTheLastNode'
    <2>1. (n + 1) - 1 = n /\ n \in 1..n
      BY <1>4, <1>5
    <2> HIDE DEF n
    <2> QED
      BY <1>2, <1>4, <1>5, <2>1 DEF LastTraceIsOfTheLastNode
  <1> QED
    BY <1>6, <1>7 DEF TracesInv

(* explain's trace follows a check that ran, of a text whose do fired.     *)
LEMMA ExplainIsTraced ==
    ASSUME Typed, TracesInv, CauseIsOfTheLastText, Explain
    PROVE  TracesInv'
  <1> DEFINE n == Len(step_traces)
  <1>1. /\ StepUpdate("explain", misreader_skill_fired, checker_observation.ran,
                      checker_observation.bypass, checker_observation.substituted)
        /\ node = "explain" /\ node' \in {"plan", "end"}
        /\ authority_cause_record.drift_fired
        /\ checker_observation.ran
    BY DEF Explain, ShouldExplain, RouteAfterCheck
  <1>2. misreader_skill_fired
    <2>1. authority_cause_record # NoCause
      BY <1>1 DEF NoCause
    <2> QED
      BY <1>1, <2>1 DEF CauseIsOfTheLastText
  <1>3. /\ step_traces \in Seq(StepTrace) /\ step_index = n
        /\ misreader_skill_fired \in BOOLEAN
        /\ checker_observation.ran \in BOOLEAN
        /\ checker_observation.bypass \in BOOLEAN
    BY ObservationType DEF Typed, TypeOK, TracesInv, StepTracesFollowTheGraph
  <1>4. /\ n \in Nat
        /\ Len(step_traces') = n + 1
        /\ \A i \in 1..n : step_traces'[i] = step_traces[i]
        /\ step_traces'[n + 1].step_index = n
        /\ step_traces'[n + 1].step_kind = "explain"
    BY <1>1, <1>3, StepUpdateAppends
  <1>5. /\ n > 1
        /\ step_traces[n].step_kind = "check"
        /\ step_traces[n].checker_ran
        /\ step_traces[n - 1].misreader_skill_fired
    BY <1>1, <1>2 DEF TracesInv, LastTraceIsOfTheLastNode
  <1>6. StepTracesFollowTheGraph'
    <2> HIDE DEF n
    <2>1. /\ (n + 1) - 1 = n /\ (n + 1) - 2 = n - 1
          /\ n \in 1..n /\ n - 1 \in 1..n
      BY <1>4, <1>5
    <2>2. TraceFollows(step_traces', n + 1)
      BY <1>4, <1>5, <2>1 DEF TraceFollows
    <2> QED
      BY <1>1, <1>3, <2>2, AppendedTraceFollows DEF TracesInv, n
  <1>7. LastTraceIsOfTheLastNode'
    BY <1>1, <1>4 DEF LastTraceIsOfTheLastNode
  <1> QED
    BY <1>6, <1>7 DEF TracesInv

(* A node that is skipped or raises leaves no trace.                       *)
LEMMA TracesStayInOrder ==
    ASSUME Typed, CauseIsOfTheLastText, TracesInv, [Next]_vars
    PROVE  TracesInv'
  <1>1. Typed'
    BY TypedInductive
  <1>2. CASE UNCHANGED vars \/ Terminated
    BY <1>2 DEF vars, causeVars, observationVars, traceVars, Terminated, TracesInv,
                StepTracesFollowTheGraph, LastTraceIsOfTheLastNode
  <1>3. CASE DoRaises \/ CheckRaises
    BY <1>3 DEF DoRaises, CheckRaises, Raises, traceVars, TracesInv,
                StepTracesFollowTheGraph, LastTraceIsOfTheLastNode
  <1>4. CASE ExplainSkipped
    BY <1>4 DEF ExplainSkipped, RouteAfterCheck, traceVars, TracesInv,
                StepTracesFollowTheGraph, LastTraceIsOfTheLastNode
  <1> QED
    BY <1>1, <1>2, <1>3, <1>4, PlanIsTraced, DoIsTraced, CheckIsTraced,
       ExplainIsTraced DEF Next

-----------------------------------------------------------------------------
(* Every step keeps the invariant.                                         *)
LEMMA ObserverInvInductive ==
    ObserverInv /\ CauseInv /\ [Next]_vars => ObserverInv'
  <1> SUFFICES ASSUME ObserverInv, CauseInv, [Next]_vars
               PROVE  ObserverInv'
    OBVIOUS
  <1>1. PolicyInv' /\ Typed
    BY PolicyInvInductive DEF ObserverInv, PolicyInv
  <1>2. CauseIsOfTheLastText'
    BY <1>1, CauseStaysWithItsText DEF ObserverInv
  <1>3. RunIsOfItsContract'
    BY StepsOfTheCause DEF ObserverInv, RunIsOfItsContract, InScope
  <1>4. TextIsGenerated' /\ AxisOfTheIteration'
    BY <1>1, TextStaysGenerated, AxisStaysWithItsFailureMode DEF ObserverInv
  <1>5. ComparisonOfTheIteration' /\ ExplanationIsFresh'
    BY <1>1, ComparisonStands, ExplanationStaysFresh DEF ObserverInv
  <1>6. CheckerSeesTheHistoryOfTheCause'
    BY <1>1, CheckerSeesTheCauseAgain DEF ObserverInv
  <1>7. StepTracesFollowTheGraph' /\ LastTraceIsOfTheLastNode'
    BY <1>1, TracesStayInOrder DEF ObserverInv, TracesInv
  <1> QED
    BY <1>1, <1>2, <1>3, <1>4, <1>5, <1>6, <1>7 DEF ObserverInv

(* The invariant holds in every reachable state.                           *)
LEMMA ObserverInvariant == Spec => []ObserverInv
  BY InitObserverInv, ObserverInvInductive, CauseInvariant, PTL DEF Spec

-----------------------------------------------------------------------------
(* The theorems. *)

(* A kept explanation is about the text of the present iteration: its do   *)
(* fired, its check ran and nothing was generated since.                   *)
THEOREM ExplanationsAreFresh == Spec => []ExplanationIsFresh
  <1>1. ObserverInv => ExplanationIsFresh
    BY DEF ObserverInv
  <1> QED
    BY <1>1, ObserverInvariant, PTL

(* The checker, which reads a history one turn longer and extracts the     *)
(* attempt again, is told the turns the cause was decided by.              *)
THEOREM CheckerIsToldTheCause == Spec => []CheckerSeesTheHistoryOfTheCause
  <1>1. ObserverInv => CheckerSeesTheHistoryOfTheCause
    BY DEF ObserverInv
  <1> QED
    BY <1>1, ObserverInvariant, PTL

(* Every iteration of an applicable contract is observed, fired or not,    *)
(* and no iteration of any other prompt.                                   *)
THEOREM ApplicableContractsObserved == Spec => []ApplicableContractsAreObserved
  <1>1. ObserverInv => ApplicableContractsAreObserved
    <2> SUFFICES ASSUME ObserverInv, run.loop_source = "prompt_contract",
                        node \in {"explain", "end"}
                 PROVE  /\ checker_observation.ran <=> SupportedPromptContract
                        /\ observation_outcome = "not_applicable" <=>
                              ~SupportedPromptContract
      BY DEF ApplicableContractsAreObserved
    <2>1. /\ misreader_skill_fired \in BOOLEAN
          /\ checker_observation.bypass \in BOOLEAN
      BY ObservationType DEF ObserverInv, PolicyInv, Typed, TypeOK
    <2> QED
      BY <2>1, OutcomeOfBothSides DEF ObserverInv, ComparisonOfTheIteration
  <1> QED
    BY <1>1, ObserverInvariant, PTL

(* The outcome of a prompt-derived iteration reports its own cause, and    *)
(* the failure mode is that of the axis the state reports.                 *)
THEOREM OutcomeReportsTheCause == Spec => []OutcomeFollowsTheCause
  <1>1. ObserverInv => OutcomeFollowsTheCause
    <2> SUFFICES ASSUME ObserverInv
                 PROVE  OutcomeFollowsTheCause
      OBVIOUS
    <2>1. /\ misreader_skill_fired \in BOOLEAN
          /\ checker_observation.bypass \in BOOLEAN
      BY ObservationType DEF ObserverInv, PolicyInv, Typed, TypeOK
    <2>2. ASSUME run.loop_source = "prompt_contract", node \in {"explain", "end"},
                 observation_outcome # "not_applicable"
          PROVE  /\ SupportedPromptContract
                 /\ checker_observation.ran
                 /\ observation_outcome =
                       ObservationOutcome(misreader_skill_fired,
                                          checker_observation.bypass)
                 /\ checker_matches_expected <=>
                       (checker_observation.bypass = misreader_skill_fired)
      BY <2>2 DEF ObserverInv, ComparisonOfTheIteration
    <2>3. ASSUME run.loop_source = "prompt_contract", node \in {"explain", "end"},
                 observation_outcome \in {"observation_succeeded",
                                          "checker_missed_boundary_event"}
          PROVE  misreader_skill_fired
      BY <2>1, <2>2, <2>3, OutcomeOfBothSides
    <2>4. ASSUME run.loop_source = "prompt_contract", node \in {"explain", "end"},
                 observation_outcome = "matched_no_boundary_event"
          PROVE  /\ ~misreader_skill_fired
                 /\ checker_observation.ran /\ ~checker_observation.bypass
                 /\ checker_matches_expected
                 /\ substituted = "none"
      <3>1. ~misreader_skill_fired /\ ~checker_observation.bypass
        BY <2>1, <2>2, <2>4, OutcomeOfBothSides
      <3>2. checker_observation.bypass = misreader_skill_fired
        BY <2>1, <3>1
      <3>3. substituted = "none"
        BY <2>2, <2>4, <3>1 DEF ObserverInv, AxisOfTheIteration
      <3> QED
        BY <2>2, <2>4, <3>1, <3>2, <3>3
    <2>5. node \in {"check", "explain", "end"} =>
             failure_mode = ExpectedFailure[substituted]
      BY DEF ObserverInv, AxisOfTheIteration
    <2> QED
      BY <2>3, <2>4, <2>5 DEF OutcomeFollowsTheCause
  <1> QED
    BY <1>1, ObserverInvariant, PTL

(* The step traces are the sequence of the nodes the run went through.     *)
THEOREM TracesFollowTheGraph == Spec => []StepTracesFollowTheGraph
  <1>1. ObserverInv => StepTracesFollowTheGraph
    BY DEF ObserverInv
  <1> QED
    BY <1>1, ObserverInvariant, PTL
=============================================================================
