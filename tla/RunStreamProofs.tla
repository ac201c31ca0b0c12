--------------------------- MODULE RunStreamProofs ---------------------------
(***************************************************************************)
(* The event stream of a prompt loop: what a client is shown, for every    *)
(* catalog, conversation and number of iterations.  The stream watches the *)
(* loop, so the invariants of MinimalLoopProofs hold under it.             *)
(***************************************************************************)
EXTENDS RunStream, MinimalLoopProofs

-----------------------------------------------------------------------------
(* What StreamProjection assumes of its constants holds of its instance. *)
LEMMA StreamInstance ==
    /\ Contents \subseteq [proposes : SUBSET Targets, grants : SUBSET Targets]
    /\ Stream!DefaultTarget \in Targets
    /\ Stream!NoTarget \notin Targets
  BY TargetsAssumption, ContentsAssumption
     DEF Stream!DefaultTarget, DefaultTarget, Stream!NoTarget, NoTarget

(* The inductive invariant, part by part. *)

Causes == [kind : {"cause"}, misreader_skill_fired : BOOLEAN,
           authority_provenance : AnyProvenance, attempted : BOOLEAN]
Checkers == [kind : {"checker"}, checker_ran : BOOLEAN,
             checker_observed_bypass : BOOLEAN, substituted : Substituted]
Events == [kind : {"phase"}, phase : {"plan", "do", "check", "explain"}]
          \cup [kind : {"text"}, turn : Nat]
          \cup Causes \cup Checkers
          \cup [kind : {"explain"}, status : {"provided", "refused", "unavailable"}]
          \cup [kind : {"completed"}, observation_outcome : Outcomes \cup {"none"},
                artifact_names : SUBSET {"contract", "loop_trace", "generated",
                                         "explanation"}]

StreamRecord == Stream!StreamOf(Events)

(* The events that a step adds to the stream. *)
StreamAdds(new) == Stream!Adds(Events, stream, stream', new)

StreamTyped ==
    /\ stream \in StreamRecord
    /\ artifacts \subseteq {"contract", "loop_trace", "generated", "explanation"}
    /\ stream_status \in {"open", "completed", "raised"}

(* The text of an iteration is the last turn, and one of the new ones. *)
TextOfTheIteration ==
    node \in {"check", "explain", "end"} /\ bad_response # NoTurn =>
        bad_response = Len(messages) /\ run.initial_turns < bad_response

(* Only steps that are there have been dealt with. *)
NoStepAhead == stream.emitted_step_indexes \subseteq 0 .. (Len(step_traces) - 1)

(* A checker is shown from the first check on, and nothing before it is    *)
(* explained.                                                              *)
CheckerSinceTheFirst ==
    /\ run.loop_source = "prompt_contract"
    /\ node = "explain" => loop_iteration > 0
    /\ loop_iteration = 0 => Shown("checker") = {} /\ Shown("explain") = {}
    /\ stream.checker_emitted = TRUE <=> loop_iteration > 0

(* Each iteration has its do step. *)
DoIsThere ==
    node \in {"check", "explain", "end"} =>
        \E i \in DOMAIN step_traces : step_traces[i].step_kind = "do"

(* How a stream ends. *)
EndOfTheStream ==
    /\ stream_status = "open" => artifacts = {"contract"}
    /\ stream_status = "raised" => node = "failed"
    /\ stream_status = "completed" =>
          /\ node = "end"
          /\ "generated" \in artifacts <=> SupportedPromptContract
          /\ SupportedPromptContract =>
                generated = [turn |-> bad_response, step_index |-> LastDoStepIndex]

ClientInv ==
    /\ StreamTyped
    /\ TextOfTheIteration
    /\ NoStepAhead
    /\ CheckerSinceTheFirst
    /\ DoIsThere
    /\ EndOfTheStream
    /\ StreamsEveryNewTurnOnce
    /\ ShownCauseIsTheFrozenCause
    /\ FirstCheckerIsShown


-----------------------------------------------------------------------------
(* What a step adds to the stream. *)

(* What is shown of the new state is of the types of the events. *)
LEMMA ShownTypes ==
    ASSUME Typed'
    PROVE  ShownCause' \in Causes /\ ShownChecker' \in Checkers
  <1>1. /\ misreader_skill_fired' \in BOOLEAN
        /\ authority_provenance' \in AnyProvenance
        /\ authority_cause_record'.provenance \in AnyProvenance
        /\ checker_observation' \in Observation \cup {NoObservation}
        /\ substituted' \in Substituted
    BY DEF Typed, TypeOK
  <1>2. ShownCause' \in Causes
    BY <1>1 DEF ShownCause, Stream!Cause, Stream!ShownProvenance, Causes
  <1>3. /\ checker_observation'.ran \in BOOLEAN /\ checker_observation'.bypass \in BOOLEAN
        /\ checker_observation'.substituted \in Substituted
    BY <1>1, ObservationType
  <1>4. ShownChecker' \in Checkers
    BY <1>1, <1>3 DEF ShownChecker, Stream!Checker, Checkers
  <1> QED
    BY <1>2, <1>4

(* A step that leaves a trace has not been dealt with when it is projected. *)
LEMMA NewStepIsProjected ==
    ASSUME Typed, StepTracesFollowTheGraph, StreamTyped, NoStepAhead,
           NEW kind \in {"plan", "do", "check", "explain"},
           NEW fired \in BOOLEAN, NEW ran \in BOOLEAN, NEW bypass \in BOOLEAN,
           NEW axis, StepUpdate(kind, fired, ran, bypass, axis)
    PROVE  /\ Len(step_traces) \in Nat
           /\ Len(step_traces') = Len(step_traces) + 1
           /\ LatestTrace'.step_kind = kind
           /\ LatestTrace'.step_index = Len(step_traces)
           /\ ~Stream!DealtWith(stream, LatestTrace')
  <1>1. step_traces \in Seq(StepTrace) /\ step_index = Len(step_traces)
    BY DEF Typed, TypeOK, StepTracesFollowTheGraph
  <1>2. /\ Len(step_traces) \in Nat
        /\ Len(step_traces') = Len(step_traces) + 1
        /\ LatestTrace'.step_kind = kind
        /\ LatestTrace'.step_index = Len(step_traces)
    BY <1>1, StepUpdateAppends DEF LatestTrace
  <1>3. ~Stream!DealtWith(stream, LatestTrace')
    BY <1>2 DEF NoStepAhead, Stream!DealtWith
  <1> QED
    BY <1>2, <1>3

(* A step that is emitted is dealt with, and no step after it is.          *)
LEMMA EmittedStep ==
    ASSUME StreamTyped, NoStepAhead, NEW new \in Seq(Events),
           Len(step_traces) \in Nat, Len(step_traces') = Len(step_traces) + 1,
           LatestTrace'.step_index = Len(step_traces),
           stream' = Stream!Emit(stream, LatestTrace', new)
    PROVE  /\ stream' \in StreamRecord
           /\ StreamAdds(new)
           /\ NoStepAhead'
           /\ stream'.checker_emitted = stream.checker_emitted
  <1> DEFINE t == LatestTrace'
  <1>1. t.step_index \in Nat /\ stream' = Stream!Emit(stream, t, new)
    OBVIOUS
  <1>2. t.step_index = Len(step_traces)
    OBVIOUS
  <1>3. stream \in Stream!StreamOf(Events)
    BY DEF StreamTyped, StreamRecord
  <1> HIDE DEF t
  <1>4. /\ stream' \in Stream!StreamOf(Events)
        /\ Stream!Adds(Events, stream, stream', new)
        /\ stream'.emitted_step_indexes =
              stream.emitted_step_indexes \cup {t.step_index}
        /\ stream'.checker_emitted = stream.checker_emitted
    BY <1>1, <1>3, StreamInstance, Stream!EmitAdds
  <1>5. NoStepAhead'
    BY <1>2, <1>4 DEF NoStepAhead
  <1> QED
    BY <1>4, <1>5 DEF StreamRecord, StreamAdds

(* A plan is dealt with and not shown. *)
LEMMA PlanAdds ==
    ASSUME Typed, StepTracesFollowTheGraph, StreamTyped, NoStepAhead,
           Plan, stream' = ProjectTheNewState
    PROVE  /\ stream' \in StreamRecord
           /\ stream'.events = stream.events
           /\ NoStepAhead'
           /\ stream'.checker_emitted = stream.checker_emitted
  <1> DEFINE new == <<>>
  <1>1. StepUpdate("plan", FALSE, FALSE, FALSE, "none")
    BY DEF Plan
  <1>2. /\ Len(step_traces) \in Nat
        /\ Len(step_traces') = Len(step_traces) + 1
        /\ LatestTrace'.step_kind = "plan"
        /\ LatestTrace'.step_index = Len(step_traces)
        /\ ~Stream!DealtWith(stream, LatestTrace')
    BY <1>1, NewStepIsProjected
  <1>3. stream' = Stream!Emit(stream, LatestTrace', new)
    BY <1>2, StreamInstance, Stream!PlanIsProjected DEF ProjectTheNewState
  <1>4. new \in Seq(Events) /\ stream.events \o new = stream.events
    BY DEF StreamTyped, StreamRecord, Stream!StreamOf
  <1> HIDE DEF new
  <1> QED
    BY <1>2, <1>3, <1>4, EmittedStep DEF StreamAdds, Stream!Adds

(* The texts and causes of do. *)
DoEvents(turn, cause) ==
    IF turn = NoTurn THEN <<Stream!Phase("do"), cause>>
    ELSE <<Stream!Phase("do"), Stream!Text(turn), cause>>

(* A do step is shown with its text, if it has one, and its cause. *)
LEMMA DoAdds ==
    ASSUME Typed, StepTracesFollowTheGraph, StreamTyped, NoStepAhead, Typed',
           Do, ~DoRaises, stream' = ProjectTheNewState
    PROVE  /\ stream' \in StreamRecord
           /\ StreamAdds(DoEvents(bad_response', ShownCause'))
           /\ NoStepAhead'
           /\ stream'.checker_emitted = stream.checker_emitted
           /\ \E i \in DOMAIN step_traces' : step_traces'[i].step_kind = "do"
  <1>1. PICK axis : StepUpdate("do", misreader_skill_fired', FALSE, FALSE, axis)
    BY DEF Do, DoOutOfScope, DoAuthority, DoMisreaderFires, DoMisreaderDoesNotFire
  <1>2. misreader_skill_fired' \in BOOLEAN /\ bad_response' \in Nat
    BY DEF Typed, TypeOK
  <1>3. /\ Len(step_traces) \in Nat
        /\ Len(step_traces') = Len(step_traces) + 1
        /\ LatestTrace'.step_kind = "do"
        /\ LatestTrace'.step_index = Len(step_traces)
        /\ ~Stream!DealtWith(stream, LatestTrace')
    BY <1>1, <1>2, NewStepIsProjected
  <1>4. ShownCause' \in Events
    BY ShownTypes DEF Events
  <1>5. Stream!Phase("do") \in Events
    BY DEF Stream!Phase, Events
  <1>6. Stream!Text(bad_response') \in Events
    BY <1>2 DEF Stream!Text, Events
  <1> DEFINE phase == Stream!Phase("do")
             text == Stream!Text(bad_response')
             cause == ShownCause'
             new == <<phase>> \o (IF bad_response' = NoTurn THEN <<>> ELSE <<text>>)
                    \o <<cause>>
  <1>7. stream' = Stream!Emit(stream, LatestTrace', new)
    <2>1. View'.response = bad_response' /\ View'.cause = ShownCause'
      BY DEF View
    <2> QED
      <3> DEFINE v == View'
                 l == LatestTrace'
      <3>1. stream' = Stream!ProjectStateProgress(stream, l, v)
        BY DEF ProjectTheNewState
      <3>2. v.response = bad_response' /\ v.cause = cause
        BY <2>1
      <3>3. l.step_kind = "do" /\ ~Stream!DealtWith(stream, l)
        BY <1>3
      <3>4. stream' = Stream!Emit(stream, l, new)
        <4> HIDE DEF v, l, cause
        <4>1. Stream!ProjectStateProgress(stream, l, v) =
                 Stream!Emit(stream, l,
                    <<Stream!Phase("do")>>
                    \o (IF v.response = Stream!NoTurn THEN <<>>
                        ELSE <<Stream!Text(v.response)>>)
                    \o <<v.cause>>)
          BY <3>3, StreamInstance, Stream!DoIsProjected
        <4> QED
          BY <3>1, <3>2, <4>1 DEF Stream!NoTurn, NoTurn
      <3> QED
        BY <3>4
  <1>8. DoEvents(bad_response', ShownCause') =
           IF bad_response' = NoTurn THEN <<phase, cause>>
           ELSE <<phase, text, cause>>
    BY DEF DoEvents
  <1>9. phase \in Events /\ text \in Events /\ cause \in Events
    BY <1>4, <1>5, <1>6
  <1> HIDE DEF phase, text, cause
  <1>10. /\ new = DoEvents(bad_response', ShownCause')
         /\ DoEvents(bad_response', ShownCause') \in Seq(Events)
    <2>1. CASE bad_response' = NoTurn
      <3>1. new = <<phase>> \o <<cause>>
        BY <2>1, <1>9
      <3> QED
        BY <1>8, <1>9, <2>1, <3>1, PairOf
    <2>2. CASE bad_response' # NoTurn
      <3>1. new = (<<phase>> \o <<text>>) \o <<cause>>
        BY <2>2
      <3> HIDE DEF new
      <3>2. /\ <<phase>> \o <<text>> = <<phase, text>>
            /\ <<phase, text>> \o <<cause>> = <<phase, text, cause>>
            /\ <<phase, text, cause>> \in Seq(Events)
        BY <1>9, PairOf, TripleOf
      <3>3. new = <<phase, text>> \o <<cause>>
        BY <3>1, <3>2, Zenon
      <3> QED
        BY <1>8, <2>2, <3>2, <3>3
    <2> QED
      BY <2>1, <2>2
  <1> HIDE DEF new
  <1>11. stream' = Stream!Emit(stream, LatestTrace', DoEvents(bad_response', ShownCause'))
    BY <1>7, <1>10
  <1>12. \E i \in DOMAIN step_traces' : step_traces'[i].step_kind = "do"
    <2>1. step_traces' \in Seq(StepTrace)
      BY DEF Typed, TypeOK
    <2>2. Len(step_traces') \in DOMAIN step_traces'
      BY <1>3, <2>1
    <2> QED
      BY <1>3, <2>2 DEF LatestTrace
  <1> HIDE DEF DoEvents
  <1> DEFINE added == DoEvents(bad_response', ShownCause')
  <1>13. added \in Seq(Events) /\ stream' = Stream!Emit(stream, LatestTrace', added)
    BY <1>10, <1>11
  <1> HIDE DEF added
  <1>14. /\ stream' \in StreamRecord
         /\ StreamAdds(added)
         /\ NoStepAhead'
         /\ stream'.checker_emitted = stream.checker_emitted
    BY <1>3, <1>13, EmittedStep
  <1> QED
    BY <1>12, <1>13, <1>14 DEF added

(* A check is shown in the first iteration, with what the checker found,   *)
(* and never again.                                                        *)
LEMMA CheckAdds ==
    ASSUME Typed, StepTracesFollowTheGraph, StreamTyped, NoStepAhead, Typed',
           CheckObserves \/ CheckSkipped, observation_outcome' # "none",
           stream' = ProjectTheNewState
    PROVE  /\ stream' \in StreamRecord
           /\ NoStepAhead'
           /\ stream'.checker_emitted = TRUE
           /\ IF stream.checker_emitted = TRUE THEN stream'.events = stream.events
              ELSE StreamAdds(<<Stream!Phase("check"), ShownChecker'>>)
  <1> DEFINE new == <<Stream!Phase("check"), ShownChecker'>>
             held == Stream!CheckerIsHeldBack(stream, View')
             emitted == Stream!Emit(stream, LatestTrace', new)
  <1>1. PICK axis :
           StepUpdate("check", misreader_skill_fired, checker_observation'.ran,
                      checker_observation'.bypass, axis)
    BY DEF CheckObserves, CheckSkipped, Check
  <1>2. /\ misreader_skill_fired \in BOOLEAN
        /\ checker_observation' \in Observation \cup {NoObservation}
    BY DEF Typed, TypeOK
  <1>3. checker_observation'.ran \in BOOLEAN /\ checker_observation'.bypass \in BOOLEAN
    BY <1>2, ObservationType
  <1>4. /\ Len(step_traces) \in Nat
        /\ Len(step_traces') = Len(step_traces) + 1
        /\ LatestTrace'.step_kind = "check"
        /\ LatestTrace'.step_index = Len(step_traces)
        /\ ~Stream!DealtWith(stream, LatestTrace')
    BY <1>1, <1>2, <1>3, NewStepIsProjected
  <1>5. View'.checker = ShownChecker' /\ View'.observation_outcome # "none"
    BY DEF View
  <1>6. held <=> stream.checker_emitted = TRUE
    BY <1>5 DEF Stream!CheckerIsHeldBack, StreamTyped, StreamRecord, Stream!StreamOf
  <1>7. stream' = IF held THEN stream
                  ELSE [emitted EXCEPT !.checker_emitted = TRUE]
    <2> DEFINE v == View'
               l == LatestTrace'
               c == ShownChecker'
    <2>1. stream' = Stream!ProjectStateProgress(stream, l, v)
      BY DEF ProjectTheNewState
    <2>2. l.step_kind = "check" /\ ~Stream!DealtWith(stream, l) /\ v.checker = c
      BY <1>4, <1>5
    <2>3. stream' = IF Stream!CheckerIsHeldBack(stream, v) THEN stream
                    ELSE [Stream!Emit(stream, l, <<Stream!Phase("check"), c>>)
                          EXCEPT !.checker_emitted = TRUE]
      <3> HIDE DEF v, l, c
      <3>1. Stream!ProjectStateProgress(stream, l, v) =
               IF Stream!CheckerIsHeldBack(stream, v) THEN stream
               ELSE [Stream!Emit(stream, l, <<Stream!Phase("check"), v.checker>>)
                     EXCEPT !.checker_emitted = TRUE]
        BY <2>2, StreamInstance, Stream!CheckIsProjected
      <3> QED
        BY <2>1, <2>2, <3>1
    <2> QED
      BY <2>3
  <1>8. ShownChecker' \in Events /\ Stream!Phase("check") \in Events
    BY ShownTypes DEF Events, Stream!Phase
  <1>9. new \in Seq(Events)
    BY <1>8, PairOf
  <1> DEFINE t == LatestTrace'
  <1>10. emitted = Stream!Emit(stream, t, new) /\ t.step_index = Len(step_traces)
    BY <1>4
  <1> HIDE DEF new, held, emitted, t
  <1>11. /\ emitted \in StreamRecord
         /\ Stream!Adds(Events, stream, emitted, new)
         /\ emitted.emitted_step_indexes \subseteq 0 .. Len(step_traces)
    <2>1. stream \in Stream!StreamOf(Events) /\ t.step_index \in Nat
      BY <1>4, <1>10 DEF StreamTyped, StreamRecord
    <2>2. /\ emitted \in Stream!StreamOf(Events)
          /\ Stream!Adds(Events, stream, emitted, new)
          /\ emitted.emitted_step_indexes =
                stream.emitted_step_indexes \cup {t.step_index}
      BY <1>9, <1>10, <2>1, StreamInstance, Stream!EmitAdds
    <2> QED
      BY <1>4, <1>10, <2>2 DEF StreamRecord, NoStepAhead
  <1>12. CASE stream.checker_emitted = TRUE
    <2>1. stream' = stream
      BY <1>6, <1>7, <1>12
    <2> QED
      BY <1>4, <1>12, <2>1 DEF NoStepAhead, StreamTyped, new
  <1>13. CASE stream.checker_emitted # TRUE
    <2>1. stream' = [emitted EXCEPT !.checker_emitted = TRUE]
      BY <1>6, <1>7, <1>13
    <2>2. /\ stream' \in StreamRecord
          /\ StreamAdds(new)
          /\ stream'.emitted_step_indexes \subseteq 0 .. Len(step_traces)
          /\ stream'.checker_emitted = TRUE
      BY <1>11, <2>1 DEF StreamRecord, Stream!StreamOf, StreamAdds, Stream!Adds
    <2>3. NoStepAhead'
      BY <1>4, <2>2 DEF NoStepAhead
    <2> QED
      BY <1>13, <2>2, <2>3, Zenon DEF new
  <1> QED
    BY <1>12, <1>13

(* An explanation is shown with its status. *)
LEMMA ExplainAdds ==
    ASSUME Typed, StepTracesFollowTheGraph, StreamTyped, NoStepAhead, Typed',
           Explain, stream' = ProjectTheNewState
    PROVE  LET new == <<Stream!Phase("explain"), Stream!Explanation(self_explanation')>>
           IN  /\ stream' \in StreamRecord
               /\ StreamAdds(new)
               /\ NoStepAhead'
               /\ stream'.checker_emitted = stream.checker_emitted
  <1> DEFINE new == <<Stream!Phase("explain"), Stream!Explanation(self_explanation')>>
  <1>1. StepUpdate("explain", misreader_skill_fired, checker_observation.ran,
                   checker_observation.bypass, checker_observation.substituted)
    BY DEF Explain
  <1>2. /\ misreader_skill_fired \in BOOLEAN
        /\ checker_observation \in Observation \cup {NoObservation}
    BY DEF Typed, TypeOK
  <1>3. checker_observation.ran \in BOOLEAN /\ checker_observation.bypass \in BOOLEAN
    BY <1>2, ObservationType
  <1>4. /\ Len(step_traces) \in Nat
        /\ Len(step_traces') = Len(step_traces) + 1
        /\ LatestTrace'.step_kind = "explain"
        /\ LatestTrace'.step_index = Len(step_traces)
        /\ ~Stream!DealtWith(stream, LatestTrace')
    BY <1>1, <1>2, <1>3, NewStepIsProjected
  <1>5. self_explanation' \in {"provided", "refused", "unavailable"}
    BY DEF Explain, ExplanationCalls, ExplanationStatus
  <1>6. View'.self_explanation = self_explanation'
    BY DEF View
  <1>7. stream' = Stream!Emit(stream, LatestTrace', new)
    <2> DEFINE v == View'
               l == LatestTrace'
               status == self_explanation'
    <2>1. stream' = Stream!ProjectStateProgress(stream, l, v)
      BY DEF ProjectTheNewState
    <2>2. /\ l.step_kind = "explain" /\ ~Stream!DealtWith(stream, l)
          /\ v.self_explanation = status /\ status # "none"
      BY <1>4, <1>5, <1>6
    <2>3. stream' = Stream!Emit(stream, l,
                       <<Stream!Phase("explain"), Stream!Explanation(status)>>)
      <3> HIDE DEF v, l, status
      <3>1. Stream!ProjectStateProgress(stream, l, v) =
               Stream!Emit(stream, l, <<Stream!Phase("explain"),
                                        Stream!Explanation(v.self_explanation)>>)
        BY <2>2, StreamInstance, Stream!ExplainIsProjected
      <3> QED
        BY <2>1, <2>2, <3>1
    <2> QED
      BY <2>3
  <1>8. /\ Stream!Explanation(self_explanation') \in Events
        /\ Stream!Phase("explain") \in Events
    BY <1>5 DEF Events, Stream!Phase, Stream!Explanation
  <1>9. new \in Seq(Events)
    BY <1>8, PairOf
  <1> HIDE DEF new
  <1>10. /\ stream' \in StreamRecord
         /\ StreamAdds(new)
         /\ NoStepAhead'
         /\ stream'.checker_emitted = stream.checker_emitted
    BY <1>4, <1>7, <1>9, EmittedStep
  <1> QED
    BY <1>9, <1>10 DEF new

(* A state without a new step trace adds nothing once a checker was shown. *)
LEMMA ExplainSkippedAdds ==
    ASSUME LastTraceIsOfTheLastNode, stream.checker_emitted = TRUE,
           ExplainSkipped, stream' = ProjectTheNewState
    PROVE  stream' = stream /\ step_traces' = step_traces
  <1> DEFINE t == LatestTrace'
             v == View'
  <1>1. step_traces' = step_traces /\ node = "explain"
    BY DEF ExplainSkipped, traceVars
  <1>2. t.step_kind = "check"
    BY <1>1 DEF LastTraceIsOfTheLastNode, LatestTrace
  <1>3. stream' = Stream!ProjectStateProgress(stream, t, v)
    BY DEF ProjectTheNewState
  <1> HIDE DEF t, v
  <1>4. CASE Stream!DealtWith(stream, t)
    BY <1>1, <1>3, <1>4, StreamInstance, Stream!AlreadyDealtWith
  <1>5. CASE ~Stream!DealtWith(stream, t)
    <2>1. Stream!CheckerIsHeldBack(stream, v)
      BY DEF Stream!CheckerIsHeldBack
    <2> QED
      BY <1>1, <1>2, <1>3, <1>5, <2>1, StreamInstance, Stream!CheckIsProjected
  <1> QED
    BY <1>4, <1>5

-----------------------------------------------------------------------------
(* What was shown stays shown. *)

(* No event of this kind was added. *)
KeepsShown(kind) ==
    /\ Shown(kind)' = Shown(kind)
    /\ \A i \in Shown(kind) : stream'.events[i] = stream.events[i]

(* Events of other kinds leave those of this kind where they are. *)
LEMMA OthersKeepShown ==
    ASSUME NEW new, StreamAdds(new), NEW kind,
           \A i \in 1..Len(new) : new[i].kind # kind
    PROVE  KeepsShown(kind)
  BY StreamInstance, Stream!OthersKeep DEF StreamAdds, KeepsShown, Stream!Keeps, Shown

(* So does adding nothing. *)
LEMMA NothingAddedKeepsShown ==
    ASSUME NEW kind, stream'.events = stream.events
    PROVE  KeepsShown(kind)
  BY DEF KeepsShown, Shown, Stream!Places

(* The texts of the stream depend on the texts shown and the conversation. *)
LEMMA TextsStay ==
    ASSUME StreamsEveryNewTurnOnce, KeepsShown("text"),
           UNCHANGED <<run, messages>>
    PROVE  StreamsEveryNewTurnOnce'
  BY DEF StreamsEveryNewTurnOnce, KeepsShown

(* The last, or only, event of a kind remains it. *)
LEMMA LastStays ==
    ASSUME NEW e, NEW kind, e.kind = kind, KeepsShown(kind)
    PROVE  /\ Stream!IsTheLast(stream, e) => Stream!IsTheLast(stream', e)
           /\ Stream!IsTheOnly(stream, e) => Stream!IsTheOnly(stream', e)
  BY StreamInstance, Stream!LastStays DEF KeepsShown, Stream!Keeps, Shown

-----------------------------------------------------------------------------
(* The invariant holds when the stream is opened. *)
LEMMA InitClientInv == StreamInit => ClientInv
  <1> SUFFICES ASSUME StreamInit
               PROVE  ClientInv
    OBVIOUS
  <1>1. /\ messages \in Seq(Message) /\ Len(messages) \in Nat
        /\ run.initial_turns = Len(messages)
    <2>1. Typed /\ Init
      BY InitTyped DEF StreamInit
    <2>2. run.initial_turns = Len(messages)
      <3>1. CASE InitFixed
        BY <3>1 DEF InitFixed, RunFromScenario
      <3>2. CASE InitPrompt
        BY <3>2 DEF InitPrompt, RunFromContract
      <3> QED
        BY <2>1, <3>1, <3>2 DEF Init
    <2> QED
      BY <2>1, <2>2 DEF Typed, TypeOK
  <1>2. node = "plan" /\ loop_iteration = 0 /\ step_traces = <<>>
    BY DEF StreamInit, Init
  <1> DEFINE phase == Stream!Phase("plan")
  <1>3. phase \in Events /\ phase.kind = "phase"
    BY DEF Stream!Phase, Events
  <1>4. /\ stream.events = <<phase>> /\ stream.emitted_step_indexes = {}
        /\ stream.checker_emitted = FALSE
        /\ stream \in StreamRecord
    BY <1>3 DEF StreamInit, Stream!NewStream, StreamRecord, Stream!StreamOf
  <1> HIDE DEF phase
  <1>5. ASSUME NEW kind, kind # "phase"
        PROVE  Shown(kind) = {}
    BY <1>3, <1>4, <1>5 DEF Shown, Stream!Places
  <1>6. StreamTyped /\ NoStepAhead
    BY <1>2, <1>4 DEF StreamTyped, StreamInit, NoStepAhead
  <1>7. CheckerSinceTheFirst
    BY <1>2, <1>4, <1>5 DEF CheckerSinceTheFirst, StreamInit
  <1>8. TextOfTheIteration /\ DoIsThere /\ EndOfTheStream
    BY <1>2 DEF TextOfTheIteration, DoIsThere, EndOfTheStream, StreamInit
  <1>9. StreamsEveryNewTurnOnce
    BY <1>1, <1>5 DEF StreamsEveryNewTurnOnce
  <1>10. ShownCauseIsTheFrozenCause /\ FirstCheckerIsShown
    BY <1>2 DEF ShownCauseIsTheFrozenCause, FirstCheckerIsShown
  <1> QED
    BY <1>6, <1>7, <1>8, <1>9, <1>10 DEF ClientInv

-----------------------------------------------------------------------------
(* Each step keeps it. *)

(* The stream stays open, so nothing is said of its end yet. *)
LEMMA OpenStreamHasNotEnded ==
    ASSUME StreamTyped, EndOfTheStream, stream_status = "open",
           stream' \in StreamRecord, UNCHANGED <<artifacts, generated, stream_status>>
    PROVE  StreamTyped' /\ EndOfTheStream'
  BY DEF StreamTyped, EndOfTheStream

(* A plan shows nothing, and the next text is still to come. *)
LEMMA PlanKeepsTheClient ==
    ASSUME ObserverInv, ClientInv, Plan, stream_status = "open",
           stream' = ProjectTheNewState,
           UNCHANGED <<artifacts, generated, stream_status>>
    PROVE  ClientInv'
  <1>1. /\ stream' \in StreamRecord
        /\ stream'.events = stream.events
        /\ NoStepAhead'
        /\ stream'.checker_emitted = stream.checker_emitted
    BY PlanAdds DEF ObserverInv, PolicyInv, ClientInv
  <1>2. KeepsShown("text") /\ KeepsShown("checker") /\ KeepsShown("explain")
    BY <1>1, NothingAddedKeepsShown
  <1>3. node' = "do" /\ UNCHANGED <<run, messages, loop_iteration>>
    BY DEF Plan, progressVars
  <1>4. StreamTyped' /\ EndOfTheStream'
    BY <1>1, OpenStreamHasNotEnded DEF ClientInv
  <1>5. CheckerSinceTheFirst'
    BY <1>1, <1>2, <1>3 DEF ClientInv, CheckerSinceTheFirst, KeepsShown
  <1>6. StreamsEveryNewTurnOnce'
    BY <1>2, <1>3, TextsStay DEF ClientInv
  <1>7. /\ TextOfTheIteration' /\ DoIsThere'
        /\ ShownCauseIsTheFrozenCause' /\ FirstCheckerIsShown'
    BY <1>3 DEF TextOfTheIteration, DoIsThere, ShownCauseIsTheFrozenCause,
               FirstCheckerIsShown
  <1> QED
    BY <1>1, <1>4, <1>5, <1>6, <1>7 DEF ClientInv

(* What do says becomes the last turn; out of scope it says nothing. *)
LEMMA DoSaysOneTurn ==
    ASSUME Typed, Do, ~DoRaises
    PROVE  /\ node' = "check"
           /\ UNCHANGED <<run, loop_iteration>>
           /\ \/ bad_response' = NoTurn /\ messages' = messages
              \/ \E content \in Contents : Generate(content)
  <1>1. CASE DoOutOfScope
    BY <1>1 DEF DoOutOfScope, progressVars
  <1>2. CASE DoAuthority
    BY <1>2 DEF DoAuthority, progressVars
  <1>3. CASE DoMisreaderFires
    BY <1>3 DEF DoMisreaderFires, progressVars
  <1>4. CASE DoMisreaderDoesNotFire
    BY <1>4 DEF DoMisreaderDoesNotFire, progressVars
  <1> QED
    BY <1>1, <1>2, <1>3, <1>4 DEF Do

(* The events of do: none of a checker or an explanation, its text at most *)
(* once, and its cause last.                                               *)
LEMMA DoEventsByKind ==
    ASSUME NEW turn, NEW cause \in Causes
    PROVE  LET new == DoEvents(turn, cause)
           IN  /\ turn = NoTurn => Len(new) = 2 /\ new[2] = cause
               /\ turn # NoTurn => /\ Len(new) = 3
                                  /\ new[2] = Stream!Text(turn)
                                  /\ new[2].kind = "text" /\ new[2].turn = turn
                                  /\ new[3] = cause
               /\ new[1].kind = "phase"
               /\ cause.kind = "cause"
  <1> DEFINE phase == Stream!Phase("do")
             text == Stream!Text(turn)
  <1>1. DoEvents(turn, cause) = IF turn = NoTurn THEN <<phase, cause>>
                                ELSE <<phase, text, cause>>
    BY DEF DoEvents
  <1>2. /\ phase.kind = "phase"
        /\ text.kind = "text" /\ text.turn = turn
        /\ cause.kind = "cause"
    BY DEF Stream!Phase, Stream!Text, Causes
  <1> HIDE DEF phase, text
  <1>3. CASE turn = NoTurn
    BY <1>1, <1>2, <1>3
  <1>4. CASE turn # NoTurn
    BY <1>1, <1>2, <1>4 DEF text
  <1> QED
    BY <1>3, <1>4

(* The text of do is shown as the turn it became. *)
LEMMA DoKeepsTheTexts ==
    ASSUME CauseInv, ClientInv, Typed',
           StreamAdds(DoEvents(bad_response', ShownCause')),
           run' = run,
           \/ bad_response' = NoTurn /\ messages' = messages
           \/ \E content \in Contents : Generate(content)
    PROVE  /\ StreamsEveryNewTurnOnce'
           /\ bad_response' # NoTurn =>
                 bad_response' = Len(messages') /\ run'.initial_turns < bad_response'
  <1> DEFINE new == DoEvents(bad_response', ShownCause')
             t == bad_response'
             n == Len(stream.events)
  <1>1. StreamTyped /\ StreamsEveryNewTurnOnce
    BY DEF ClientInv
  <1>2. /\ messages \in Seq(Message) /\ Len(messages) \in Nat
        /\ run.initial_turns \in Nat /\ run.initial_turns =< Len(messages)
        /\ bad_response' \in Nat
    BY DEF CauseInv, OnlyTheAgentSpeaks, Typed, TypeOK, RunInputs
  <1>3. /\ t = NoTurn => Len(new) = 2 /\ new[2].kind = "cause"
        /\ t # NoTurn => /\ Len(new) = 3
                         /\ new[2].kind = "text" /\ new[2].turn = t
                         /\ new[3].kind = "cause"
        /\ new[1].kind = "phase"
    BY ShownTypes, DoEventsByKind
  <1>4. StreamAdds(new)
    OBVIOUS
  <1>5. t = NoTurn => messages' = messages
    <2> SUFFICES ASSUME t = NoTurn, messages' # messages
                 PROVE  FALSE
      OBVIOUS
    <2>1. PICK content \in Contents : Generate(content)
      OBVIOUS
    <2> QED
      BY <1>2, <2>1 DEF Generate, NoTurn
  <1>6. t # NoTurn => t = Len(messages) + 1 /\ Len(messages') = Len(messages) + 1
    <2> SUFFICES ASSUME t # NoTurn
                 PROVE  t = Len(messages) + 1 /\ Len(messages') = Len(messages) + 1
      OBVIOUS
    <2>1. PICK content \in Contents : Generate(content)
      OBVIOUS
    <2> QED
      BY <1>2, <2>1, GenerateType DEF Generate
  <1> HIDE DEF new, t
  <1>7. CASE t = NoTurn
    <2>0. /\ Len(new) = 2
          /\ new[1].kind = "phase" /\ new[2].kind = "cause"
      BY <1>3, <1>7, Zenon
    <2>1. \A i \in 1..Len(new) : new[i].kind # "text"
      BY <2>0
    <2>2. KeepsShown("text")
      BY <1>4, <2>1, OthersKeepShown
    <2> QED
      BY <1>1, <1>5, <1>7, <2>2, TextsStay DEF t
  <1>8. CASE t # NoTurn
    <2>0. Len(new) = 3
      BY <1>3, <1>8, Zenon
    <2>1. /\ n \in Nat
          /\ Stream!Places(stream, "text") \subseteq 1..n
          /\ Stream!Places(stream', "text") =
                Stream!Places(stream, "text")
                \cup {i \in (n + 1)..(n + 3) : new[i - n].kind = "text"}
          /\ \A i \in 1..n : stream'.events[i] = stream.events[i]
          /\ \A i \in 1..3 : stream'.events[n + i] = new[i]
      <3>1. /\ n \in Nat
            /\ Stream!Places(stream, "text") \subseteq 1..n
            /\ Stream!Places(stream', "text") =
                  Stream!Places(stream, "text")
                  \cup {i \in (n + 1)..(n + Len(new)) : new[i - n].kind = "text"}
            /\ \A i \in 1..n : stream'.events[i] = stream.events[i]
            /\ \A i \in 1..Len(new) : stream'.events[n + i] = new[i]
        BY <1>4, StreamInstance, Stream!PlacesAfter DEF StreamAdds
      <3> QED
        BY <2>0, <3>1
    <2> HIDE DEF n
    <2>2. /\ new[1].kind = "phase"
          /\ new[2].kind = "text" /\ new[2].turn = t
          /\ new[3].kind = "cause"
      BY <1>3, <1>8, Zenon
    <2>3. {i \in (n + 1)..(n + 3) : new[i - n].kind = "text"} = {n + 2}
      <3>1. \A i \in (n + 1)..(n + 3) : i - n = 1 \/ i - n = 2 \/ i - n = 3
        BY <2>1
      <3>2. \A i \in (n + 1)..(n + 3) : i - n = 2 <=> i = n + 2
        BY <2>1
      <3>3. n + 2 \in (n + 1)..(n + 3)
        BY <2>1
      <3> QED
        BY <2>2, <3>1, <3>2, <3>3
    <2>4. /\ Shown("text")' = Shown("text") \cup {n + 2}
          /\ \A i \in Shown("text") :
                i \in Nat /\ i < n + 2 /\ stream'.events[i] = stream.events[i]
          /\ stream'.events[n + 2].turn = t
      <3>0. 2 \in 1..3
        OBVIOUS
      <3>1. stream'.events[n + 2] = new[2]
        BY <2>1, <3>0, Zenon
      <3>2. Shown("text")' = Shown("text") \cup {n + 2}
        BY <2>1, <2>3 DEF Shown
      <3>3. \A i \in Shown("text") :
               i \in Nat /\ i < n + 2 /\ stream'.events[i] = stream.events[i]
        <4>1. \A i \in 1..n : i \in Nat /\ i < n + 2
          BY <2>1
        <4> QED
          BY <2>1, <4>1, Zenon DEF Shown
      <3> QED
        BY <2>2, <3>1, <3>2, <3>3
    <2>5. /\ {stream.events[i].turn : i \in Shown("text")} =
                run.initial_turns + 1 .. Len(messages)
          /\ \A i, j \in Shown("text") :
                i < j => stream.events[i].turn < stream.events[j].turn
      BY <1>1 DEF StreamsEveryNewTurnOnce
    <2>6. run.initial_turns + 1 .. Len(messages') =
             (run.initial_turns + 1 .. Len(messages)) \cup {t}
      BY <1>2, <1>6, <1>8
    <2>7. {stream'.events[i].turn : i \in Shown("text")'} =
             run.initial_turns + 1 .. Len(messages')
      BY <2>4, <2>5, <2>6
    <2>8. \A i, j \in Shown("text")' :
             i < j => stream'.events[i].turn < stream'.events[j].turn
      <3>1. \A i \in Shown("text") : stream.events[i].turn \in
               run.initial_turns + 1 .. Len(messages)
        BY <2>5
      <3>2. \A i \in Shown("text") : stream.events[i].turn < t
        BY <1>2, <1>6, <1>8, <3>1
      <3> TAKE i, j \in Shown("text")'
      <3>3. CASE i = n + 2
        <4>1. n \in Nat /\ (j = n + 2 \/ (j \in Nat /\ j < n + 2))
          BY <2>1, <2>4
        <4> QED
          BY <3>3, <4>1
      <3>4. CASE i # n + 2 /\ j = n + 2
        <4>1. i \in Shown("text") /\ stream'.events[i] = stream.events[i]
          BY <2>4, <3>4
        <4> QED
          BY <2>4, <3>2, <3>4, <4>1
      <3>5. CASE i # n + 2 /\ j # n + 2
        <4>1. /\ i \in Shown("text") /\ stream'.events[i] = stream.events[i]
              /\ j \in Shown("text") /\ stream'.events[j] = stream.events[j]
          BY <2>4, <3>5
        <4> QED
          BY <2>5, <4>1
      <3> QED
        BY <3>3, <3>4, <3>5
    <2>9. StreamsEveryNewTurnOnce'
      BY <2>7, <2>8, Zenon DEF StreamsEveryNewTurnOnce
    <2>10. bad_response' = Len(messages') /\ run'.initial_turns < bad_response'
      BY <1>2, <1>6, <1>8 DEF t
    <2> QED
      BY <2>9, <2>10
  <1> QED
    BY <1>7, <1>8

(* Do shows its text and its cause, and nothing of the observer side. *)
LEMMA DoKeepsTheClient ==
    ASSUME ObserverInv, CauseInv, ClientInv, Typed', Do, ~DoRaises,
           stream_status = "open", stream' = ProjectTheNewState,
           UNCHANGED <<artifacts, generated, stream_status>>
    PROVE  ClientInv'
  <1>1. /\ stream' \in StreamRecord
        /\ StreamAdds(DoEvents(bad_response', ShownCause'))
        /\ NoStepAhead'
        /\ stream'.checker_emitted = stream.checker_emitted
        /\ \E i \in DOMAIN step_traces' : step_traces'[i].step_kind = "do"
    BY DoAdds DEF ObserverInv, PolicyInv, ClientInv
  <1>2. /\ node' = "check"
        /\ UNCHANGED <<run, loop_iteration>>
        /\ \/ bad_response' = NoTurn /\ messages' = messages
           \/ \E content \in Contents : Generate(content)
    BY DoSaysOneTurn DEF CauseInv
  <1>3. StreamTyped /\ CheckerSinceTheFirst /\ EndOfTheStream
    BY DEF ClientInv
  <1> DEFINE new == DoEvents(bad_response', ShownCause')
             e == ShownCause'
  <1>4. /\ Len(new) = 2 \/ Len(new) = 3
        /\ new[Len(new)] = e
        /\ e.kind = "cause"
        /\ \A i \in 1..(Len(new) - 1) : new[i].kind \in {"phase", "text"}
    BY ShownTypes, DoEventsByKind
  <1>5. StreamAdds(new)
    BY <1>1
  <1>6. StreamsEveryNewTurnOnce' /\ TextOfTheIteration'
    BY <1>1, <1>2, DoKeepsTheTexts DEF TextOfTheIteration
  <1> HIDE DEF new, e
  <1>7. KeepsShown("checker") /\ KeepsShown("explain")
    <2>1. \A i \in 1..Len(new) : new[i].kind \in {"phase", "text", "cause"}
      BY <1>4
    <2> QED
      BY <1>5, <2>1, OthersKeepShown
  <1>8. Stream!IsTheLast(stream', e)
    <2>1. Len(new) > 0
      <3>1. Len(new) = 2 \/ Len(new) = 3
        BY <1>4, Zenon
      <3> QED
        BY <3>1
    <2>2. ASSUME NEW i \in 1..(Len(new) - 1)
          PROVE  new[i].kind # e.kind
      BY <1>4
    <2> QED
      BY <1>4, <1>5, <2>1, <2>2, StreamInstance, Stream!AddedIsTheLast DEF StreamAdds
  <1>9. ShownCauseIsTheFrozenCause'
    BY <1>8 DEF ShownCauseIsTheFrozenCause, ShownLast, e
  <1>10. CheckerSinceTheFirst'
    BY <1>1, <1>2, <1>3, <1>7 DEF CheckerSinceTheFirst, KeepsShown
  <1>11. FirstCheckerIsShown' /\ DoIsThere'
    BY <1>1, <1>2 DEF FirstCheckerIsShown, DoIsThere
  <1>12. StreamTyped' /\ EndOfTheStream'
    BY <1>1, <1>3, OpenStreamHasNotEnded
  <1> QED
    BY <1>1, <1>6, <1>9, <1>10, <1>11, <1>12 DEF ClientInv

(* A loop started from a prompt has an outcome once it was checked. *)
OutcomeIsThere ==
    run.loop_source = "prompt_contract" /\ node \in {"explain", "end"} =>
        observation_outcome # "none"

(* The comparison of the iteration is there once its check ran. *)
LEMMA ComparedHasAnOutcome == ObserverInv => OutcomeIsThere
  BY DEF ObserverInv, ComparisonOfTheIteration, OutcomeIsThere, ObservationOutcome

(* The cause stays the one that was shown. *)
LEMMA CauseStaysShown ==
    ASSUME ShownCauseIsTheFrozenCause, KeepsShown("cause"),
           node \in {"check", "explain"}, ShownCause' = ShownCause
    PROVE  ShownCauseIsTheFrozenCause'
  <1> DEFINE e == ShownCause
  <1>1. e.kind = "cause"
    BY DEF ShownCause, Stream!Cause
  <1>2. Stream!IsTheLast(stream, e)
    BY DEF ShownCauseIsTheFrozenCause, ShownLast
  <1>3. ShownCause' = e
    OBVIOUS
  <1> HIDE DEF e
  <1>4. Stream!IsTheLast(stream', e)
    BY <1>1, <1>2, LastStays
  <1> QED
    BY <1>3, <1>4 DEF ShownCauseIsTheFrozenCause, ShownLast

(* What a check leaves alone. *)
LEMMA CheckLeavesTheCause ==
    ASSUME CheckObserves \/ CheckSkipped
    PROVE  /\ node = "check" /\ node' = "explain"
           /\ loop_iteration' = loop_iteration + 1
           /\ UNCHANGED <<run, messages, bad_response>>
           /\ ShownCause' = ShownCause
  <1>1. PICK observation, context : Check(observation, context) /\ node = "check"
    BY DEF CheckObserves, CheckSkipped
  <1> QED
    BY <1>1 DEF Check, causeVars, ShownCause

(* An appended trace leaves the do steps where they are. *)
LEMMA DoStaysThere ==
    ASSUME step_traces \in Seq(StepTrace), DoIsThere,
           node \in {"check", "explain"}, NEW t, step_traces' = Append(step_traces, t)
    PROVE  DoIsThere'
  <1>1. PICK i \in DOMAIN step_traces : step_traces[i].step_kind = "do"
    BY DEF DoIsThere
  <1>2. i \in DOMAIN step_traces' /\ step_traces'[i] = step_traces[i]
    BY <1>1
  <1> QED
    BY <1>1, <1>2 DEF DoIsThere

(* The first check shows its checker, a later one nothing. *)
LEMMA CheckKeepsTheClient ==
    ASSUME ObserverInv, ClientInv, ObserverInv', CheckObserves \/ CheckSkipped,
           stream_status = "open", stream' = ProjectTheNewState,
           UNCHANGED <<artifacts, generated, stream_status>>
    PROVE  ClientInv'
  <1> DEFINE new == <<Stream!Phase("check"), ShownChecker'>>
             e == ShownChecker'
  <1>1. /\ node = "check" /\ node' = "explain"
        /\ loop_iteration' = loop_iteration + 1
        /\ UNCHANGED <<run, messages, bad_response>>
        /\ ShownCause' = ShownCause
    BY CheckLeavesTheCause
  <1>2. /\ Typed /\ Typed' /\ StepTracesFollowTheGraph
        /\ loop_iteration \in Nat /\ step_traces \in Seq(StepTrace)
    BY DEF ObserverInv, PolicyInv, Typed, TypeOK
  <1>3. /\ StreamTyped /\ NoStepAhead /\ CheckerSinceTheFirst /\ EndOfTheStream
        /\ TextOfTheIteration /\ DoIsThere /\ StreamsEveryNewTurnOnce
        /\ ShownCauseIsTheFrozenCause
    BY DEF ClientInv
  <1>4. observation_outcome' # "none"
    <2>1. ObserverInv' => OutcomeIsThere'
      BY ComparedHasAnOutcome, PTL
    <2> QED
      BY <1>1, <1>3, <2>1 DEF OutcomeIsThere, CheckerSinceTheFirst
  <1>5. /\ stream' \in StreamRecord
        /\ NoStepAhead'
        /\ stream'.checker_emitted = TRUE
        /\ IF stream.checker_emitted = TRUE THEN stream'.events = stream.events
           ELSE StreamAdds(new)
    BY <1>2, <1>3, <1>4, CheckAdds
  <1>6. Len(new) = 2 /\ new[1].kind = "phase" /\ new[2] = e
    BY DEF Stream!Phase
  <1>7. e.kind = "checker"
    BY <1>2, ShownTypes DEF Checkers
  <1> HIDE DEF new, e
  <1>8. /\ KeepsShown("text") /\ KeepsShown("cause") /\ KeepsShown("explain")
        /\ loop_iteration = 0 => Stream!IsTheOnly(stream', e)
    <2>1. CASE stream.checker_emitted = TRUE
      <3>1. loop_iteration # 0
        BY <1>2, <1>3, <2>1 DEF CheckerSinceTheFirst
      <3> QED
        BY <1>5, <2>1, <3>1, NothingAddedKeepsShown
    <2>2. CASE stream.checker_emitted # TRUE
      <3>1. StreamAdds(new)
        BY <1>5, <2>2
      <3>2. \A i \in 1..Len(new) : new[i].kind \in {"phase", "checker"}
        <4>1. \A i \in 1..2 : i = 1 \/ i = 2
          OBVIOUS
        <4> QED
          BY <1>6, <1>7, <4>1
      <3>3. KeepsShown("text") /\ KeepsShown("cause") /\ KeepsShown("explain")
        BY <3>1, <3>2, OthersKeepShown
      <3>4. /\ Len(new) > 0 /\ new[Len(new)] = e
            /\ \A i \in 1..(Len(new) - 1) : new[i].kind # e.kind
        BY <1>6, <1>7
      <3>5. loop_iteration = 0 => Shown(e.kind) = {}
        BY <1>3, <1>7 DEF CheckerSinceTheFirst
      <3> QED
        BY <3>1, <3>3, <3>4, <3>5, StreamInstance, Stream!AddedIsTheLast
           DEF StreamAdds, Shown
    <2> QED
      BY <2>1, <2>2
  <1>9. StreamsEveryNewTurnOnce'
    BY <1>1, <1>3, <1>8, TextsStay
  <1>10. ShownCauseIsTheFrozenCause'
    BY <1>1, <1>3, <1>8, CauseStaysShown
  <1>11. FirstCheckerIsShown'
    <2> SUFFICES ASSUME loop_iteration' = 1
                 PROVE  FirstCheckerIsShown'
      BY DEF FirstCheckerIsShown
    <2>1. loop_iteration = 0
      BY <1>1, <1>2
    <2>2. Shown("explain")' = {}
      BY <1>3, <1>8, <2>1 DEF CheckerSinceTheFirst, KeepsShown
    <2>3. Stream!IsTheOnly(stream', ShownChecker')
      BY <1>8, <2>1 DEF e
    <2> QED
      BY <2>2, <2>3 DEF FirstCheckerIsShown
  <1>12. CheckerSinceTheFirst'
    <2>1. loop_iteration' > 0
      BY <1>1, <1>2
    <2> QED
      BY <1>1, <1>3, <1>5, <2>1 DEF CheckerSinceTheFirst
  <1>13. TextOfTheIteration'
    BY <1>1, <1>3 DEF TextOfTheIteration
  <1>14. DoIsThere'
    <2>1. \E t : step_traces' = Append(step_traces, t)
      BY DEF CheckObserves, CheckSkipped, Check, StepUpdate
    <2> QED
      BY <1>1, <1>2, <1>3, <2>1, DoStaysThere
  <1>15. StreamTyped' /\ EndOfTheStream'
    BY <1>3, <1>5, OpenStreamHasNotEnded
  <1> QED
    BY <1>5, <1>9, <1>10, <1>11, <1>12, <1>13, <1>14, <1>15 DEF ClientInv

(* What explaining leaves alone. *)
LEMMA ExplainLeavesTheRest ==
    ASSUME Explain \/ ExplainSkipped
    PROVE  /\ node = "explain" /\ node' \in {"plan", "end"}
           /\ UNCHANGED <<run, messages, bad_response, loop_iteration>>
           /\ ShownCause' = ShownCause
           /\ ShownChecker' = ShownChecker
  <1>1. RouteAfterCheck \in {"plan", "end"}
    BY DEF RouteAfterCheck
  <1>2. /\ node = "explain" /\ node' \in {"plan", "end"}
        /\ UNCHANGED <<run, causeVars, axisVars, observationVars, progressVars>>
    BY <1>1 DEF Explain, ExplainSkipped
  <1> QED
    BY <1>2 DEF causeVars, axisVars, observationVars, progressVars, ShownCause,
                ShownChecker

(* An explanation is shown after the checker it refers to. *)
LEMMA ExplainKeepsTheClient ==
    ASSUME ObserverInv, ClientInv, ObserverInv', Explain,
           stream_status = "open", stream' = ProjectTheNewState,
           UNCHANGED <<artifacts, generated, stream_status>>
    PROVE  ClientInv'
  <1> DEFINE e == Stream!Explanation(self_explanation')
             new == <<Stream!Phase("explain"), e>>
             c == ShownChecker
             n == Len(stream.events) + Len(new)
  <1>1. /\ node = "explain" /\ node' \in {"plan", "end"}
        /\ UNCHANGED <<run, messages, bad_response, loop_iteration>>
        /\ ShownCause' = ShownCause
        /\ ShownChecker' = ShownChecker
    BY ExplainLeavesTheRest
  <1>2. /\ Typed /\ Typed' /\ StepTracesFollowTheGraph
        /\ loop_iteration \in Nat /\ step_traces \in Seq(StepTrace)
    BY DEF ObserverInv, PolicyInv, Typed, TypeOK
  <1>3. /\ StreamTyped /\ NoStepAhead /\ CheckerSinceTheFirst /\ EndOfTheStream
        /\ TextOfTheIteration /\ DoIsThere /\ StreamsEveryNewTurnOnce
        /\ ShownCauseIsTheFrozenCause /\ FirstCheckerIsShown
    BY DEF ClientInv
  <1>4. /\ stream' \in StreamRecord
        /\ StreamAdds(new)
        /\ NoStepAhead'
        /\ stream'.checker_emitted = stream.checker_emitted
    BY <1>2, <1>3, ExplainAdds
  <1>5. /\ Len(new) = 2 /\ new[1].kind = "phase" /\ new[2] = e
        /\ e.kind = "explain" /\ c.kind = "checker"
    BY DEF Stream!Phase, Stream!Explanation, ShownChecker, Stream!Checker
  <1>6. DoIsThere'
    <2>1. \E t : step_traces' = Append(step_traces, t)
      BY DEF Explain, StepUpdate
    <2> QED
      BY <1>1, <1>2, <1>3, <2>1, DoStaysThere
  <1> HIDE DEF new, e, c, n
  <1>7. KeepsShown("text") /\ KeepsShown("cause") /\ KeepsShown("checker")
    <2>1. \A i \in 1..Len(new) : new[i].kind \in {"phase", "explain"}
      <3>1. \A i \in 1..2 : i = 1 \/ i = 2
        OBVIOUS
      <3> QED
        BY <1>5, <3>1
    <2> QED
      BY <1>4, <2>1, OthersKeepShown
  <1>8. StreamsEveryNewTurnOnce'
    BY <1>1, <1>3, <1>7, TextsStay
  <1>9. ShownCauseIsTheFrozenCause'
    BY <1>1, <1>3, <1>7, CauseStaysShown
  <1>10. FirstCheckerIsShown'
    <2> SUFFICES ASSUME loop_iteration' = 1
                 PROVE  FirstCheckerIsShown'
      BY DEF FirstCheckerIsShown
    <2>1. /\ Stream!IsTheOnly(stream, c)
          /\ \A i \in Shown("checker"), j \in Shown("explain") : i < j
      BY <1>1, <1>3 DEF FirstCheckerIsShown, c
    <2>2. Stream!IsTheOnly(stream', c)
      BY <1>5, <1>7, <2>1, LastStays
    <2>3. Shown("explain")' = Shown("explain") \cup {n}
      <3>1. /\ Len(new) > 0 /\ new[Len(new)] = e
            /\ \A i \in 1..(Len(new) - 1) : new[i].kind # e.kind
        BY <1>5
      <3>2. Stream!Places(stream', e.kind) = Shown(e.kind) \cup {n}
        <4>1. Stream!Places(stream', e.kind) =
                 Stream!Places(stream, e.kind)
                 \cup {Len(stream.events) + Len(new)}
          BY <1>4, <3>1, StreamInstance, Stream!AddedIsTheLast DEF StreamAdds
        <4> QED
          BY <4>1 DEF n, Shown
      <3> QED
        BY <1>5, <3>2 DEF Shown
    <2>4. \A i \in Shown("checker") : i < n
      <3>1. /\ Len(stream.events) \in Nat /\ Len(new) \in Nat
            /\ Stream!Places(stream, "checker") \subseteq 1..Len(stream.events)
        BY <1>4, StreamInstance, Stream!PlacesAfter DEF StreamAdds
      <3> QED
        BY <1>5, <3>1 DEF Shown, n
    <2>5. \A i \in Shown("checker")', j \in Shown("explain")' : i < j
      BY <1>7, <2>1, <2>3, <2>4 DEF KeepsShown
    <2>6. Stream!IsTheOnly(stream', ShownChecker')
      BY <1>1, <2>2 DEF c
    <2> QED
      BY <2>5, <2>6 DEF FirstCheckerIsShown
  <1>11. CheckerSinceTheFirst'
    BY <1>1, <1>3, <1>4 DEF CheckerSinceTheFirst
  <1>12. TextOfTheIteration'
    BY <1>1, <1>3 DEF TextOfTheIteration
  <1>13. StreamTyped' /\ EndOfTheStream'
    BY <1>3, <1>4, OpenStreamHasNotEnded
  <1> QED
    BY <1>4, <1>6, <1>8, <1>9, <1>10, <1>11, <1>12, <1>13 DEF ClientInv

(* Without an explanation nothing is shown. *)
LEMMA ExplainSkippedKeepsTheClient ==
    ASSUME ObserverInv, ClientInv, ExplainSkipped,
           stream_status = "open", stream' = ProjectTheNewState,
           UNCHANGED <<artifacts, generated, stream_status>>
    PROVE  ClientInv'
  <1>1. /\ node = "explain" /\ node' \in {"plan", "end"}
        /\ UNCHANGED <<run, messages, bad_response, loop_iteration>>
        /\ ShownCause' = ShownCause
        /\ ShownChecker' = ShownChecker
    BY ExplainLeavesTheRest
  <1>2. /\ StreamTyped /\ NoStepAhead /\ CheckerSinceTheFirst /\ EndOfTheStream
        /\ TextOfTheIteration /\ DoIsThere /\ StreamsEveryNewTurnOnce
        /\ ShownCauseIsTheFrozenCause /\ FirstCheckerIsShown
    BY DEF ClientInv
  <1>3. stream.checker_emitted = TRUE
    BY <1>1, <1>2 DEF CheckerSinceTheFirst
  <1>4. stream' = stream /\ step_traces' = step_traces
    BY <1>3, ExplainSkippedAdds DEF ObserverInv
  <1>5. \A kind : KeepsShown(kind)
    BY <1>4, NothingAddedKeepsShown
  <1>6. StreamsEveryNewTurnOnce' /\ ShownCauseIsTheFrozenCause'
    BY <1>1, <1>2, <1>5, TextsStay, CauseStaysShown
  <1>7. FirstCheckerIsShown'
    <2> DEFINE c == ShownChecker
    <2>1. ShownChecker' = c
      BY <1>1
    <2>2. /\ Shown("checker")' = Shown("checker")
          /\ Shown("explain")' = Shown("explain")
      BY <1>5 DEF KeepsShown
    <2>3. loop_iteration' = 1 =>
             /\ Stream!IsTheOnly(stream, c)
             /\ \A i \in Shown("checker"), j \in Shown("explain") : i < j
      BY <1>1, <1>2 DEF FirstCheckerIsShown
    <2> HIDE DEF c
    <2> QED
      BY <1>4, <2>1, <2>2, <2>3 DEF FirstCheckerIsShown
  <1>8. CheckerSinceTheFirst'
    BY <1>1, <1>2, <1>4 DEF CheckerSinceTheFirst
  <1>9. TextOfTheIteration' /\ DoIsThere' /\ NoStepAhead'
    BY <1>1, <1>2, <1>4 DEF TextOfTheIteration, DoIsThere, NoStepAhead
  <1>10. StreamTyped' /\ EndOfTheStream'
    <2>1. stream' \in StreamRecord
      BY <1>2, <1>4 DEF StreamTyped
    <2> QED
      BY <1>2, <2>1, OpenStreamHasNotEnded
  <1> QED
    BY <1>6, <1>7, <1>8, <1>9, <1>10 DEF ClientInv

(* An exception leaves the stream with what it had shown. *)
LEMMA RaiseKeepsTheClient ==
    ASSUME ClientInv, Raise
    PROVE  ClientInv'
  <1>1. RouteAfterCheck \in {"plan", "end"}
    BY DEF RouteAfterCheck
  <1>2. DoRaises \/ CheckRaises
    <2>1. CASE Plan
      BY <2>1 DEF Plan, Raise
    <2>2. CASE DoOutOfScope \/ DoAuthority \/ DoMisreaderFires \/ DoMisreaderDoesNotFire
      BY <2>2 DEF DoOutOfScope, DoAuthority, DoMisreaderFires, DoMisreaderDoesNotFire,
                  Raise
    <2>3. CASE CheckObserves \/ CheckSkipped
      BY <2>3 DEF CheckObserves, CheckSkipped, Check, Raise
    <2>4. CASE Explain \/ ExplainSkipped
      BY <1>1, <2>4 DEF Explain, ExplainSkipped, Raise
    <2> QED
      BY <2>1, <2>2, <2>3, <2>4 DEF Raise, LoopStep, Do
  <1>3. /\ node' = "failed"
        /\ UNCHANGED <<run, messages, loop_iteration, step_traces>>
    BY <1>2 DEF DoRaises, CheckRaises, Raises, causeVars, progressVars, traceVars
  <1>4. stream_status' = "raised" /\ UNCHANGED <<stream, artifacts, generated>>
    BY DEF Raise
  <1>5. StreamTyped' /\ NoStepAhead' /\ EndOfTheStream'
    BY <1>3, <1>4 DEF ClientInv, StreamTyped, NoStepAhead, EndOfTheStream
  <1>6. /\ KeepsShown("text")
        /\ Shown("checker")' = Shown("checker") /\ Shown("explain")' = Shown("explain")
    BY <1>4, NothingAddedKeepsShown DEF KeepsShown
  <1>7. StreamsEveryNewTurnOnce'
    BY <1>3, <1>6, TextsStay DEF ClientInv
  <1>8. CheckerSinceTheFirst'
    BY <1>3, <1>4, <1>6 DEF ClientInv, CheckerSinceTheFirst
  <1>9. /\ TextOfTheIteration' /\ DoIsThere'
        /\ ShownCauseIsTheFrozenCause' /\ FirstCheckerIsShown'
    BY <1>3 DEF TextOfTheIteration, DoIsThere, ShownCauseIsTheFrozenCause,
               FirstCheckerIsShown
  <1> QED
    BY <1>5, <1>7, <1>8, <1>9 DEF ClientInv

(* A supported contract has a text when its loop ends. *)
LEMMA SupportedHasAText ==
    ASSUME ObserverInv, node = "end", SupportedPromptContract
    PROVE  bad_response # NoTurn
  BY DEF ObserverInv, RunIsOfItsContract, TextIsGenerated, SupportedPromptContract

(* Adding events of other kinds to a state that stays the same. *)
LEMMA StateStays ==
    ASSUME ClientInv, UNCHANGED vars,
           \A kind \in {"text", "cause", "checker", "explain"} : KeepsShown(kind),
           stream'.emitted_step_indexes = stream.emitted_step_indexes,
           stream'.checker_emitted = stream.checker_emitted
    PROVE  /\ TextOfTheIteration' /\ NoStepAhead' /\ CheckerSinceTheFirst' /\ DoIsThere'
           /\ StreamsEveryNewTurnOnce' /\ ShownCauseIsTheFrozenCause'
           /\ FirstCheckerIsShown'
  <1> DEFINE e == ShownCause
             c == ShownChecker
  <1>1. /\ UNCHANGED <<run, node, messages, bad_response, loop_iteration, step_traces>>
        /\ ShownCause' = e /\ ShownChecker' = c
    BY DEF vars, causeVars, axisVars, observationVars, progressVars, traceVars,
           ShownCause, ShownChecker
  <1>2. /\ KeepsShown("text") /\ KeepsShown("cause")
        /\ KeepsShown("checker") /\ KeepsShown("explain")
    OBVIOUS
  <1>3. /\ Shown("checker")' = Shown("checker")
        /\ Shown("explain")' = Shown("explain")
    BY <1>2 DEF KeepsShown
  <1>4. e.kind = "cause" /\ c.kind = "checker"
    BY DEF ShownCause, ShownChecker, Stream!Cause, Stream!Checker
  <1>5. TextOfTheIteration' /\ NoStepAhead' /\ DoIsThere'
    BY <1>1 DEF ClientInv, TextOfTheIteration, NoStepAhead, DoIsThere
  <1>6. CheckerSinceTheFirst'
    BY <1>1, <1>3 DEF ClientInv, CheckerSinceTheFirst
  <1>7. StreamsEveryNewTurnOnce'
    BY <1>1, <1>2, TextsStay DEF ClientInv
  <1>8. node \in {"check", "explain", "end"} => Stream!IsTheLast(stream, e)
    BY DEF ClientInv, ShownCauseIsTheFrozenCause, ShownLast
  <1>9. loop_iteration = 1 /\ node \in {"explain", "end"} =>
           /\ Stream!IsTheOnly(stream, c)
           /\ \A i \in Shown("checker"), j \in Shown("explain") : i < j
    BY DEF ClientInv, FirstCheckerIsShown
  <1> HIDE DEF e, c
  <1>10. /\ Stream!IsTheLast(stream, e) => Stream!IsTheLast(stream', e)
         /\ Stream!IsTheOnly(stream, c) => Stream!IsTheOnly(stream', c)
    BY <1>2, <1>4, LastStays
  <1>11. ShownCauseIsTheFrozenCause'
    BY <1>1, <1>8, <1>10 DEF ShownCauseIsTheFrozenCause, ShownLast
  <1>12. FirstCheckerIsShown'
    BY <1>1, <1>3, <1>9, <1>10 DEF FirstCheckerIsShown
  <1> QED
    BY <1>5, <1>6, <1>7, <1>11, <1>12

(* The run is completed with the artifacts of its contract. *)
LEMMA FinishKeepsTheClient ==
    ASSUME ObserverInv, ClientInv, Finish
    PROVE  ClientInv'
  <1> DEFINE e == Stream!Completed(observation_outcome, FinalArtifacts)
             new == <<e>>
  <1>1. StreamTyped /\ EndOfTheStream /\ stream.events \in Seq(Events)
    BY DEF ClientInv, StreamTyped, StreamRecord, Stream!StreamOf
  <1>2. ~(SupportedPromptContract /\ bad_response = NoTurn)
    BY SupportedHasAText DEF Finish
  <1>3. /\ node = "end" /\ UNCHANGED vars
        /\ artifacts = {"contract"}
        /\ artifacts' = FinalArtifacts
        /\ stream_status' = "completed"
        /\ generated' = IF SupportedPromptContract
                        THEN [turn |-> bad_response, step_index |-> LastDoStepIndex]
                        ELSE NotGenerated
        /\ stream' = [stream EXCEPT !.events = Append(@, e)]
    BY <1>1, <1>2 DEF Finish, EndOfTheStream
  <1>4. /\ FinalArtifacts \subseteq {"contract", "loop_trace", "generated", "explanation"}
        /\ "generated" \in FinalArtifacts <=> SupportedPromptContract
    BY <1>3 DEF FinalArtifacts
  <1>5. e \in Events /\ e.kind = "completed"
    <2>1. observation_outcome \in Outcomes \cup {"none"}
      BY DEF ObserverInv, PolicyInv, Typed, TypeOK
    <2> QED
      BY <1>4, <2>1 DEF Stream!Completed, Events
  <1> HIDE DEF e
  <1>6. /\ StreamAdds(new)
        /\ stream' \in StreamRecord
        /\ stream'.emitted_step_indexes = stream.emitted_step_indexes
        /\ stream'.checker_emitted = stream.checker_emitted
    <2>1. new \in Seq(Events) /\ Append(stream.events, e) \in Seq(Events)
      BY <1>1, <1>5
    <2>2. Append(stream.events, e) = stream.events \o new
      BY <1>1, <1>5, AppendIsConcat
    <2>3. stream \in StreamRecord
      BY <1>1 DEF StreamTyped
    <2> HIDE DEF new
    <2>4. /\ stream' \in StreamRecord
          /\ stream'.events = Append(stream.events, e)
          /\ stream'.emitted_step_indexes = stream.emitted_step_indexes
          /\ stream'.checker_emitted = stream.checker_emitted
      BY <1>3, <2>1, <2>3 DEF StreamRecord, Stream!StreamOf
    <2> QED
      BY <1>1, <2>1, <2>2, <2>4 DEF StreamAdds, Stream!Adds
  <1>7. \A kind \in {"text", "cause", "checker", "explain"} : KeepsShown(kind)
    <2> TAKE kind \in {"text", "cause", "checker", "explain"}
    <2>1. \A i \in 1..Len(new) : new[i].kind # kind
      BY <1>5
    <2> HIDE DEF new
    <2> QED
      BY <1>6, <2>1, OthersKeepShown
  <1>8. StreamTyped'
    BY <1>3, <1>4, <1>6 DEF StreamTyped
  <1>9. EndOfTheStream'
    <2>1. /\ SupportedPromptContract' <=> SupportedPromptContract
          /\ LastDoStepIndex' = LastDoStepIndex
          /\ bad_response' = bad_response /\ node' = node
      BY <1>3 DEF vars, causeVars, traceVars, SupportedPromptContract, LastDoStepIndex
    <2> QED
      BY <1>3, <1>4, <2>1 DEF EndOfTheStream
  <1> QED
    BY <1>3, <1>6, <1>7, <1>8, <1>9, StateStays DEF ClientInv

(* Nothing happens when nothing does. *)
LEMMA DrainedKeepsTheClient ==
    ASSUME ClientInv, UNCHANGED <<vars, streamVars>>
    PROVE  ClientInv'
  <1>1. UNCHANGED vars /\ UNCHANGED <<stream, artifacts, generated, stream_status>>
    BY DEF streamVars
  <1>2. \A kind \in {"text", "cause", "checker", "explain"} : KeepsShown(kind)
    BY <1>1, NothingAddedKeepsShown
  <1>3. StreamTyped'
    BY <1>1 DEF ClientInv, StreamTyped
  <1>4. EndOfTheStream'
    <2>1. /\ SupportedPromptContract' <=> SupportedPromptContract
          /\ LastDoStepIndex' = LastDoStepIndex
          /\ bad_response' = bad_response /\ node' = node
      BY <1>1 DEF vars, causeVars, traceVars, SupportedPromptContract, LastDoStepIndex
    <2> QED
      BY <1>1, <2>1 DEF ClientInv, EndOfTheStream
  <1> QED
    BY <1>1, <1>2, <1>3, <1>4, StateStays DEF ClientInv

(* Every step of the stream keeps its invariant, given those of the loop.  *)
LEMMA ClientInvInductive ==
    ClientInv /\ ObserverInv /\ CauseInv /\ ObserverInv'
    /\ [StreamNext]_<<vars, streamVars>> => ClientInv'
  <1> SUFFICES ASSUME ClientInv, ObserverInv, CauseInv, ObserverInv',
                      [StreamNext]_<<vars, streamVars>>
               PROVE  ClientInv'
    OBVIOUS
  <1>1. CASE Advance
    <2>1. /\ stream_status = "open" /\ LoopStep /\ node' # "failed"
          /\ stream' = ProjectTheNewState
          /\ UNCHANGED <<artifacts, generated, stream_status>>
      BY <1>1 DEF Advance
    <2>2. CASE Plan
      BY <2>1, <2>2, PlanKeepsTheClient
    <2>3. CASE Do
      <3>1. ~DoRaises
        BY <2>1 DEF DoRaises, Raises
      <3>2. Typed'
        BY DEF ObserverInv, PolicyInv
      <3> QED
        BY <2>1, <2>3, <3>1, <3>2, DoKeepsTheClient
    <2>4. CASE CheckObserves \/ CheckSkipped
      BY <2>1, <2>4, CheckKeepsTheClient
    <2>5. CASE CheckRaises
      BY <2>1, <2>5 DEF CheckRaises, Raises
    <2>6. CASE Explain
      BY <2>1, <2>6, ExplainKeepsTheClient
    <2>7. CASE ExplainSkipped
      BY <2>1, <2>7, ExplainSkippedKeepsTheClient
    <2> QED
      BY <2>1, <2>2, <2>3, <2>4, <2>5, <2>6, <2>7 DEF LoopStep
  <1>2. CASE Raise
    BY <1>2, RaiseKeepsTheClient
  <1>3. CASE Finish
    BY <1>3, FinishKeepsTheClient
  <1>4. CASE Drained
    BY <1>4, DrainedKeepsTheClient DEF Drained
  <1>5. CASE UNCHANGED <<vars, streamVars>>
    BY <1>5, DrainedKeepsTheClient
  <1> QED
    BY <1>1, <1>2, <1>3, <1>4, <1>5 DEF StreamNext

(* Streaming only watches the loop: every step is a step of it.            *)
LEMMA StreamStepsAreLoopSteps ==
    [StreamNext]_<<vars, streamVars>> => [Next]_vars
  BY DEF StreamNext, Advance, Raise, Finish, Drained, LoopStep, Next

(* The invariants of the loop and of its stream hold together. *)
LEMMA ClientInvariant ==
    StreamSpec => [](ClientInv /\ ObserverInv /\ CauseInv)
  <1>1. StreamInit => Init
    BY DEF StreamInit
  <1>2. StreamInit => ClientInv /\ ObserverInv /\ CauseInv
    BY <1>1, InitClientInv, InitObserverInv, InitCauseInv
  <1>3. ASSUME ClientInv, ObserverInv, CauseInv, [StreamNext]_<<vars, streamVars>>
        PROVE  ClientInv' /\ ObserverInv' /\ CauseInv'
    <2>1. [Next]_vars
      BY <1>3, StreamStepsAreLoopSteps
    <2>2. ObserverInv' /\ CauseInv'
      BY <1>3, <2>1, ObserverInvInductive, CauseInvInductive
    <2> QED
      BY <1>3, <2>2, ClientInvInductive
  <1> QED
    BY <1>2, <1>3, PTL DEF StreamSpec

-----------------------------------------------------------------------------
(* The theorems. *)

(* Watching a loop does not change it: what is proved of the loop holds of *)
(* a loop that is streamed.                                                *)
THEOREM StreamImplementsLoop == StreamSpec => Spec
  <1>1. StreamInit => Init
    BY DEF StreamInit
  <1> QED
    BY <1>1, StreamStepsAreLoopSteps, PTL DEF StreamSpec, Spec

(* A client is shown every turn the loop adds to the conversation, once    *)
(* and in order, however many iterations there are.                        *)
THEOREM EveryTurnIsStreamedOnce == StreamSpec => []StreamsEveryNewTurnOnce
  <1>1. ClientInv => StreamsEveryNewTurnOnce
    BY DEF ClientInv
  <1> QED
    BY <1>1, ClientInvariant, PTL

(* The cause shown last is the one the state holds: checking and           *)
(* explaining do not revise what was shown.                                *)
THEOREM ShownCauseIsFrozen == StreamSpec => []ShownCauseIsTheFrozenCause
  <1>1. ClientInv => ShownCauseIsTheFrozenCause
    BY DEF ClientInv
  <1> QED
    BY <1>1, ClientInvariant, PTL

(* In the first iteration the checker of the state is shown, before the    *)
(* explanation that refers to it.                                          *)
THEOREM FirstCheckerIsAlwaysShown == StreamSpec => []FirstCheckerIsShown
  <1>1. ClientInv => FirstCheckerIsShown
    BY DEF ClientInv
  <1> QED
    BY <1>1, ClientInvariant, PTL

(* A set of positions that is not empty has a last one. *)
LEMMA LastPosition ==
    ASSUME NEW n \in Nat, NEW S \in SUBSET (1..n), S # {}
    PROVE  \E i \in S : \A j \in S : j <= i
  <1> DEFINE F == {n - i : i \in S}
  <1>1. F \in SUBSET Nat /\ F # {}
    <2>1. \A i \in S : n - i \in Nat
      OBVIOUS
    <2>2. PICK i \in S : TRUE
      OBVIOUS
    <2> QED
      BY <2>1, <2>2
  <1>2. Min(F) \in F /\ \A k \in F : Min(F) <= k
    BY <1>1, MinIsSmallest
  <1>3. PICK i \in S : Min(F) = n - i
    BY <1>2
  <1>4. \A j \in S : n - i <= n - j
    BY <1>2, <1>3
  <1> QED
    BY <1>4

(* The index of the last do step is its place in the traces. *)
LEMMA LastDoStepIsThere ==
    ASSUME Typed, StepTracesFollowTheGraph, DoIsThere,
           node \in {"check", "explain", "end"}
    PROVE  /\ step_traces[LastDoStepIndex + 1].step_kind = "do"
           /\ \A i \in LastDoStepIndex + 2 .. Len(step_traces) :
                 step_traces[i].step_kind # "do"
  <1> DEFINE does == {i \in DOMAIN step_traces : step_traces[i].step_kind = "do"}
             last == CHOOSE i \in does : \A j \in does : j <= i
             n == Len(step_traces)
  <1>1. step_traces \in Seq(StepTrace) /\ n \in Nat /\ DOMAIN step_traces = 1..n
    BY DEF Typed, TypeOK
  <1>2. does \in SUBSET (1..n) /\ does # {}
    BY <1>1 DEF DoIsThere
  <1>3. \A i \in 1..n : i \in does <=> step_traces[i].step_kind = "do"
    BY <1>1
  <1>4. LastDoStepIndex = step_traces[last].step_index
    BY DEF LastDoStepIndex
  <1> HIDE DEF does
  <1>5. last \in does /\ \A j \in does : j <= last
    <2>1. \E i \in does : \A j \in does : j <= i
      BY <1>1, <1>2, LastPosition
    <2> QED
      BY <2>1
  <1> HIDE DEF last, n
  <1>6. LastDoStepIndex = last - 1 /\ last \in 1..n
    BY <1>1, <1>2, <1>4, <1>5 DEF StepTracesFollowTheGraph
  <1>7. \A i \in (last + 1)..n : i \in 1..n /\ i \notin does
    BY <1>1, <1>5, <1>6
  <1> QED
    BY <1>1, <1>3, <1>5, <1>6, <1>7 DEF n

(* A completed run published the last text of its stream, and the step it  *)
(* came from; a contract that is supported always has one.                 *)
THEOREM CompletedRunPublishes == StreamSpec => []CompletedRunPublishesItsLastText
  <1>1. ClientInv /\ ObserverInv /\ CauseInv => CompletedRunPublishesItsLastText
    <2> SUFFICES ASSUME ClientInv, ObserverInv, CauseInv, node = "end"
                 PROVE  CompletedRunPublishesItsLastText
      BY DEF CompletedRunPublishesItsLastText
    <2>1. /\ StreamTyped /\ TextOfTheIteration /\ DoIsThere /\ EndOfTheStream
          /\ StreamsEveryNewTurnOnce
      BY DEF ClientInv
    <2>2. stream_status # "raised"
      BY <2>1 DEF EndOfTheStream
    <2>3. ASSUME stream_status = "completed", "generated" \in artifacts
          PROVE  /\ ShownLast(Stream!Text(generated.turn))
                 /\ generated.turn = Len(messages)
                 /\ step_traces[generated.step_index + 1].step_kind = "do"
                 /\ \A i \in generated.step_index + 2 .. Len(step_traces) :
                       step_traces[i].step_kind # "do"
      <3>1. /\ SupportedPromptContract
            /\ generated.turn = bad_response
            /\ generated.step_index = LastDoStepIndex
        BY <2>1, <2>3 DEF EndOfTheStream
      <3>2. bad_response = Len(messages) /\ run.initial_turns < Len(messages)
        BY <2>1, <3>1, SupportedHasAText DEF TextOfTheIteration
      <3>3. /\ step_traces[LastDoStepIndex + 1].step_kind = "do"
            /\ \A i \in LastDoStepIndex + 2 .. Len(step_traces) :
                  step_traces[i].step_kind # "do"
        BY <2>1, LastDoStepIsThere DEF ObserverInv, PolicyInv
      <3> DEFINE last == Len(messages)
      <3>4. /\ last \in Nat /\ run.initial_turns \in Nat
            /\ last \in run.initial_turns + 1 .. last
        BY <3>2 DEF CauseInv, Typed, TypeOK, RunInputs
      <3>5. /\ {stream.events[i].turn : i \in Shown("text")} =
                  run.initial_turns + 1 .. last
            /\ \A i, j \in Shown("text") :
                  i < j => stream.events[i].turn < stream.events[j].turn
        BY <2>1 DEF StreamsEveryNewTurnOnce
      <3> HIDE DEF last
      <3>6. PICK i \in Shown("text") : stream.events[i].turn = last
        BY <3>4, <3>5
      <3>7. /\ DOMAIN stream.events \subseteq Nat
            /\ i \in DOMAIN stream.events /\ stream.events[i].kind = "text"
            /\ stream.events[i] \in Events
            /\ Shown("text") \subseteq DOMAIN stream.events
        BY <2>1 DEF StreamTyped, StreamRecord, Stream!StreamOf, Shown, Stream!Places
      <3>8. stream.events[i] = Stream!Text(last)
        BY <3>6, <3>7 DEF Events, Causes, Checkers, Stream!Text
      <3>9. \A j \in Shown("text") : j <= i
        <4>1. \A j \in Shown("text") : stream.events[j].turn \in
                 run.initial_turns + 1 .. last
          BY <3>5
        <4>2. \A j \in Shown("text") : ~(i < j)
          BY <3>4, <3>5, <3>6, <4>1
        <4> QED
          BY <3>7, <4>2
      <3>10. ShownLast(Stream!Text(last))
        <4>1. Stream!Text(last).kind = "text"
          BY DEF Stream!Text
        <4> QED
          BY <3>8, <3>9, <4>1 DEF ShownLast, Stream!IsTheLast, Shown
      <3>11. generated.turn = last
        BY <3>1, <3>2 DEF last
      <3> QED
        BY <3>1, <3>3, <3>10, <3>11 DEF last
    <2>4. stream_status = "completed" /\ "generated" \notin artifacts =>
             ~SupportedPromptContract
      BY <2>1 DEF EndOfTheStream
    <2> QED
      BY <2>2, <2>3, <2>4 DEF CompletedRunPublishesItsLastText
  <1> QED
    BY <1>1, ClientInvariant, PTL
=============================================================================
