----------------------------- MODULE FixedStream -----------------------------
(***************************************************************************)
(* The event stream of a fixed scenario (_stream_fixed_scenario_graph of   *)
(* execution.py): the graph of FixedScenarioGraph and, after each node,    *)
(* the projection of the state it produced.                                *)
(***************************************************************************)
EXTENDS FixedScenarioGraph

Stream == INSTANCE StreamProjection

VARIABLES
    stream,         \* what the client has been shown
    stream_status   \* "open", "completed" or "raised"

FixedStreamInit ==
    /\ FixedInit
    /\ stream = Stream!NewStream
    /\ stream_status = "open"

-----------------------------------------------------------------------------
(* emitted_response_text: at most one of the two responses is there.       *)
EmittedResponse == IF bad_response # NoTurn THEN bad_response ELSE safe_response

ShownCause ==
    Stream!Cause(misreader_skill_fired, authority_cause_record, authority_provenance)

ShownChecker == Stream!Checker(checker_observation, substituted)

View ==
    [response |-> EmittedResponse,
     cause |-> ShownCause,
     checker |-> ShownChecker,
     observation_outcome |-> observation_outcome,
     self_explanation |-> self_explanation]

LatestTrace == step_traces[Len(step_traces)]

(* Variant: the new step is shown with the state from before it. *)
ProjectTheStateBefore ==
    Stream!ProjectStateProgress(stream, LatestTrace', View)

ProjectTheNewState ==
    Stream!ProjectStateProgress(stream, LatestTrace', View')

(* A node and the events of the state it produced.                         *)
AdvanceFixed ==
    /\ stream_status = "open"
    /\ FixedStep
    /\ node' # "failed"
    /\ stream' = ProjectTheNewState
    /\ UNCHANGED stream_status

RaiseFixed ==
    /\ stream_status = "open"
    /\ FixedStep
    /\ node' = "failed"
    /\ stream_status' = "raised"
    /\ UNCHANGED stream

FinishFixed ==
    /\ stream_status = "open"
    /\ node = "end"
    /\ stream_status' = "completed"
    /\ stream' = [stream EXCEPT !.events =
                     Append(@, Stream!Completed(observation_outcome, artifacts))]
    /\ UNCHANGED fixedVars

FixedDrained ==
    /\ stream_status # "open"
    /\ UNCHANGED <<fixedVars, stream, stream_status>>

FixedStreamNext == AdvanceFixed \/ RaiseFixed \/ FinishFixed \/ FixedDrained

FixedStreamSpec ==
    FixedStreamInit /\ [][FixedStreamNext]_<<fixedVars, stream, stream_status>>

-----------------------------------------------------------------------------
(* Properties *)

(* A completed run has shown each of its stages exactly once, although the *)
(* graph goes on producing states long after the last step trace, and      *)
(* although two of its nodes record a check: the response it emitted, its  *)
(* cause, the comparison of its checker and its explanation, if any.       *)
EachStageIsShownOnce ==
    stream_status = "completed" =>
        /\ Stream!ShownOnceIf(stream, EmittedResponse # NoTurn,
                              Stream!Text(Len(messages)))
        /\ Stream!ShownOnceIf(stream, EmittedResponse # NoTurn, ShownCause)
        /\ Stream!ShownOnceIf(stream, classification = "in_scope", ShownChecker)
        /\ Stream!ShownOnceIf(stream, self_explanation # "none",
                              Stream!Explanation(self_explanation))

(* The order is causal, whatever has been shown so far: the text, then the *)
(* cause, then what the checker found, then what the agent says about it.  *)
(* And what was shown as the cause stays the cause: no later node revises  *)
(* it.                                                                     *)
StagesAreShownInCausalOrder ==
    /\ Stream!InCausalOrder(stream)
    /\ \A i \in Stream!Places(stream, "cause") : stream.events[i] = ShownCause
=============================================================================
