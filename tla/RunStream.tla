------------------------------ MODULE RunStream ------------------------------
(***************************************************************************)
(* The event stream of a prompt loop (stream_prompt_loop of execution.py): *)
(* the loop of MinimalLoop runs one super-step at a time, and after each   *)
(* the new state is projected to the events a client sees.  When the graph *)
(* ends, the artifacts are written and the run is reported as completed;   *)
(* when a node raises, so does the stream, and nothing else is sent.       *)
(***************************************************************************)
EXTENDS MinimalLoop

(* Named apart: the loop has a Cause of its own. *)
Stream == INSTANCE StreamProjection

VARIABLES
    stream,                 \* what the client has been shown
    artifacts,              \* the files of the run directory
    generated,              \* turn and do step of the generated artifact
    stream_status           \* "open", "completed" or "raised"

streamVars == <<stream, artifacts, generated, stream_status>>

NotGenerated == [turn |-> NoTurn, step_index |-> 0]

(* The contract is written before the graph is asked for its first state.  *)
StreamInit ==
    /\ Init
    /\ run.loop_source = "prompt_contract"
    /\ stream = Stream!NewStream
    /\ artifacts = {"contract"}
    /\ generated = NotGenerated
    /\ stream_status = "open"

-----------------------------------------------------------------------------
ShownCause ==
    Stream!Cause(misreader_skill_fired, authority_cause_record, authority_provenance)

ShownChecker == Stream!Checker(checker_observation, substituted)

(* What the projection reads of a state of the loop; a loop has no safe    *)
(* response, so the text it emits is the bad one.                          *)
View ==
    [response |-> bad_response,
     cause |-> ShownCause,
     checker |-> ShownChecker,
     observation_outcome |-> observation_outcome,
     self_explanation |-> self_explanation]

LatestTrace == step_traces[Len(step_traces)]

(* Variant: the new step is shown with the state from before it. *)
ProjectTheStateBefore ==
    Stream!ProjectStateProgress(stream, LatestTrace', View)

ProjectTheNewState ==
    Stream!ProjectStateProgress(stream, LatestTrace', View')

LoopStep == Plan \/ Do \/ CheckObserves \/ CheckSkipped \/ CheckRaises
            \/ Explain \/ ExplainSkipped

(* A super-step and the events of the state it produced. *)
Advance ==
    /\ stream_status = "open"
    /\ LoopStep
    /\ node' # "failed"
    /\ stream' = ProjectTheNewState
    /\ UNCHANGED <<artifacts, generated, stream_status>>

(* The node's exception leaves the stream. *)
Raise ==
    /\ stream_status = "open"
    /\ LoopStep
    /\ node' = "failed"
    /\ stream_status' = "raised"
    /\ UNCHANGED <<stream, artifacts, generated>>

(* Variant: the index of whatever step came last. *)
LastStepIndex == LatestTrace.step_index

(* _last_do_step_index *)
LastDoStepIndex ==
    LET does == {i \in DOMAIN step_traces : step_traces[i].step_kind = "do"}
        last == CHOOSE i \in does : \A j \in does : j <= i
    IN  step_traces[last].step_index

(* The names _write_prompt_loop_artifacts leaves in the directory. *)
FinalArtifacts ==
    artifacts \cup {"loop_trace"}
              \cup (IF SupportedPromptContract THEN {"generated"} ELSE {})
              \cup (IF self_explanation # "none" THEN {"explanation"} ELSE {})

(* A supported contract without a generated text raises.                   *)
Finish ==
    /\ stream_status = "open"
    /\ node = "end"
    /\ IF SupportedPromptContract /\ bad_response = NoTurn
       THEN stream_status' = "raised" /\ UNCHANGED <<stream, artifacts, generated>>
       ELSE /\ stream_status' = "completed"
            /\ artifacts' = FinalArtifacts
            /\ generated' = IF SupportedPromptContract
                            THEN [turn |-> bad_response,
                                  step_index |-> LastDoStepIndex]
                            ELSE NotGenerated
            /\ stream' = [stream EXCEPT !.events = Append(@,
                             Stream!Completed(observation_outcome, FinalArtifacts))]
    /\ UNCHANGED vars

Drained ==
    /\ stream_status # "open"
    /\ UNCHANGED <<vars, streamVars>>

StreamNext == Advance \/ Raise \/ Finish \/ Drained

StreamSpec == StreamInit /\ [][StreamNext]_<<vars, streamVars>>

-----------------------------------------------------------------------------
(* Properties *)

Shown(kind) == Stream!Places(stream, kind)
ShownLast(e) == Stream!IsTheLast(stream, e)

(* The texts of the stream are the turns the loop added to the             *)
(* conversation: each of them once, in order, and none of the history that *)
(* the run was given.                                                      *)
StreamsEveryNewTurnOnce ==
    LET new == run.initial_turns + 1 .. Len(messages)
    IN  /\ {stream.events[i].turn : i \in Shown("text")} = new
        /\ \A i, j \in Shown("text") :
              i < j => stream.events[i].turn < stream.events[j].turn

(* The cause a client was shown last is the cause the state holds, through *)
(* the check and the explanation that follow it and in every iteration:    *)
(* what was shown before checking is not revised by it (README.md, "what   *)
(* the runtime derived and froze before checking").                        *)
ShownCauseIsTheFrozenCause ==
    node \in {"check", "explain", "end"} => ShownLast(ShownCause)

(* In the first iteration, the only one of a run started by the workspace, *)
(* the checker of the state is shown as soon as it is there, and before    *)
(* any explanation that refers to it.                                      *)
FirstCheckerIsShown ==
    loop_iteration = 1 /\ node \in {"explain", "end"} =>
        /\ Stream!IsTheOnly(stream, ShownChecker)
        /\ \A i \in Shown("checker"), j \in Shown("explain") : i < j

(* A completed run is complete: the generated artifact is the last text of *)
(* the stream, labelled with the last do step, and it is there exactly if  *)
(* the contract is supported.  The exception for a supported contract      *)
(* without a text is never raised.                                         *)
CompletedRunPublishesItsLastText ==
    node = "end" =>
        /\ stream_status # "raised"
        /\ stream_status = "completed" =>
              IF "generated" \in artifacts
              THEN /\ ShownLast(Stream!Text(generated.turn))
                   /\ generated.turn = Len(messages)
                   /\ step_traces[generated.step_index + 1].step_kind = "do"
                   /\ \A i \in generated.step_index + 2 .. Len(step_traces) :
                         step_traces[i].step_kind # "do"
              ELSE ~SupportedPromptContract

(* The stream is a projection of the state (README.md:167): once the state *)
(* of an iteration holds a checker result, the last one a client was shown *)
(* is that one.  False from the second iteration on.                       *)
ShownCheckerIsTheChecker ==
    node \in {"explain", "end"} =>
        ShownLast(ShownChecker)
=============================================================================
