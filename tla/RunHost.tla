------------------------------- MODULE RunHost -------------------------------
(***************************************************************************)
(* The AG-UI host (agui_host.py): for each POST /agui a generator feeds an *)
(* event stream, and an in-memory registry answers GET /api/runs/{run_id}. *)
(* The generator starts only when the response is first read.  It is       *)
(* suspended at a yield while a chunk is being sent, and awaits the graph  *)
(* in between.  A client may go away at any time.  The server then cancels *)
(* the task wherever it is suspended: inside the generator the handler     *)
(* sees the cancellation, at a yield it only sees the generator closed.    *)
(***************************************************************************)
EXTENDS HostRequest

CONSTANTS
    Runs,           \* the runs that may be requested
    WireCapacity    \* bound: chunks in flight before a send has to wait

ASSUME WireCapacityAssumption == WireCapacity \in Nat \ {0}

VARIABLES
    registry,   \* RunRegistry._records
    server,     \* where the handler of each run is
    pending,    \* encoded chunks the generator has yet to yield
    progress,   \* how many events of its script the runner has yielded
    wire,       \* chunks on their way to the client
    connected   \* is the client still there

hostVars == <<registry, server, pending, progress, wire, connected>>

-----------------------------------------------------------------------------
(* What a run sends.                                                       *)

(* The order in which a fixed scenario shows its stages, and after how     *)
(* many of them it may be over: nothing to show, a safe response, a check, *)
(* an explanation.                                                         *)
RunnerScript == <<"phase_plan", "phase_do", "text", "cause", "phase_check",
                  "checker", "phase_explain", "explain">>
RunnerEndings == {1, 4, 6, 8}

(* _encode_runner_event: a text becomes three chunks. *)
Encode(event) ==
    IF event = "text" THEN <<"text_start", "text_content", "text_end">> ELSE <<event>>

CompletedChunks == <<"run_completed", "RUN_FINISHED">>

Chunks == {"RUN_STARTED", "run_started", "phase_plan", "phase_do", "text_start",
           "text_content", "text_end", "cause", "phase_check", "checker",
           "phase_explain", "explain", "run_completed", "RUN_FINISHED", "RUN_ERROR"}

-----------------------------------------------------------------------------
(* RunRegistry *)

Record == [status : {"in_progress", "completed", "failed", "cancelled"},
           has_result : BOOLEAN,
           safe_error_code : {"none", "run_failed", "stream_cancelled"}]

NotFound == [status |-> "not_found", has_result |-> FALSE, safe_error_code |-> "none"]

RegisterStart(r) ==
    registry' = [registry EXCEPT
        ![r] = [status |-> "in_progress", has_result |-> FALSE,
                safe_error_code |-> "none"]]

RegisterComplete(r) ==
    registry' = [registry EXCEPT
        ![r] = [status |-> "completed", has_result |-> TRUE,
                safe_error_code |-> "none"]]

(* Variant: the code takes the place of the status. *)
RegisterFailureCode(r, status, code) ==
    registry' = [registry EXCEPT ![r].status = code]

(* fail: any status is overwritten, an earlier result is kept, an unknown  *)
(* run is left unknown.                                                    *)
RegisterFailure(r, status, code) ==
    registry' = IF registry[r] = NotFound THEN registry
                ELSE [registry EXCEPT ![r].status = status,
                                      ![r].safe_error_code = code]

-----------------------------------------------------------------------------
(* "absent": not requested; "requested": on its way; "accepted": response  *)
(* returned, generator not started; "running": the generator awaits the    *)
(* graph; "yielding": it is suspended at a yield and will go on;           *)
(* "draining": it is suspended and will end; "over": it has ended.         *)
ServerStates == {"absent", "requested", "accepted", "running", "yielding",
                 "draining", "over"}

HostInit ==
    /\ registry = [r \in Runs |-> NotFound]
    /\ server = [r \in Runs |-> "absent"]
    /\ pending = [r \in Runs |-> <<>>]
    /\ progress = [r \in Runs |-> 0]
    /\ wire = [r \in Runs |-> <<>>]
    /\ connected = [r \in Runs |-> FALSE]

Suspend(r, state, chunks) ==
    /\ server' = [server EXCEPT ![r] = state]
    /\ pending' = [pending EXCEPT ![r] = chunks]

(* The body that was posted; a refused one is never read again. *)
Accept(r) ==
    /\ server[r] = "requested"
    /\ \E body \in Bodies : Acceptable(body)
    /\ server' = [server EXCEPT ![r] = "accepted"]
    /\ UNCHANGED <<registry, pending, progress, wire, connected>>

(* _safe_error_response: an invalid request or an unknown scenario gets a  *)
(* stream of its own and never a record.                                   *)
Reject(r) ==
    /\ server[r] = "requested"
    /\ \E body \in Bodies : ~Acceptable(body)
    /\ Suspend(r, "draining", <<"RUN_STARTED", "RUN_ERROR">>)
    /\ UNCHANGED <<registry, progress, wire, connected>>

(* event_generator, up to its first yield *)
StartGenerator(r) ==
    /\ server[r] = "accepted"
    /\ RegisterStart(r)
    /\ Suspend(r, "yielding", <<"RUN_STARTED", "run_started">>)
    /\ UNCHANGED <<progress, wire, connected>>

(* A chunk is sent, or dropped if nobody is there; the generator goes on   *)
(* after the last one.                                                     *)
SendChunk(r) ==
    /\ server[r] \in {"yielding", "draining"}
    /\ pending[r] # <<>>
    /\ connected[r] => Len(wire[r]) < WireCapacity
    /\ wire' = IF connected[r]
               THEN [wire EXCEPT ![r] = Append(@, Head(pending[r]))] ELSE wire
    /\ pending' = [pending EXCEPT ![r] = Tail(@)]
    /\ server' = [server EXCEPT ![r] =
          IF Len(pending[r]) > 1 THEN @
          ELSE IF @ = "yielding" THEN "running" ELSE "over"]
    /\ UNCHANGED <<registry, progress, connected>>

RunnerYields(r) ==
    /\ server[r] = "running"
    /\ progress[r] < Len(RunnerScript)
    /\ progress' = [progress EXCEPT ![r] = @ + 1]
    /\ Suspend(r, "yielding", Encode(RunnerScript[progress[r] + 1]))
    /\ UNCHANGED <<registry, wire, connected>>

(* Variant: the run is reported but not recorded. *)
RunnerCompletesUnrecorded(r) ==
    /\ server[r] = "running"
    /\ progress[r] \in RunnerEndings
    /\ Suspend(r, "draining", CompletedChunks)
    /\ UNCHANGED <<registry, progress, wire, connected>>

(* Variant: the runner is asked again after it has completed. *)
RunnerCompletesAndGoesOn(r) ==
    /\ server[r] = "running"
    /\ progress[r] \in RunnerEndings
    /\ RegisterComplete(r)
    /\ Suspend(r, "yielding", CompletedChunks)
    /\ UNCHANGED <<progress, wire, connected>>

(* The record is complete before the first completed chunk is yielded.     *)
RunnerCompletes(r) ==
    /\ server[r] = "running"
    /\ progress[r] \in RunnerEndings
    /\ RegisterComplete(r)
    /\ Suspend(r, "draining", CompletedChunks)
    /\ UNCHANGED <<progress, wire, connected>>

(* except Exception *)
RunnerRaises(r) ==
    /\ server[r] = "running"
    /\ RegisterFailure(r, "failed", "run_failed")
    /\ Suspend(r, "draining", <<"RUN_ERROR">>)
    /\ UNCHANGED <<progress, wire, connected>>

(* except asyncio.CancelledError: the task is cancelled while the          *)
(* generator awaits the graph.                                             *)
CancelledInGenerator(r) ==
    /\ ~connected[r]
    /\ server[r] = "running"
    /\ RegisterFailure(r, "cancelled", "stream_cancelled")
    /\ server' = [server EXCEPT ![r] = "over"]
    /\ UNCHANGED <<pending, progress, wire, connected>>

(* Variant: whatever ends the generator early is recorded. *)
ClosedAtAYieldIsRecorded(r) ==
    /\ ~connected[r]
    /\ server[r] \in {"accepted", "yielding", "draining"}
    /\ RegisterFailure(r, "cancelled", "stream_cancelled")
    /\ Suspend(r, "over", <<>>)
    /\ UNCHANGED <<progress, wire, connected>>

(* The task is cancelled while a chunk is being sent, or before the first: *)
(* the generator is closed at its yield, or never started, and no clause   *)
(* of it runs.  A started run stays in_progress.                           *)
ClosedAtAYield(r) ==
    /\ ~connected[r]
    /\ server[r] \in {"accepted", "yielding", "draining"}
    /\ Suspend(r, "over", <<>>)
    /\ UNCHANGED <<registry, progress, wire, connected>>

ServerStep(r) ==
    \/ Accept(r) \/ Reject(r) \/ StartGenerator(r) \/ SendChunk(r)
    \/ RunnerYields(r) \/ RunnerCompletes(r) \/ RunnerRaises(r)
    \/ CancelledInGenerator(r) \/ ClosedAtAYield(r)

-----------------------------------------------------------------------------
(* Any client: it asks, it reads, it goes away.                            *)

Post(r) ==
    /\ server[r] = "absent"
    /\ server' = [server EXCEPT ![r] = "requested"]
    /\ connected' = [connected EXCEPT ![r] = TRUE]
    /\ UNCHANGED <<registry, pending, progress, wire>>

Read(r) ==
    /\ connected[r]
    /\ wire[r] # <<>>
    /\ wire' = [wire EXCEPT ![r] = Tail(@)]
    /\ UNCHANGED <<registry, server, pending, progress, connected>>

GoAway(r) ==
    /\ connected[r]
    /\ connected' = [connected EXCEPT ![r] = FALSE]
    /\ wire' = [wire EXCEPT ![r] = <<>>]
    /\ UNCHANGED <<registry, server, pending, progress>>

HostNext == \E r \in Runs : ServerStep(r) \/ Post(r) \/ Read(r) \/ GoAway(r)

HostSpec == HostInit /\ [][HostNext]_hostVars

-----------------------------------------------------------------------------
(* Properties *)

(* The type of the host's state; only an accepted and started run has a    *)
(* record, and only a completed one has a result.                          *)
HostTypeOK ==
    /\ registry \in [Runs -> Record \cup {NotFound}]
    /\ server \in [Runs -> ServerStates]
    /\ pending \in [Runs -> Seq(Chunks)]
    /\ progress \in [Runs -> 0..Len(RunnerScript)]
    /\ wire \in [Runs -> Seq(Chunks)]
    /\ connected \in [Runs -> BOOLEAN]
    /\ \A r \in Runs :
          /\ server[r] \in {"absent", "requested", "accepted"} => registry[r] = NotFound
          /\ registry[r].has_result => registry[r].status = "completed"

(* A client that was told the run is completed finds it completed: the     *)
(* record is there before the chunk leaves the generator, and whatever     *)
(* happens to the connection afterwards does not take it back.             *)
CompletionIsRecordedBeforeItIsSent ==
    \A r \in Runs :
        (\E i \in DOMAIN wire[r] : wire[r][i] \in {"run_completed", "RUN_FINISHED"})
        => registry[r].status = "completed"

(* A stream ends once: what follows on the wire or waits to be sent after  *)
(* the end of a run is nothing, and a run that ended with an error never   *)
(* also finishes.                                                          *)
NothingFollowsTheEnd ==
    \A r \in Runs :
        LET ahead == wire[r] \o pending[r]
        IN  \A i \in DOMAIN ahead :
               ahead[i] \in {"RUN_FINISHED", "RUN_ERROR"} =>
                   /\ i = Len(ahead)
                   /\ server[r] \in {"draining", "over"}

(* fail() overwrites any status; still every record is settled at most     *)
(* once, whatever the order of completion, exception and cancellation.     *)
Lifecycle == INSTANCE RunLifecycle WITH
                status <- [r \in Runs |-> registry[r].status]

ImplementsRunLifecycle == Lifecycle!LifecycleSpec
=============================================================================
