------------------------------ MODULE Workspace ------------------------------
(***************************************************************************)
(* The browser workspace against the host: selecting a conversation aborts *)
(* the stream of the one before, starts another and asks for its record at *)
(* the end.  Several coordinators may be unfinished at a time (runCoordi-  *)
(* nator.ts); all dispatch to the one reducer (runMachine.ts) through a    *)
(* guard that lets the current observation through only (App.tsx).         *)
(*                                                                         *)
(* An observation, its thread and the run the host gives it are one member *)
(* of Runs; a projection is the run it was made of.                        *)
(***************************************************************************)
EXTENDS RunHost

CONSTANT NoRun      \* null

ASSUME NoRunAssumption == NoRun \notin Runs

VARIABLES
    screen,         \* RunMachineState
    current,        \* abortRef: whose AbortController it holds
    coordinator,    \* runWorkspaceStream of each observation
    scenarios       \* the list of conversations: "loading", "listed" or "missing"

clientVars == <<screen, current, coordinator, scenarios>>
workspaceVars == <<hostVars, clientVars>>

-----------------------------------------------------------------------------
(* The reducer.                                                            *)

TimelinePhases == {"plan", "do", "check", "explain", "completed"}

Screen == [status : {"idle", "running", "completed", "failed", "cancelled"},
           thread : Runs \cup {NoRun},
           server_run : Runs \cup {NoRun},
           phase : TimelinePhases \cup {"none"},
           seen_phases : SUBSET TimelinePhases,
           active_text : Runs \cup {NoRun},
           candidate : Runs \cup {NoRun},
           cause : Runs \cup {NoRun},
           checker : Runs \cup {NoRun},
           explain : Runs \cup {NoRun},
           completed : Runs \cup {NoRun},
           safe_error : {"none", "server_error", "client_stream_failed",
                         "run_failed", "stream_cancelled"}]

(* reset and startRun: nothing of an earlier observation is kept. *)
BlankScreen(status, o) ==
    [status |-> status, thread |-> o, server_run |-> NoRun,
     phase |-> "none", seen_phases |-> {},
     active_text |-> NoRun, candidate |-> NoRun,
     cause |-> NoRun, checker |-> NoRun, explain |-> NoRun,
     completed |-> NoRun, safe_error |-> "none"]

Failed(s, status, code) ==
    [s EXCEPT !.status = status, !.active_text = NoRun, !.safe_error = code]

PhaseOf == [phase_plan |-> "plan", phase_do |-> "do",
            phase_check |-> "check", phase_explain |-> "explain"]

AtPhase(s, phase) ==
    [s EXCEPT !.phase = phase, !.seen_phases = @ \cup {phase}]

(* Variant: an error of the run is noted but does not end it. *)
RunErrorNoted(s) == [s EXCEPT !.safe_error = "server_error"]

(* "server_error" is any code a RUN_ERROR carries. *)
RunError(s) == Failed(s, "failed", "server_error")

(* applyAguiEvent and applyCustomEvent *)
Apply(s, o, chunk) ==
    CASE chunk \in {"RUN_STARTED", "run_started"} ->
            [s EXCEPT !.status = "running", !.thread = o, !.server_run = o]
      [] chunk \in DOMAIN PhaseOf -> AtPhase(s, PhaseOf[chunk])
      [] chunk = "text_start" -> [s EXCEPT !.active_text = o, !.candidate = NoRun]
      [] chunk = "text_content" -> [s EXCEPT !.candidate = IF s.active_text = o THEN o ELSE @]
      [] chunk = "text_end" -> [s EXCEPT !.active_text = IF @ = o THEN NoRun ELSE @]
      [] chunk \in {"cause", "checker", "explain"} -> [s EXCEPT ![chunk] = o]
      [] chunk = "run_completed" ->
            [AtPhase(s, "completed") EXCEPT !.status = "completed",
                                            !.server_run = o, !.completed = o]
      [] chunk = "RUN_FINISHED" -> [s EXCEPT !.server_run = o]
      [] chunk = "RUN_ERROR" -> RunError(s)

(* reconcileRunProjection, for the record of run r. *)
ReconcileRun(s, r) ==
    IF s.server_run # r THEN s
    ELSE [s EXCEPT
            !.status = registry[r].status,
            !.completed = IF registry[r].has_result THEN r ELSE @,
            !.safe_error = IF registry[r].status \in {"failed", "cancelled"}
                           THEN registry[r].safe_error_code ELSE @]

-----------------------------------------------------------------------------
(* The coordinators.                                                       *)

(* "aborted": its signal fired, the rejection is not handled yet. *)
Coordinator == [stage : {"idle", "streaming", "aborted", "reconciling", "done"},
                latest_server_run : Runs \cup {NoRun},
                received_run_error : BOOLEAN]

CoordinatorAt(stage) ==
    [stage |-> stage, latest_server_run |-> NoRun, received_run_error |-> FALSE]

WorkspaceInit ==
    /\ HostInit
    /\ screen = BlankScreen("idle", NoRun)
    /\ current = NoRun
    /\ coordinator = [o \in Runs |-> CoordinatorAt("idle")]
    /\ scenarios = "loading"

(* Variant: every observation reaches the reducer. *)
DispatchUnguarded(o, next) == screen' = next

(* observeConversation's dispatch. *)
Dispatch(o, next) == screen' = IF current = o THEN next ELSE screen

(* The coordinator returns and observeConversation's finally clause runs.  *)
Return(o) ==
    /\ coordinator' = [coordinator EXCEPT ![o].stage = "done"]
    /\ current' = IF current = o THEN NoRun ELSE current

(* Variant: a failure of the client hides the one of the server. *)
ClientFailureAnyway(o) == Failed(screen, "failed", "client_stream_failed")

ClientFailure(o) ==
    IF coordinator[o].received_run_error THEN screen
    ELSE Failed(screen, "failed", "client_stream_failed")

-----------------------------------------------------------------------------
(* fetchScenarios: the list arrives and one of it is selected; or it is    *)
(* empty, or cannot be loaded, and nobody asks for it again.               *)
ScenariosArrive ==
    /\ scenarios = "loading"
    /\ scenarios' = "listed"
    /\ UNCHANGED <<hostVars, screen, current, coordinator>>

ScenariosMissing ==
    /\ scenarios = "loading"
    /\ scenarios' = "missing"
    /\ UNCHANGED <<hostVars, screen, current, coordinator>>

(* observeConversation: the stream of the observation before is aborted,   *)
(* which has no effect when that one already waits for its record.         *)
Observe(o) ==
    /\ scenarios = "listed"
    /\ server[o] = "absent"
    /\ server' = [server EXCEPT ![o] = "requested"]
    /\ connected' = [x \in Runs |-> x = o \/ (connected[x] /\ x # current)]
    /\ wire' = [x \in Runs |-> IF x = current THEN <<>> ELSE wire[x]]
    /\ coordinator' = [x \in Runs |->
          IF x = o THEN CoordinatorAt("streaming")
          ELSE IF x = current /\ coordinator[x].stage = "streaming"
          THEN [coordinator[x] EXCEPT !.stage = "aborted"]
          ELSE coordinator[x]]
    /\ current' = o
    /\ screen' = BlankScreen("running", o)
    /\ UNCHANGED <<registry, pending, progress, scenarios>>

(* The effect of the selection that is made when the list arrives. *)
ObserveTheDefault == screen.status = "idle" /\ \E o \in Runs : Observe(o)

(* onEvent *)
StreamEvent(o) ==
    /\ coordinator[o].stage = "streaming"
    /\ Read(o)
    /\ LET chunk == Head(wire[o])
       IN  /\ coordinator' = [coordinator EXCEPT
                 ![o].latest_server_run =
                     IF chunk \in {"RUN_STARTED", "run_started", "run_completed",
                                   "RUN_FINISHED"} THEN o ELSE @,
                 ![o].received_run_error = @ \/ chunk = "RUN_ERROR"]
           /\ Dispatch(o, Apply(screen, o, chunk))
    /\ UNCHANGED <<current, scenarios>>

(* The stream completes: the record is fetched, unless the server has      *)
(* reported an error.                                                      *)
StreamEnds(o) ==
    /\ coordinator[o].stage = "streaming"
    /\ server[o] = "over"
    /\ wire[o] = <<>>
    /\ connected' = [connected EXCEPT ![o] = FALSE]
    /\ IF coordinator[o].received_run_error \/ coordinator[o].latest_server_run = NoRun
       THEN Return(o)
       ELSE /\ coordinator' = [coordinator EXCEPT ![o].stage = "reconciling"]
            /\ UNCHANGED current
    /\ UNCHANGED <<registry, server, pending, progress, wire, screen, scenarios>>

(* The connection breaks; what was on its way is lost. *)
StreamFails(o) ==
    /\ coordinator[o].stage = "streaming"
    /\ GoAway(o)
    /\ Dispatch(o, ClientFailure(o))
    /\ Return(o)
    /\ UNCHANGED scenarios

Reconcile(o) ==
    /\ coordinator[o].stage = "reconciling"
    /\ Dispatch(o, ReconcileRun(screen, coordinator[o].latest_server_run))
    /\ Return(o)
    /\ UNCHANGED <<hostVars, scenarios>>

(* The record cannot be fetched. *)
ReconcileFails(o) ==
    /\ coordinator[o].stage = "reconciling"
    /\ Dispatch(o, ClientFailure(o))
    /\ Return(o)
    /\ UNCHANGED <<hostVars, scenarios>>

(* AbortError is caught. *)
AbortHandled(o) ==
    /\ coordinator[o].stage = "aborted"
    /\ Dispatch(o, Failed(screen, "cancelled", "stream_cancelled"))
    /\ Return(o)
    /\ UNCHANGED <<hostVars, scenarios>>

ServerSide(o) == ServerStep(o) /\ UNCHANGED clientVars

WorkspaceNext ==
    \/ ScenariosArrive \/ ScenariosMissing
    \/ \E o \in Runs :
          \/ ServerSide(o)
          \/ Observe(o) \/ StreamEvent(o) \/ StreamEnds(o) \/ StreamFails(o)
          \/ Reconcile(o) \/ ReconcileFails(o) \/ AbortHandled(o)

WorkspaceSpec == WorkspaceInit /\ [][WorkspaceNext]_workspaceVars

(* The graph of a mocked run ends, the server and the browser keep         *)
(* handling what arrives, and a fetch is answered or fails.  Nobody has to *)
(* select another conversation, and no connection has to break.            *)
FairWorkspaceSpec ==
    /\ WorkspaceSpec
    /\ WF_workspaceVars(ScenariosArrive \/ ScenariosMissing)
    /\ WF_workspaceVars(ObserveTheDefault)
    /\ \A o \in Runs :
          /\ WF_workspaceVars(ServerSide(o))
          /\ WF_workspaceVars(StreamEvent(o))
          /\ WF_workspaceVars(StreamEnds(o))
          /\ WF_workspaceVars(Reconcile(o) \/ ReconcileFails(o))

-----------------------------------------------------------------------------
(* Properties *)

(* The type of the workspace.  The host's "in_progress" is no status of    *)
(* the screen (types.ts, RunStatus): a record is only fetched once it is   *)
(* settled.                                                                *)
WorkspaceTypeOK ==
    /\ screen \in Screen
    /\ current \in Runs \cup {NoRun}
    /\ coordinator \in [Runs -> Coordinator]
    /\ scenarios \in {"loading", "listed", "missing"}
    /\ scenarios # "listed" => screen.status = "idle"

(* The screen is of one observation, the current one if there is one:      *)
(* nothing an aborted stream or a late record brings is ever mixed into    *)
(* it, and the abort of the observation before never shows as its own.     *)
ScreenShowsOneObservation ==
    /\ current # NoRun => screen.thread = current
    /\ \A field \in {"server_run", "active_text", "candidate", "cause", "checker",
                     "explain", "completed"} : screen[field] \in {NoRun, screen.thread}
    /\ screen.status # "cancelled"

(* What the screen reports as the end of a run is what the host has on     *)
(* record: completed only if the record is, a server's error only if the   *)
(* run failed or was never accepted.  A completed projection outlives a    *)
(* failed lookup.                                                          *)
SettledScreenAgreesWithTheHost ==
    /\ screen.completed # NoRun => registry[screen.completed].status = "completed"
    /\ screen.status = "completed" => screen.completed = screen.thread
    /\ screen.safe_error = "server_error" =>
          registry[screen.thread] = NotFound \/ registry[screen.thread].status = "failed"

(* A failure shown stays as it is until another conversation is selected:  *)
(* the end of the stream after a RUN_ERROR, a broken connection or a late  *)
(* record neither hides it nor replaces its code.                          *)
FailureIsFinal ==
    [][screen.status = "failed" =>
          screen' = screen \/ screen'.thread # screen.thread]_workspaceVars

(* Unless the list of conversations is missing, an observation begins by   *)
(* itself, and one that is not given up settles: the header leaves         *)
(* "Loading observation" whatever the server and the network do.           *)
ObservationSettles ==
    /\ scenarios = "loading" ~> scenarios = "missing" \/ screen.status # "idle"
    /\ \A o \in Runs :
          (screen.thread = o /\ screen.status = "running")
              ~> (screen.thread # o \/ screen.status \in {"completed", "failed"})
=============================================================================
