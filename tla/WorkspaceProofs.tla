---------------------------- MODULE WorkspaceProofs ----------------------------
(***************************************************************************)
(* The host and the workspace.  The host settles every record at most once *)
(* and before it reports it, and ends every stream once; the workspace     *)
(* shows one observation and what the host has on record of it, and keeps  *)
(* a failure it has shown; for any number of runs and observations and any *)
(* capacity of the connections.  What is proved of the host still holds of *)
(* the host under the workspace.                                           *)
(***************************************************************************)
EXTENDS Workspace, TLAPS

-----------------------------------------------------------------------------
(* The host: its inductive invariant, part by part. *)

EndChunks == {"run_completed", "RUN_FINISHED"}

(* A generator that has not ended yet has an unsettled record. *)
UnsettledWhileRunning ==
    \A r \in Runs :
        server[r] \in {"running", "yielding"} => registry[r].status = "in_progress"

(* A completed run is announced neither on the wire nor in what waits to   *)
(* be sent before its record is complete.                                  *)
Announces(chunks) == \E i \in DOMAIN chunks : chunks[i] \in EndChunks

AnnouncedOnlyIfRecorded ==
    \A r \in Runs :
        Announces(pending[r]) \/ Announces(wire[r]) => registry[r].status = "completed"

HostInv == HostTypeOK /\ UnsettledWhileRunning /\ AnnouncedOnlyIfRecorded

-----------------------------------------------------------------------------
(* What a sequence announces. *)

(* A queue of chunks stays one when a chunk is added.                      *)
LEMMA AppendChunk ==
    ASSUME NEW s \in Seq(Chunks), NEW c \in Chunks
    PROVE  Append(s, c) \in Seq(Chunks)
  OBVIOUS

(* A longer queue announces what it did, or its new chunk does.            *)
LEMMA AnnouncesAppend ==
    ASSUME NEW s \in Seq(Chunks), NEW c \in Chunks, Announces(Append(s, c))
    PROVE  Announces(s) \/ c \in EndChunks
  <1>1. PICK i \in DOMAIN Append(s, c) : Append(s, c)[i] \in EndChunks
    BY DEF Announces
  <1>2. CASE i = Len(s) + 1
    BY <1>1, <1>2
  <1>3. CASE i # Len(s) + 1
    <2>1. i \in DOMAIN s /\ Append(s, c)[i] = s[i]
      BY <1>1, <1>3
    <2> QED
      BY <1>1, <2>1 DEF Announces
  <1> QED
    BY <1>2, <1>3

(* What the rest of a queue announces, the queue announces.                *)
LEMMA AnnouncesTail ==
    ASSUME NEW s \in Seq(Chunks), s # <<>>, Announces(Tail(s))
    PROVE  Announces(s)
  <1>1. PICK i \in DOMAIN Tail(s) : Tail(s)[i] \in EndChunks
    BY DEF Announces
  <1>2. i + 1 \in DOMAIN s /\ Tail(s)[i] = s[i + 1]
    BY <1>1
  <1> QED
    BY <1>1, <1>2 DEF Announces

(* What the first chunk announces, the queue announces.                    *)
LEMMA AnnouncesHead ==
    ASSUME NEW s \in Seq(Chunks), s # <<>>, Head(s) \in EndChunks
    PROVE  Announces(s)
  <1>1. 1 \in DOMAIN s /\ s[1] = Head(s)
    OBVIOUS
  <1> QED
    BY <1>1 DEF Announces

(* An empty queue announces nothing.                                       *)
LEMMA NothingAnnounced == ~Announces(<<>>)
  BY DEF Announces

(* No event of the runner is encoded as the end of a run.                  *)
LEMMA EncodedEvent ==
    ASSUME NEW i \in 1..Len(RunnerScript)
    PROVE  /\ Encode(RunnerScript[i]) \in Seq(Chunks)
           /\ ~Announces(Encode(RunnerScript[i]))
  <1>1. RunnerScript[i] \in {"phase_plan", "phase_do", "text", "cause", "phase_check",
                             "checker", "phase_explain", "explain"}
    BY DEF RunnerScript
  <1>2. CASE RunnerScript[i] = "text"
    BY <1>2 DEF Encode, Announces, EndChunks, Chunks
  <1>3. CASE RunnerScript[i] # "text"
    BY <1>1, <1>3 DEF Encode, Announces, EndChunks, Chunks
  <1> QED
    BY <1>2, <1>3

-----------------------------------------------------------------------------
(* The host invariant holds before any request.                            *)
LEMMA InitHostInv == HostInit => HostInv
  <1> SUFFICES ASSUME HostInit
               PROVE  HostInv
    OBVIOUS
  <1>1. HostTypeOK
    BY DEF HostInit, HostTypeOK, NotFound, Record, ServerStates, RunnerScript
  <1>2. UnsettledWhileRunning
    BY DEF HostInit, UnsettledWhileRunning
  <1>3. AnnouncedOnlyIfRecorded
    BY NothingAnnounced DEF HostInit, AnnouncedOnlyIfRecorded
  <1> QED
    BY <1>1, <1>2, <1>3 DEF HostInv

(***************************************************************************)
(* Each step changes the entries of one run only, and the invariant speaks *)
(* of each run on its own: it is enough to look at the run that moves.     *)
(***************************************************************************)
RunTypeOK(r) ==
    /\ registry[r] \in Record \cup {NotFound}
    /\ server[r] \in ServerStates
    /\ pending[r] \in Seq(Chunks)
    /\ progress[r] \in 0..Len(RunnerScript)
    /\ wire[r] \in Seq(Chunks)
    /\ connected[r] \in BOOLEAN

RunInv(r) ==
    /\ server[r] \in {"absent", "requested", "accepted"} => registry[r] = NotFound
    /\ registry[r].has_result => registry[r].status = "completed"
    /\ server[r] \in {"running", "yielding"} => registry[r].status = "in_progress"
    /\ Announces(pending[r]) \/ Announces(wire[r]) => registry[r].status = "completed"

(* The host's state is a function of the runs. *)
HostShape ==
    /\ registry = [r \in Runs |-> registry[r]]
    /\ server = [r \in Runs |-> server[r]]
    /\ pending = [r \in Runs |-> pending[r]]
    /\ progress = [r \in Runs |-> progress[r]]
    /\ wire = [r \in Runs |-> wire[r]]
    /\ connected = [r \in Runs |-> connected[r]]

PerRunInv == HostShape /\ \A r \in Runs : RunTypeOK(r) /\ RunInv(r)

(* Nothing of run q changes. *)
Untouched(q) ==
    /\ registry'[q] = registry[q]
    /\ server'[q] = server[q]
    /\ pending'[q] = pending[q]
    /\ progress'[q] = progress[q]
    /\ wire'[q] = wire[q]
    /\ connected'[q] = connected[q]

(* The invariant of the host is the invariant of each of its runs.         *)
LEMMA PerRun == HostInv <=> PerRunInv
  <1>1. HostTypeOK => HostShape /\ \A r \in Runs : RunTypeOK(r)
    BY DEF HostTypeOK, HostShape, RunTypeOK
  <1>2. ASSUME HostShape, \A r \in Runs : RunTypeOK(r) /\ RunInv(r)
        PROVE  HostTypeOK
    <2>1. /\ registry \in [Runs -> Record \cup {NotFound}]
          /\ server \in [Runs -> ServerStates]
          /\ pending \in [Runs -> Seq(Chunks)]
          /\ progress \in [Runs -> 0..Len(RunnerScript)]
          /\ wire \in [Runs -> Seq(Chunks)]
          /\ connected \in [Runs -> BOOLEAN]
      BY <1>2, Zenon DEF HostShape, RunTypeOK
    <2> QED
      BY <1>2, <2>1 DEF HostTypeOK, RunInv
  <1>3. HostInv => \A r \in Runs : RunInv(r)
    BY DEF HostInv, HostTypeOK, UnsettledWhileRunning, AnnouncedOnlyIfRecorded, RunInv
  <1>4. (\A r \in Runs : RunInv(r)) => UnsettledWhileRunning /\ AnnouncedOnlyIfRecorded
    BY DEF UnsettledWhileRunning, AnnouncedOnlyIfRecorded, RunInv
  <1> QED
    BY <1>1, <1>2, <1>3, <1>4 DEF HostInv, PerRunInv

(* A run that is not touched keeps its type and its invariant.             *)
LEMMA UntouchedKeeps ==
    ASSUME NEW q \in Runs, RunTypeOK(q), RunInv(q), Untouched(q)
    PROVE  RunTypeOK(q)' /\ RunInv(q)'
  BY DEF RunTypeOK, RunInv, Untouched, Announces

(* A step of one run touches no other run.                                 *)
LEMMA OnlyOneRunMoves ==
    ASSUME HostShape, NEW r \in Runs, ServerStep(r) \/ Post(r) \/ Read(r) \/ GoAway(r)
    PROVE  HostShape' /\ \A q \in Runs \ {r} : Untouched(q)
  <1> USE DEF HostShape, Untouched
  <1>1. CASE Accept(r)
    BY <1>1 DEF Accept
  <1>2. CASE Reject(r)
    BY <1>2 DEF Reject, Suspend
  <1>3. CASE StartGenerator(r)
    BY <1>3 DEF StartGenerator, Suspend, RegisterStart
  <1>4. CASE SendChunk(r)
    BY <1>4 DEF SendChunk
  <1>5. CASE RunnerYields(r)
    BY <1>5 DEF RunnerYields, Suspend
  <1>6. CASE RunnerCompletes(r)
    BY <1>6 DEF RunnerCompletes, Suspend, RegisterComplete
  <1>7. CASE RunnerRaises(r)
    BY <1>7 DEF RunnerRaises, Suspend, RegisterFailure
  <1>8. CASE CancelledInGenerator(r)
    BY <1>8 DEF CancelledInGenerator, RegisterFailure
  <1>9. CASE ClosedAtAYield(r)
    BY <1>9 DEF ClosedAtAYield, Suspend
  <1>10. CASE Post(r)
    BY <1>10 DEF Post
  <1>11. CASE Read(r)
    BY <1>11 DEF Read
  <1>12. CASE GoAway(r)
    BY <1>12 DEF GoAway
  <1> QED
    BY <1>1, <1>2, <1>3, <1>4, <1>5, <1>6, <1>7, <1>8, <1>9, <1>10, <1>11, <1>12
       DEF ServerStep

-----------------------------------------------------------------------------
(* The run that moves keeps its type and its invariant.                    *)

(* What the host sends around a run; only its completion announces.        *)
LEMMA ChunkSequences ==
    /\ CompletedChunks \in Seq(Chunks)
    /\ <<"RUN_STARTED", "RUN_ERROR">> \in Seq(Chunks)
    /\ <<"RUN_STARTED", "run_started">> \in Seq(Chunks)
    /\ <<"RUN_ERROR">> \in Seq(Chunks)
    /\ <<>> \in Seq(Chunks)
    /\ ~Announces(<<"RUN_STARTED", "RUN_ERROR">>)
    /\ ~Announces(<<"RUN_STARTED", "run_started">>)
    /\ ~Announces(<<"RUN_ERROR">>)
  BY DEF CompletedChunks, Chunks, Announces, EndChunks

(* SendChunk: what waits to be sent goes on the wire, so it announces      *)
(* nothing that was not announced.                                         *)
LEMMA SendChunkKeeps ==
    ASSUME HostShape, NEW r \in Runs, RunTypeOK(r), RunInv(r), SendChunk(r)
    PROVE  RunTypeOK(r)' /\ RunInv(r)'
  <1>1. /\ registry'[r] = registry[r]
        /\ progress'[r] = progress[r]
        /\ connected'[r] = connected[r]
        /\ pending'[r] = Tail(pending[r])
        /\ pending[r] # <<>>
        /\ server[r] \in {"yielding", "draining"}
    BY DEF SendChunk, HostShape
  <1>2. \/ server'[r] = server[r]
        \/ server[r] = "yielding" /\ server'[r] = "running"
        \/ server'[r] = "over"
    BY DEF SendChunk, HostShape
  <1>3. wire'[r] = wire[r] \/ wire'[r] = Append(wire[r], Head(pending[r]))
    BY DEF SendChunk, HostShape
  <1>4. Head(pending[r]) \in Chunks /\ Tail(pending[r]) \in Seq(Chunks)
    BY <1>1 DEF RunTypeOK
  <1>5. RunTypeOK(r)'
    <2>1. wire'[r] \in Seq(Chunks)
      <3>1. wire[r] \in Seq(Chunks)
        BY DEF RunTypeOK
      <3> QED
        BY <1>3, <1>4, <3>1, AppendChunk
    <2>2. server'[r] \in ServerStates
      BY <1>2 DEF RunTypeOK, ServerStates
    <2> QED
      BY <1>1, <1>4, <2>1, <2>2 DEF RunTypeOK
  <1>6. Announces(pending'[r]) => Announces(pending[r])
    BY <1>1, AnnouncesTail DEF RunTypeOK
  <1>7. Announces(wire'[r]) => Announces(wire[r]) \/ Announces(pending[r])
    BY <1>1, <1>3, <1>4, AnnouncesAppend, AnnouncesHead DEF RunTypeOK
  <1>8. RunInv(r)'
    BY <1>1, <1>2, <1>6, <1>7 DEF RunInv
  <1> QED
    BY <1>5, <1>8

(* The run that moves keeps its type and its invariant.                    *)
LEMMA MoverKeeps ==
    ASSUME HostShape, NEW r \in Runs, RunTypeOK(r), RunInv(r),
           ServerStep(r) \/ Post(r) \/ Read(r) \/ GoAway(r)
    PROVE  RunTypeOK(r)' /\ RunInv(r)'
  <1>1. CASE Accept(r)
    BY <1>1 DEF Accept, HostShape, RunTypeOK, RunInv, ServerStates
  <1>2. CASE Reject(r)
    BY <1>2, ChunkSequences
       DEF Reject, Suspend, HostShape, RunTypeOK, RunInv, ServerStates
  <1>3. CASE StartGenerator(r)
    <2>1. /\ registry'[r] = [status |-> "in_progress", has_result |-> FALSE,
                             safe_error_code |-> "none"]
          /\ server'[r] = "yielding"
          /\ pending'[r] = <<"RUN_STARTED", "run_started">>
          /\ UNCHANGED <<progress, wire, connected>>
          /\ registry[r].status = "not_found"
      BY <1>3 DEF StartGenerator, RegisterStart, Suspend, HostShape, RunInv, NotFound
    <2>2. ~Announces(wire[r])
      BY <2>1 DEF RunInv
    <2> QED
      BY <2>1, <2>2, ChunkSequences DEF RunTypeOK, RunInv, ServerStates, Record
  <1>4. CASE SendChunk(r)
    BY <1>4, SendChunkKeeps
  <1>5. CASE RunnerYields(r)
    <2>1. /\ progress'[r] = progress[r] + 1
          /\ server'[r] = "yielding"
          /\ pending'[r] = Encode(RunnerScript[progress[r] + 1])
          /\ UNCHANGED <<registry, wire, connected>>
          /\ server[r] = "running"
      BY <1>5 DEF RunnerYields, Suspend, HostShape
    <2>2. progress[r] + 1 \in 1..Len(RunnerScript)
      BY <1>5 DEF RunnerYields, RunTypeOK, RunnerScript
    <2>3. pending'[r] \in Seq(Chunks) /\ ~Announces(pending'[r])
      BY <2>1, <2>2, EncodedEvent
    <2>4. progress'[r] \in 0..Len(RunnerScript)
      BY <2>1, <2>2 DEF RunnerScript
    <2> QED
      BY <2>1, <2>3, <2>4 DEF RunTypeOK, RunInv, ServerStates
  <1>6. CASE RunnerCompletes(r)
    BY <1>6, ChunkSequences
       DEF RunnerCompletes, RegisterComplete, Suspend, HostShape, RunTypeOK, RunInv,
           ServerStates, Record
  <1>7. CASE RunnerRaises(r)
    <2>1. /\ server'[r] = "draining"
          /\ pending'[r] = <<"RUN_ERROR">>
          /\ UNCHANGED <<progress, wire, connected>>
          /\ server[r] = "running"
          /\ registry[r] # NotFound
      BY <1>7 DEF RunnerRaises, Suspend, HostShape, RunInv, NotFound
    <2>2. registry'[r] = [registry[r] EXCEPT !.status = "failed",
                                             !.safe_error_code = "run_failed"]
      BY <1>7, <2>1 DEF RunnerRaises, RegisterFailure, HostShape
    <2>3. registry[r] \in Record /\ ~registry[r].has_result
      BY <2>1 DEF RunTypeOK, RunInv
    <2>4. registry'[r] \in Record /\ ~registry'[r].has_result
      BY <2>2, <2>3 DEF Record
    <2>5. ~Announces(wire[r])
      BY <2>1 DEF RunInv
    <2> QED
      BY <2>1, <2>4, <2>5, ChunkSequences DEF RunTypeOK, RunInv, ServerStates
  <1>8. CASE CancelledInGenerator(r)
    <2>1. /\ server'[r] = "over"
          /\ UNCHANGED <<pending, progress, wire, connected>>
          /\ server[r] = "running"
          /\ registry[r] # NotFound
      BY <1>8 DEF CancelledInGenerator, HostShape, RunInv, NotFound
    <2>2. registry'[r] = [registry[r] EXCEPT !.status = "cancelled",
                                             !.safe_error_code = "stream_cancelled"]
      BY <1>8, <2>1 DEF CancelledInGenerator, RegisterFailure, HostShape
    <2>3. registry[r] \in Record /\ ~registry[r].has_result
      BY <2>1 DEF RunTypeOK, RunInv
    <2>4. registry'[r] \in Record /\ ~registry'[r].has_result
      BY <2>2, <2>3 DEF Record
    <2>5. ~Announces(wire[r]) /\ ~Announces(pending[r])
      BY <2>1 DEF RunInv
    <2> QED
      BY <2>1, <2>4, <2>5 DEF RunTypeOK, RunInv, ServerStates
  <1>9. CASE ClosedAtAYield(r)
    BY <1>9, ChunkSequences, NothingAnnounced
       DEF ClosedAtAYield, Suspend, HostShape, RunTypeOK, RunInv, ServerStates
  <1>10. CASE Post(r)
    BY <1>10 DEF Post, HostShape, RunTypeOK, RunInv, ServerStates
  <1>11. CASE Read(r)
    <2>1. /\ wire'[r] = Tail(wire[r])
          /\ wire[r] # <<>>
          /\ UNCHANGED <<registry, server, pending, progress, connected>>
      BY <1>11 DEF Read, HostShape
    <2>2. wire'[r] \in Seq(Chunks) /\ (Announces(wire'[r]) => Announces(wire[r]))
      BY <2>1, AnnouncesTail DEF RunTypeOK
    <2> QED
      BY <2>1, <2>2 DEF RunTypeOK, RunInv
  <1>12. CASE GoAway(r)
    BY <1>12, ChunkSequences, NothingAnnounced DEF GoAway, HostShape, RunTypeOK, RunInv
  <1> QED
    BY <1>1, <1>2, <1>3, <1>4, <1>5, <1>6, <1>7, <1>8, <1>9, <1>10, <1>11, <1>12
       DEF ServerStep

(* Every step keeps the host invariant.                                    *)
LEMMA HostInvInductive == HostInv /\ [HostNext]_hostVars => HostInv'
  <1> SUFFICES ASSUME HostInv, [HostNext]_hostVars
               PROVE  HostInv'
    OBVIOUS
  <1>1. HostShape /\ \A q \in Runs : RunTypeOK(q) /\ RunInv(q)
    BY PerRun DEF PerRunInv
  <1>2. PerRunInv' => HostInv'
    BY PerRun, PTL
  <1>3. CASE HostNext
    <2>1. PICK r \in Runs : ServerStep(r) \/ Post(r) \/ Read(r) \/ GoAway(r)
      BY <1>3 DEF HostNext
    <2>2. HostShape' /\ \A q \in Runs \ {r} : Untouched(q)
      BY <1>1, <2>1, OnlyOneRunMoves
    <2>3. RunTypeOK(r)' /\ RunInv(r)'
      BY <1>1, <2>1, MoverKeeps
    <2>4. ASSUME NEW q \in Runs
          PROVE  RunTypeOK(q)' /\ RunInv(q)'
      BY <1>1, <2>2, <2>3, UntouchedKeeps
    <2> QED
      BY <1>2, <2>2, <2>4 DEF PerRunInv
  <1>4. CASE UNCHANGED hostVars
    BY <1>4
       DEF hostVars, HostInv, HostTypeOK, UnsettledWhileRunning, AnnouncedOnlyIfRecorded,
           Announces
  <1> QED
    BY <1>3, <1>4

-----------------------------------------------------------------------------
(* The host invariant holds in every reachable state.                      *)
LEMMA HostInvHolds == HostSpec => []HostInv
  BY InitHostInv, HostInvInductive, PTL DEF HostSpec

(* The host's records, queues and connections always have their type, only *)
(* a started run has a record and only a completed one a result, for every *)
(* set of runs.                                                            *)
THEOREM HostTypeCorrect == HostSpec => []HostTypeOK
  <1>1. HostInv => HostTypeOK
    BY DEF HostInv
  <1> QED
    BY <1>1, HostInvHolds, PTL

(* What is announced is on record. *)
LEMMA CompletionIsAnnounced == HostInv => CompletionIsRecordedBeforeItIsSent
  BY DEF HostInv, AnnouncedOnlyIfRecorded, Announces, EndChunks,
         CompletionIsRecordedBeforeItIsSent

(* Whoever has been sent a completed chunk finds the record completed,     *)
(* whatever the capacity of the connection and the moment the client or    *)
(* the graph gives up (event_generator completes the record first).        *)
THEOREM CompletionRecorded == HostSpec => []CompletionIsRecordedBeforeItIsSent
  BY CompletionIsAnnounced, HostInvHolds, PTL

-----------------------------------------------------------------------------
(* The records implement the lifecycle of a run. *)

(* No run has a record at first.                                           *)
LEMMA InitImplements == HostInit => Lifecycle!LifecycleInit
  BY DEF HostInit, Lifecycle!LifecycleInit, NotFound

(* A step that leaves the registry alone leaves every status alone.        *)
LEMMA NoRecordTouched ==
    ASSUME UNCHANGED registry
    PROVE  UNCHANGED [r \in Runs |-> registry[r].status]
  OBVIOUS

(* A record that is made is made of an unknown run. *)
LEMMA StartBegins ==
    ASSUME HostInv, NEW r \in Runs, StartGenerator(r)
    PROVE  Lifecycle!Begin(r)
  <1>1. registry[r].status = "not_found"
    BY DEF StartGenerator, HostInv, HostTypeOK, NotFound
  <1>2. registry' = [registry EXCEPT
            ![r] = [status |-> "in_progress", has_result |-> FALSE,
                    safe_error_code |-> "none"]]
    BY DEF StartGenerator, RegisterStart
  <1>3. DOMAIN registry = Runs
    BY DEF HostInv, HostTypeOK
  <1> QED
    BY <1>1, <1>2, <1>3 DEF Lifecycle!Begin

(* fail() changes the status of one run to the one it is given.            *)
LEMMA StatusUpdate ==
    ASSUME DOMAIN registry = Runs, NEW r \in Runs, registry[r] \in Record,
           NEW s, NEW code,
           registry' = [registry EXCEPT ![r].status = s, ![r].safe_error_code = code]
    PROVE  [q \in Runs |-> registry'[q].status]
           = [[q \in Runs |-> registry[q].status] EXCEPT ![r] = s]
  <1>1. registry'[r] = [registry[r] EXCEPT !.status = s, !.safe_error_code = code]
    OBVIOUS
  <1>2. registry'[r].status = s
    BY <1>1 DEF Record
  <1>3. \A q \in Runs \ {r} : registry'[q] = registry[q]
    OBVIOUS
  <1> QED
    BY <1>2, <1>3

(* A record that is settled was unsettled: the generator was running. *)
LEMMA EndSettles ==
    ASSUME HostInv, NEW r \in Runs,
           RunnerCompletes(r) \/ RunnerRaises(r) \/ CancelledInGenerator(r)
    PROVE  Lifecycle!Settle(r)
  <1>1. registry[r].status = "in_progress" /\ registry[r] # NotFound
    BY DEF RunnerCompletes, RunnerRaises, CancelledInGenerator, HostInv,
           UnsettledWhileRunning, NotFound
  <1>2. DOMAIN registry = Runs /\ registry[r] \in Record
    BY <1>1 DEF HostInv, HostTypeOK
  <1>3. PICK s \in {"completed", "failed", "cancelled"} :
            [q \in Runs |-> registry'[q].status]
            = [[q \in Runs |-> registry[q].status] EXCEPT ![r] = s]
    <2>1. CASE RunnerCompletes(r)
      BY <1>2, <2>1 DEF RunnerCompletes, RegisterComplete
    <2>2. CASE RunnerRaises(r)
      <3>1. registry' = [registry EXCEPT ![r].status = "failed",
                                         ![r].safe_error_code = "run_failed"]
        BY <1>1, <2>2 DEF RunnerRaises, RegisterFailure
      <3> QED
        BY <1>2, <3>1, StatusUpdate
    <2>3. CASE CancelledInGenerator(r)
      <3>1. registry' = [registry EXCEPT ![r].status = "cancelled",
                                         ![r].safe_error_code = "stream_cancelled"]
        BY <1>1, <2>3 DEF CancelledInGenerator, RegisterFailure
      <3> QED
        BY <1>2, <3>1, StatusUpdate
    <2> QED
      BY <2>1, <2>2, <2>3
  <1> QED
    BY <1>1, <1>3 DEF Lifecycle!Settle, Lifecycle!Settled

(* Every step of the host is a step or a stutter of the lifecycle.         *)
LEMMA StepImplements ==
    ASSUME HostInv, [HostNext]_hostVars
    PROVE  Lifecycle!LifecycleNext
           \/ UNCHANGED [r \in Runs |-> registry[r].status]
  <1>1. CASE UNCHANGED hostVars
    BY <1>1 DEF hostVars
  <1>2. CASE HostNext
    <2>1. PICK r \in Runs : ServerStep(r) \/ Post(r) \/ Read(r) \/ GoAway(r)
      BY <1>2 DEF HostNext
    <2>2. CASE StartGenerator(r)
      BY <2>2, StartBegins DEF Lifecycle!LifecycleNext
    <2>3. CASE RunnerCompletes(r) \/ RunnerRaises(r) \/ CancelledInGenerator(r)
      BY <2>3, EndSettles DEF Lifecycle!LifecycleNext
    <2>4. CASE \/ Accept(r) \/ Reject(r) \/ SendChunk(r) \/ RunnerYields(r)
               \/ ClosedAtAYield(r) \/ Post(r) \/ Read(r) \/ GoAway(r)
      <3>1. UNCHANGED registry
        BY <2>4 DEF Accept, Reject, SendChunk, RunnerYields, ClosedAtAYield, Post, Read,
                    GoAway
      <3> QED
        BY <3>1, NoRecordTouched
    <2> QED
      BY <2>1, <2>2, <2>3, <2>4 DEF ServerStep
  <1> QED
    BY <1>1, <1>2

(* The registry implements RunLifecycle: a record appears once, is settled *)
(* at most once and is final then, although fail() overwrites whatever it  *)
(* finds, for every set of runs.                                           *)
THEOREM HostImplementsLifecycle == HostSpec => ImplementsRunLifecycle
  <1>1. HostInv /\ [HostNext]_hostVars
        => [Lifecycle!LifecycleNext]_([r \in Runs |-> registry[r].status])
    BY StepImplements
  <1> QED
    BY <1>1, InitImplements, HostInvHolds, PTL
       DEF HostSpec, ImplementsRunLifecycle, Lifecycle!LifecycleSpec

-----------------------------------------------------------------------------
(* A stream ends once. *)

LastChunks == {"RUN_FINISHED", "RUN_ERROR"}

Has(chunks, some) == \E i \in DOMAIN chunks : chunks[i] \in some

(* Only the last chunk of a queue may be one that ends the stream.         *)
EndsLast(chunks) ==
    \A i \in DOMAIN chunks : chunks[i] \in LastChunks => i = Len(chunks)

(* What waits to be sent waits only while the generator is suspended; what *)
(* ends a stream is the last chunk of all, and comes of a generator that   *)
(* will not go on; an error is sent only of a run that failed or was never *)
(* accepted; and a completed run has a result.                             *)
StreamInv(r) ==
    /\ server[r] \in {"absent", "requested", "accepted", "running", "over"} =>
          pending[r] = <<>>
    /\ EndsLast(wire[r]) /\ EndsLast(pending[r])
    /\ Has(wire[r], LastChunks) => pending[r] = <<>>
    /\ Has(wire[r], LastChunks) \/ Has(pending[r], LastChunks) =>
          server[r] \in {"draining", "over"}
    /\ Has(wire[r], {"RUN_ERROR"}) \/ Has(pending[r], {"RUN_ERROR"}) =>
          registry[r] = NotFound \/ registry[r].status = "failed"
    /\ registry[r].status = "completed" => registry[r].has_result = TRUE

(* A queue without its first chunk. *)
LEMMA TailOfQueue ==
    ASSUME NEW s \in Seq(Chunks), s # <<>>, NEW some
    PROVE  /\ Tail(s) \in Seq(Chunks)
           /\ Has(Tail(s), some) => Has(s, some)
           /\ EndsLast(s) => EndsLast(Tail(s))
           /\ Head(s) \in some => Has(s, some)
           /\ Has(s, some) => Head(s) \in some \/ Has(Tail(s), some)
           /\ EndsLast(s) /\ Head(s) \in LastChunks => Tail(s) = <<>>
           /\ Len(s) <= 1 => Tail(s) = <<>>
  <1>1. /\ Tail(s) \in Seq(Chunks) /\ Len(s) \in Nat /\ Len(s) > 0
        /\ Len(Tail(s)) = Len(s) - 1
        /\ DOMAIN s = 1 .. Len(s) /\ DOMAIN Tail(s) = 1 .. Len(s) - 1
        /\ Head(s) = s[1]
    OBVIOUS
  <1>2. \A i \in 1 .. Len(s) - 1 : Tail(s)[i] = s[i + 1] /\ i + 1 \in 1 .. Len(s)
    BY <1>1
  <1>3. Len(s) <= 1 => Tail(s) = <<>>
    <2>1. Len(s) <= 1 => Len(Tail(s)) = 0
      BY <1>1
    <2>2. \A t \in Seq(Chunks) : Len(t) = 0 => t = <<>>
      OBVIOUS
    <2> QED
      BY <1>1, <2>1, <2>2
  <1>4. Has(Tail(s), some) => Has(s, some)
    BY <1>1, <1>2 DEF Has
  <1>5. EndsLast(s) => EndsLast(Tail(s))
    <2> SUFFICES ASSUME EndsLast(s), NEW i \in 1 .. Len(s) - 1, Tail(s)[i] \in LastChunks
                 PROVE  i = Len(s) - 1
      BY <1>1 DEF EndsLast
    <2>1. i + 1 = Len(s)
      BY <1>1, <1>2 DEF EndsLast
    <2>2. \A n \in Nat : \A j \in 1 .. n - 1 : j + 1 = n => j = n - 1
      OBVIOUS
    <2>3. Len(s) \in Nat
      BY <1>1
    <2> QED
      BY <2>1, <2>2, <2>3, Zenon
  <1>6. Head(s) \in some => Has(s, some)
    <2>1. 1 \in DOMAIN s
      BY <1>1
    <2>2. Head(s) \in some => s[1] \in some
      BY <1>1, Zenon
    <2> QED
      BY <2>1, <2>2, Zenon DEF Has
  <1>7. Has(s, some) => Head(s) \in some \/ Has(Tail(s), some)
    <2>0. s[1] \in some => Head(s) \in some
      BY <1>1, Zenon
    <2> SUFFICES ASSUME NEW i \in DOMAIN s, s[i] \in some, i # 1
                 PROVE  Has(Tail(s), some)
      BY <2>0, Zenon DEF Has
    <2>1. i - 1 \in 1 .. Len(s) - 1 /\ (i - 1) + 1 = i
      BY <1>1
    <2>2. Tail(s)[i - 1] = s[i]
      BY <1>2, <2>1
    <2>3. i - 1 \in DOMAIN Tail(s) /\ Tail(s)[i - 1] \in some
      BY <1>1, <2>1, <2>2
    <2> QED
      BY <2>3, Zenon DEF Has
  <1>8. EndsLast(s) /\ Head(s) \in LastChunks => Tail(s) = <<>>
    <2> SUFFICES ASSUME EndsLast(s), Head(s) \in LastChunks
                 PROVE  Len(s) <= 1
      BY <1>3
    <2>1. 1 = Len(s)
      BY <1>1 DEF EndsLast
    <2>2. \A n \in Nat : 1 = n => n <= 1
      OBVIOUS
    <2> QED
      BY <1>1, <2>1, <2>2, Zenon
  <1> QED
    BY <1>1, <1>3, <1>4, <1>5, <1>6, <1>7, <1>8

(* A queue with one more chunk. *)
LEMMA AppendToQueue ==
    ASSUME NEW s \in Seq(Chunks), NEW c \in Chunks, NEW some
    PROVE  /\ Append(s, c) \in Seq(Chunks)
           /\ Has(Append(s, c), some) <=> Has(s, some) \/ c \in some
           /\ ~Has(s, LastChunks) => EndsLast(Append(s, c))
  <1>1. /\ Append(s, c) \in Seq(Chunks) /\ Len(s) \in Nat
        /\ Len(Append(s, c)) = Len(s) + 1
        /\ DOMAIN s = 1 .. Len(s) /\ DOMAIN Append(s, c) = 1 .. Len(s) + 1
        /\ \A i \in 1 .. Len(s) : Append(s, c)[i] = s[i]
        /\ Append(s, c)[Len(s) + 1] = c
    OBVIOUS
  <1>2. /\ \A i \in 1 .. Len(s) + 1 : i \in 1 .. Len(s) \/ i = Len(s) + 1
        /\ \A i \in 1 .. Len(s) : i \in 1 .. Len(s) + 1
        /\ Len(s) + 1 \in 1 .. Len(s) + 1
    BY <1>1
  <1>3. Has(Append(s, c), some) <=> Has(s, some) \/ c \in some
    BY <1>1, <1>2 DEF Has
  <1>4. ~Has(s, LastChunks) => EndsLast(Append(s, c))
    BY <1>1, <1>2 DEF Has, EndsLast
  <1> QED
    BY <1>1, <1>3, <1>4

(* What the host queues. *)
LEMMA QueuedChunks ==
    /\ ~Has(<<>>, LastChunks) /\ ~Has(<<>>, {"RUN_ERROR"}) /\ EndsLast(<<>>)
    /\ ~Has(<<"RUN_STARTED", "run_started">>, LastChunks)
    /\ ~Has(<<"RUN_STARTED", "run_started">>, {"RUN_ERROR"})
    /\ EndsLast(<<"RUN_STARTED", "run_started">>)
    /\ EndsLast(<<"RUN_STARTED", "RUN_ERROR">>)
    /\ Has(<<"RUN_STARTED", "RUN_ERROR">>, {"RUN_ERROR"})
    /\ EndsLast(<<"RUN_ERROR">>)
    /\ Has(<<"RUN_ERROR">>, {"RUN_ERROR"})
    /\ EndsLast(CompletedChunks) /\ ~Has(CompletedChunks, {"RUN_ERROR"})
  <1>1. EndsLast(CompletedChunks) /\ ~Has(CompletedChunks, {"RUN_ERROR"})
    BY DEF CompletedChunks, Has, EndsLast, LastChunks
  <1>2. EndsLast(<<"RUN_ERROR">>) /\ EndsLast(<<"RUN_STARTED", "RUN_ERROR">>)
    BY DEF EndsLast, LastChunks
  <1>3. Has(<<"RUN_STARTED", "RUN_ERROR">>, {"RUN_ERROR"})
    <2>1. 2 \in DOMAIN <<"RUN_STARTED", "RUN_ERROR">>
          /\ <<"RUN_STARTED", "RUN_ERROR">>[2] \in {"RUN_ERROR"}
      OBVIOUS
    <2> QED
      BY <2>1 DEF Has
  <1>4. Has(<<"RUN_ERROR">>, {"RUN_ERROR"})
    <2>1. 1 \in DOMAIN <<"RUN_ERROR">> /\ <<"RUN_ERROR">>[1] \in {"RUN_ERROR"}
      OBVIOUS
    <2> QED
      BY <2>1 DEF Has
  <1>5. /\ ~Has(<<"RUN_STARTED", "run_started">>, LastChunks)
        /\ ~Has(<<"RUN_STARTED", "run_started">>, {"RUN_ERROR"})
        /\ EndsLast(<<"RUN_STARTED", "run_started">>)
    BY DEF Has, EndsLast, LastChunks
  <1>6. ~Has(<<>>, LastChunks) /\ ~Has(<<>>, {"RUN_ERROR"}) /\ EndsLast(<<>>)
    BY DEF Has, EndsLast
  <1> QED
    BY <1>1, <1>2, <1>3, <1>4, <1>5, <1>6

(* No event of the runner ends the stream. *)
LEMMA EventsDoNotEnd ==
    ASSUME NEW i \in 1 .. Len(RunnerScript)
    PROVE  /\ ~Has(Encode(RunnerScript[i]), LastChunks)
           /\ ~Has(Encode(RunnerScript[i]), {"RUN_ERROR"})
           /\ EndsLast(Encode(RunnerScript[i]))
  <1>1. RunnerScript[i] \in {"phase_plan", "phase_do", "text", "cause", "phase_check",
                             "checker", "phase_explain", "explain"}
    BY DEF RunnerScript
  <1>2. CASE RunnerScript[i] = "text"
    BY <1>2 DEF Encode, Has, EndsLast, LastChunks
  <1>3. CASE RunnerScript[i] # "text"
    BY <1>1, <1>3 DEF Encode, Has, EndsLast, LastChunks
  <1> QED
    BY <1>2, <1>3

(* An error ends a stream. *)
LEMMA ErrorIsLast ==
    ASSUME NEW s
    PROVE  Has(s, {"RUN_ERROR"}) => Has(s, LastChunks)
  BY DEF Has, LastChunks

(* SendChunk: the chunk goes on the wire or is dropped. *)
LEMMA SendChunkEnds ==
    ASSUME HostShape, NEW r \in Runs, RunTypeOK(r), RunInv(r), StreamInv(r), SendChunk(r)
    PROVE  StreamInv(r)'
  <1> DEFINE p == pending[r]
             w == wire[r]
  <1>1. /\ registry'[r] = registry[r]
        /\ pending'[r] = Tail(p)
        /\ p # <<>>
        /\ server[r] \in {"yielding", "draining"}
    BY DEF SendChunk, HostShape
  <1>2. \/ server'[r] = server[r]
        \/ /\ Len(p) <= 1
           /\ \/ server[r] = "yielding" /\ server'[r] = "running"
              \/ server[r] = "draining" /\ server'[r] = "over"
    <2>1. Len(p) \in Nat
      BY DEF RunTypeOK
    <2> QED
      BY <1>1, <2>1 DEF SendChunk, HostShape
  <1>3. wire'[r] = w \/ wire'[r] = Append(w, Head(p))
    BY DEF SendChunk, HostShape
  <1>4. p \in Seq(Chunks) /\ w \in Seq(Chunks) /\ Head(p) \in Chunks
    BY <1>1 DEF RunTypeOK
  <1>5. ~Has(w, LastChunks) /\ EndsLast(w) /\ EndsLast(p)
    BY <1>1 DEF StreamInv
  <1>6. Has(p, LastChunks) => server[r] = "draining"
    BY <1>1 DEF StreamInv
  <1>7. /\ Has(p, {"RUN_ERROR"}) => registry[r] = NotFound \/ registry[r].status = "failed"
        /\ registry[r].status = "completed" => registry[r].has_result = TRUE
    BY DEF StreamInv
  <1> HIDE DEF p, w
  <1>8. /\ EndsLast(Tail(p))
        /\ Has(Tail(p), LastChunks) => Has(p, LastChunks)
        /\ Has(Tail(p), {"RUN_ERROR"}) => Has(p, {"RUN_ERROR"})
        /\ Head(p) \in LastChunks => Tail(p) = <<>> /\ Has(p, LastChunks)
        /\ Head(p) \in {"RUN_ERROR"} => Has(p, {"RUN_ERROR"})
        /\ Len(p) <= 1 => Tail(p) = <<>>
    BY <1>1, <1>4, <1>5, TailOfQueue
  <1>9. /\ EndsLast(wire'[r])
        /\ Has(wire'[r], LastChunks) => Head(p) \in LastChunks
        /\ Has(wire'[r], {"RUN_ERROR"}) => Head(p) \in {"RUN_ERROR"}
    <2>1. CASE wire'[r] = w
      BY <1>5, <2>1, ErrorIsLast
    <2>2. CASE wire'[r] = Append(w, Head(p))
      <3>1. /\ EndsLast(Append(w, Head(p)))
            /\ Has(Append(w, Head(p)), LastChunks) => Head(p) \in LastChunks
            /\ Has(Append(w, Head(p)), {"RUN_ERROR"}) => Head(p) \in {"RUN_ERROR"}
        BY <1>4, <1>5, AppendToQueue, ErrorIsLast
      <3> QED
        BY <2>2, <3>1
    <2> QED
      BY <1>3, <2>1, <2>2
  <1>10. server'[r] \in {"absent", "requested", "accepted", "running", "over"} =>
            Tail(p) = <<>>
    BY <1>1, <1>2, <1>8
  <1>11. Has(p, LastChunks) => server'[r] \in {"draining", "over"}
    BY <1>2, <1>6
  <1> QED
    BY <1>1, <1>7, <1>8, <1>9, <1>10, <1>11 DEF StreamInv

(* The run that moves keeps what is known of its stream. *)
LEMMA MoverEndsOnce ==
    ASSUME HostShape, NEW r \in Runs, RunTypeOK(r), RunInv(r), StreamInv(r),
           ServerStep(r) \/ Post(r) \/ Read(r) \/ GoAway(r)
    PROVE  StreamInv(r)'
  <1>0. /\ Has(wire[r], {"RUN_ERROR"}) => Has(wire[r], LastChunks)
        /\ Has(pending[r], {"RUN_ERROR"}) => Has(pending[r], LastChunks)
    BY ErrorIsLast
  <1>1. CASE Accept(r)
    BY <1>1 DEF Accept, HostShape, StreamInv
  <1>2. CASE Reject(r)
    <2>1. /\ server[r] = "requested" /\ server'[r] = "draining"
          /\ pending'[r] = <<"RUN_STARTED", "RUN_ERROR">>
          /\ registry' = registry /\ wire' = wire
      BY <1>2 DEF Reject, Suspend, HostShape
    <2>2. registry[r] = NotFound /\ ~Has(wire[r], LastChunks)
      BY <2>1 DEF RunInv, StreamInv
    <2> QED
      BY <2>1, <2>2, QueuedChunks DEF StreamInv
  <1>3. CASE StartGenerator(r)
    <2>1. /\ registry'[r].status = "in_progress"
          /\ server[r] = "accepted" /\ server'[r] = "yielding"
          /\ pending'[r] = <<"RUN_STARTED", "run_started">> /\ wire' = wire
      BY <1>3 DEF StartGenerator, RegisterStart, Suspend, HostShape
    <2>2. ~Has(wire[r], LastChunks)
      BY <2>1 DEF StreamInv
    <2> QED
      BY <1>0, <2>1, <2>2, QueuedChunks DEF StreamInv
  <1>4. CASE SendChunk(r)
    BY <1>4, SendChunkEnds
  <1>5. CASE RunnerYields(r)
    <2>1. /\ server[r] = "running" /\ server'[r] = "yielding"
          /\ pending'[r] = Encode(RunnerScript[progress[r] + 1])
          /\ registry' = registry /\ wire' = wire
      BY <1>5 DEF RunnerYields, Suspend, HostShape
    <2>2. progress[r] + 1 \in 1 .. Len(RunnerScript)
      BY <1>5 DEF RunnerYields, RunTypeOK, RunnerScript
    <2>3. ~Has(wire[r], LastChunks)
      BY <2>1 DEF StreamInv
    <2>4. /\ ~Has(pending'[r], LastChunks) /\ ~Has(pending'[r], {"RUN_ERROR"})
          /\ EndsLast(pending'[r])
      BY <2>1, <2>2, EventsDoNotEnd
    <2> QED
      BY <1>0, <2>1, <2>3, <2>4 DEF StreamInv
  <1>6. CASE RunnerCompletes(r)
    <2>1. /\ server[r] = "running" /\ server'[r] = "draining"
          /\ pending'[r] = CompletedChunks /\ wire' = wire
          /\ registry'[r].has_result = TRUE
      BY <1>6 DEF RunnerCompletes, RegisterComplete, Suspend, HostShape
    <2>2. ~Has(wire[r], LastChunks)
      BY <2>1 DEF StreamInv
    <2> QED
      BY <1>0, <2>1, <2>2, QueuedChunks DEF StreamInv
  <1>7. CASE RunnerRaises(r)
    <2>1. /\ server[r] = "running" /\ server'[r] = "draining"
          /\ pending'[r] = <<"RUN_ERROR">> /\ wire' = wire
      BY <1>7 DEF RunnerRaises, Suspend, HostShape
    <2>2. ~Has(wire[r], LastChunks) /\ registry[r].status = "in_progress"
      BY <2>1 DEF StreamInv, RunInv
    <2>3. registry'[r].status = "failed"
      <3>1. registry[r] # NotFound /\ registry[r] \in Record
        BY <2>2 DEF NotFound, RunTypeOK
      <3>2. registry'[r] = [registry[r] EXCEPT !.status = "failed",
                                               !.safe_error_code = "run_failed"]
        BY <1>7, <3>1 DEF RunnerRaises, RegisterFailure, HostShape
      <3> QED
        BY <3>1, <3>2 DEF Record
    <2> QED
      BY <2>1, <2>2, <2>3, QueuedChunks DEF StreamInv
  <1>8. CASE CancelledInGenerator(r)
    <2>1. /\ server[r] = "running" /\ server'[r] = "over"
          /\ pending' = pending /\ wire' = wire
      BY <1>8 DEF CancelledInGenerator, HostShape
    <2>2. /\ ~Has(wire[r], LastChunks) /\ pending[r] = <<>>
          /\ registry[r].status = "in_progress"
      BY <2>1 DEF StreamInv, RunInv
    <2>3. registry'[r].status = "cancelled"
      <3>1. registry[r] # NotFound /\ registry[r] \in Record
        BY <2>2 DEF NotFound, RunTypeOK
      <3>2. registry'[r] = [registry[r] EXCEPT !.status = "cancelled",
                                               !.safe_error_code = "stream_cancelled"]
        BY <1>8, <3>1 DEF CancelledInGenerator, RegisterFailure, HostShape
      <3> QED
        BY <3>1, <3>2 DEF Record
    <2> QED
      BY <1>0, <2>1, <2>2, <2>3, QueuedChunks DEF StreamInv
  <1>9. CASE ClosedAtAYield(r)
    <2>1. /\ server'[r] = "over" /\ pending'[r] = <<>>
          /\ registry' = registry /\ wire' = wire
      BY <1>9 DEF ClosedAtAYield, Suspend, HostShape
    <2> QED
      BY <1>0, <2>1, QueuedChunks DEF StreamInv
  <1>10. CASE Post(r)
    BY <1>10 DEF Post, HostShape, StreamInv
  <1>11. CASE Read(r)
    <2>1. /\ wire'[r] = Tail(wire[r]) /\ wire[r] # <<>>
          /\ UNCHANGED <<registry, server, pending>>
      BY <1>11 DEF Read, HostShape
    <2>2. /\ Has(wire'[r], LastChunks) => Has(wire[r], LastChunks)
          /\ Has(wire'[r], {"RUN_ERROR"}) => Has(wire[r], {"RUN_ERROR"})
          /\ EndsLast(wire[r]) => EndsLast(wire'[r])
      BY <2>1, TailOfQueue DEF RunTypeOK
    <2> QED
      BY <2>1, <2>2 DEF StreamInv
  <1>12. CASE GoAway(r)
    <2>1. /\ wire'[r] = <<>>
          /\ UNCHANGED <<registry, server, pending>>
      BY <1>12 DEF GoAway, HostShape
    <2> QED
      BY <2>1, QueuedChunks DEF StreamInv
  <1> QED
    BY <1>1, <1>2, <1>3, <1>4, <1>5, <1>6, <1>7, <1>8, <1>9, <1>10, <1>11, <1>12
       DEF ServerStep

(* A run that is not touched keeps it too. *)
LEMMA UntouchedEndsOnce ==
    ASSUME NEW q \in Runs, StreamInv(q), Untouched(q)
    PROVE  StreamInv(q)'
  BY DEF StreamInv, Untouched, Has, EndsLast

StreamsInv == \A r \in Runs : StreamInv(r)

(* Before any request. *)
LEMMA StreamsInvInitially == HostInit => StreamsInv
  BY QueuedChunks DEF HostInit, StreamsInv, StreamInv, NotFound

(* Every step keeps it. *)
LEMMA StreamsInvInductive ==
    ASSUME HostInv, StreamsInv, [HostNext]_hostVars
    PROVE  StreamsInv'
  <1>1. HostShape /\ \A q \in Runs : RunTypeOK(q) /\ RunInv(q)
    BY PerRun DEF PerRunInv
  <1>2. CASE HostNext
    <2>1. PICK r \in Runs : ServerStep(r) \/ Post(r) \/ Read(r) \/ GoAway(r)
      BY <1>2 DEF HostNext
    <2>2. \A q \in Runs \ {r} : Untouched(q)
      BY <1>1, <2>1, OnlyOneRunMoves
    <2>3. StreamInv(r)'
      BY <1>1, <2>1, MoverEndsOnce DEF StreamsInv
    <2>4. ASSUME NEW q \in Runs
          PROVE  StreamInv(q)'
      BY <2>2, <2>3, UntouchedEndsOnce DEF StreamsInv
    <2> QED
      BY <2>4 DEF StreamsInv
  <1>3. CASE UNCHANGED hostVars
    BY <1>3 DEF hostVars, StreamsInv, StreamInv, Has, EndsLast
  <1> QED
    BY <1>2, <1>3

(* Nothing follows the end of a stream whose queues end it at most once.   *)
LEMMA StreamsEnd == HostInv /\ StreamsInv => NothingFollowsTheEnd
  <1> SUFFICES ASSUME HostInv, StreamsInv, NEW r \in Runs
               PROVE  LET ahead == wire[r] \o pending[r]
                      IN  \A i \in DOMAIN ahead :
                             ahead[i] \in {"RUN_FINISHED", "RUN_ERROR"} =>
                                 /\ i = Len(ahead)
                                 /\ server[r] \in {"draining", "over"}
    BY DEF NothingFollowsTheEnd
  <1> DEFINE w == wire[r]
             p == pending[r]
  <1>1. StreamInv(r) /\ w \in Seq(Chunks) /\ p \in Seq(Chunks)
    BY DEF StreamsInv, HostInv, HostTypeOK
  <1>2. /\ EndsLast(w) /\ EndsLast(p)
        /\ Has(w, LastChunks) => p = <<>>
        /\ Has(w, LastChunks) \/ Has(p, LastChunks) => server[r] \in {"draining", "over"}
    BY <1>1 DEF StreamInv
  <1> HIDE DEF w, p
  <1>3. SUFFICES ASSUME NEW i \in DOMAIN (w \o p), (w \o p)[i] \in LastChunks
                 PROVE  i = Len(w \o p) /\ server[r] \in {"draining", "over"}
    BY DEF LastChunks, w, p
  <1>4. /\ Len(w) \in Nat /\ Len(p) \in Nat /\ Len(w \o p) = Len(w) + Len(p)
        /\ DOMAIN (w \o p) = 1 .. Len(w) + Len(p)
        /\ DOMAIN w = 1 .. Len(w) /\ DOMAIN p = 1 .. Len(p)
    BY <1>1
  <1>5. CASE i \in 1 .. Len(w)
    <2>1. (w \o p)[i] = w[i]
      BY <1>1, <1>4, <1>5
    <2>2. Has(w, LastChunks) /\ i = Len(w)
      BY <1>2, <1>3, <1>4, <1>5, <2>1 DEF Has, EndsLast
    <2>3. Len(p) = 0
      BY <1>2, <2>2
    <2> QED
      BY <1>2, <1>4, <2>2, <2>3
  <1>6. CASE i \notin 1 .. Len(w)
    <2>1. i - Len(w) \in 1 .. Len(p) /\ (w \o p)[i] = p[i - Len(w)]
      BY <1>1, <1>3, <1>4, <1>6
    <2>2. Has(p, LastChunks) /\ i - Len(w) = Len(p)
      BY <1>2, <1>3, <1>4, <2>1 DEF Has, EndsLast
    <2>3. i = Len(w) + Len(p)
      BY <1>4, <2>1, <2>2
    <2> QED
      BY <1>2, <1>4, <2>2, <2>3
  <1> QED
    BY <1>5, <1>6

(* A stream ends once: nothing follows the chunk that ends it, on the wire *)
(* or in what waits to be sent, for every set of runs and every capacity   *)
(* of the connections.                                                     *)
THEOREM StreamsEndOnce == HostSpec => []NothingFollowsTheEnd
  <1>1. HostInit => StreamsInv
    BY StreamsInvInitially
  <1>2. HostInv /\ StreamsInv /\ [HostNext]_hostVars => StreamsInv'
    BY StreamsInvInductive
  <1> QED
    BY <1>1, <1>2, StreamsEnd, HostInvHolds, PTL DEF HostSpec

-----------------------------------------------------------------------------
(* The workspace: its inductive invariant. *)

ErrorIsDue(r) == Has(wire[r], {"RUN_ERROR"}) \/ Has(pending[r], {"RUN_ERROR"})

(* What a coordinator knows of its run.  One that streams is the current   *)
(* one and still connected, so its run ends with a record, or with an      *)
(* error that it has read or is going to read; after the error there is    *)
(* nothing more to read; and it waits for the record of a completed run    *)
(* only.                                                                   *)
FollowInv(o) ==
    /\ coordinator[o].stage = "idle" <=> server[o] = "absent"
    /\ coordinator[o].stage = "streaming" =>
          /\ current = o /\ connected[o] = TRUE
          /\ server[o] \in {"draining", "over"} =>
                \/ registry[o].status = "completed"
                \/ coordinator[o].received_run_error = TRUE
                \/ ErrorIsDue(o)
    /\ current = o => coordinator[o].stage \in {"streaming", "reconciling"}
    /\ coordinator[o].latest_server_run \in {NoRun, o}
    /\ coordinator[o].received_run_error = TRUE =>
          /\ wire[o] = <<>> /\ pending[o] = <<>>
          /\ server[o] \in {"draining", "over"}
    /\ coordinator[o].stage = "reconciling" =>
          /\ registry[o].status = "completed"
          /\ coordinator[o].latest_server_run = o

(* Every part of a screen is of one run. *)
OwnParts(s) ==
    /\ s.server_run \in {NoRun, s.thread} /\ s.active_text \in {NoRun, s.thread}
    /\ s.candidate \in {NoRun, s.thread} /\ s.cause \in {NoRun, s.thread}
    /\ s.checker \in {NoRun, s.thread} /\ s.explain \in {NoRun, s.thread}
    /\ s.completed \in {NoRun, s.thread}

(* What the screen owes to the host.  A failure is shown of the current    *)
(* observation only while its coordinator, told of the error, waits for    *)
(* the end of the stream.                                                  *)
ScreenInv ==
    /\ OwnParts(screen)
    /\ screen.status # "cancelled"
    /\ current # NoRun => screen.thread = current
    /\ screen.thread # NoRun => server[screen.thread] # "absent"
    /\ screen.completed # NoRun => registry[screen.completed].status = "completed"
    /\ screen.status = "completed" => screen.completed = screen.thread
    /\ screen.safe_error = "server_error" =>
          /\ screen.thread # NoRun
          /\ server[screen.thread] \in {"draining", "over"}
          /\ registry[screen.thread] = NotFound \/ registry[screen.thread].status = "failed"
    /\ screen.status = "failed" /\ current # NoRun =>
          /\ coordinator[current].stage = "streaming"
          /\ coordinator[current].received_run_error = TRUE
    /\ scenarios # "listed" =>
          screen.status = "idle" /\ \A o \in Runs : server[o] = "absent"

ClientTypeOK ==
    /\ screen \in Screen
    /\ current \in Runs \cup {NoRun}
    /\ coordinator \in [Runs -> Coordinator]
    /\ scenarios \in {"loading", "listed", "missing"}

ObserverInv == ClientTypeOK /\ (\A o \in Runs : FollowInv(o)) /\ ScreenInv

-----------------------------------------------------------------------------
(* The reducer. *)

(* A failure keeps everything but the status, the text and the code. *)
LEMMA FailedScreen ==
    ASSUME NEW s \in Screen, NEW status \in {"failed", "cancelled"},
           NEW code \in {"server_error", "client_stream_failed", "stream_cancelled"}
    PROVE  LET t == Failed(s, status, code)
           IN  /\ t \in Screen /\ t.status = status /\ t.safe_error = code
               /\ t.thread = s.thread /\ t.completed = s.completed
               /\ OwnParts(s) => OwnParts(t)
  <1> DEFINE t == Failed(s, status, code)
  <1>1. t = [s EXCEPT !.status = status, !.active_text = NoRun, !.safe_error = code]
    BY DEF Failed
  <1> HIDE DEF t
  <1>2. t \in Screen
    BY <1>1 DEF Screen
  <1>3. /\ t.status = status /\ t.safe_error = code /\ t.active_text = NoRun
        /\ t.thread = s.thread /\ t.completed = s.completed
    BY <1>1 DEF Screen
  <1>4. /\ t.server_run = s.server_run /\ t.candidate = s.candidate
        /\ t.cause = s.cause /\ t.checker = s.checker /\ t.explain = s.explain
    BY <1>1 DEF Screen
  <1>5. OwnParts(s) => OwnParts(t)
    BY <1>3, <1>4 DEF OwnParts
  <1> QED
    BY <1>2, <1>3, <1>5 DEF t

(* At a phase, everything else is kept. *)
LEMMA PhaseScreen ==
    ASSUME NEW s \in Screen, NEW phase \in TimelinePhases
    PROVE  LET t == AtPhase(s, phase)
           IN  /\ t \in Screen /\ t.status = s.status /\ t.safe_error = s.safe_error
               /\ t.thread = s.thread /\ t.completed = s.completed
               /\ OwnParts(s) => OwnParts(t)
  <1> DEFINE t == AtPhase(s, phase)
  <1>1. t = [s EXCEPT !.phase = phase, !.seen_phases = @ \cup {phase}]
    BY DEF AtPhase
  <1> HIDE DEF t
  <1>2. t \in Screen
    BY <1>1 DEF Screen
  <1>3. /\ t.status = s.status /\ t.safe_error = s.safe_error
        /\ t.active_text = s.active_text
        /\ t.thread = s.thread /\ t.completed = s.completed
    BY <1>1 DEF Screen
  <1>4. /\ t.server_run = s.server_run /\ t.candidate = s.candidate
        /\ t.cause = s.cause /\ t.checker = s.checker /\ t.explain = s.explain
    BY <1>1 DEF Screen
  <1>5. OwnParts(s) => OwnParts(t)
    BY <1>3, <1>4 DEF OwnParts
  <1> QED
    BY <1>2, <1>3, <1>5 DEF t

(* What a chunk of run o makes of the screen of o. *)
Applied(s, o, chunk, t) ==
    /\ t \in Screen /\ OwnParts(t) /\ t.thread = o
    /\ \/ t.status \in {s.status, "running"}
       \/ t.status = "completed" /\ t.completed = o
       \/ t.status = "failed" /\ chunk = "RUN_ERROR"
    /\ t.completed = s.completed \/ (chunk = "run_completed" /\ t.completed = o)
    /\ t.safe_error = s.safe_error \/ chunk = "RUN_ERROR"

(* Every chunk only adds to the screen of its own run. *)
LEMMA ApplyAddsToItsOwnScreen ==
    ASSUME NEW s \in Screen, OwnParts(s), NEW o \in Runs, s.thread = o, NEW chunk \in Chunks
    PROVE  Applied(s, o, chunk, Apply(s, o, chunk))
  <1> DEFINE t == Apply(s, o, chunk)
  <1>0. DOMAIN PhaseOf = {"phase_plan", "phase_do", "phase_check", "phase_explain"}
    BY DEF PhaseOf
  <1>1. CASE chunk \in {"RUN_STARTED", "run_started"}
    <2>1. t = [s EXCEPT !.status = "running", !.thread = o, !.server_run = o]
      BY <1>0, <1>1 DEF Apply
    <2> HIDE DEF t
    <2>2. t \in Screen
      <3> DEFINE a == [s EXCEPT !.status = "running"]
                 b == [a EXCEPT !.thread = o]
      <3>1. a \in Screen
        BY DEF Screen
      <3>2. t = [b EXCEPT !.server_run = o]
        BY <2>1 DEF Screen
      <3> HIDE DEF a
      <3>3. b \in Screen
        BY <3>1 DEF Screen
      <3> HIDE DEF b
      <3> QED
        BY <3>2, <3>3 DEF Screen
    <2>3. t.status = "running" /\ t.safe_error = s.safe_error /\ t.thread = o
      BY <2>1 DEF Screen
    <2>4. t.active_text = s.active_text /\ t.candidate = s.candidate /\ t.cause = s.cause
      BY <2>1 DEF Screen
    <2>5. t.checker = s.checker /\ t.explain = s.explain /\ t.completed = s.completed
      BY <2>1 DEF Screen
    <2>6. t.server_run \in {o, s.server_run, NoRun}
      BY <2>1 DEF Screen
    <2>7. OwnParts(t)
      BY <2>3, <2>4, <2>5, <2>6 DEF OwnParts
    <2>8. Applied(s, o, chunk, t)
      BY <2>2, <2>3, <2>4, <2>5, <2>6, <2>7, <1>1 DEF Applied
    <2> QED
      BY <2>8 DEF t
  <1>2. CASE chunk \in {"phase_plan", "phase_do", "phase_check", "phase_explain"}
    <2>1. PhaseOf[chunk] \in TimelinePhases
      BY <1>2 DEF PhaseOf, TimelinePhases
    <2>2. t = AtPhase(s, PhaseOf[chunk])
      BY <1>0, <1>2 DEF Apply
    <2> HIDE DEF t
    <2>3. /\ t \in Screen /\ t.status = s.status /\ t.safe_error = s.safe_error
          /\ t.thread = s.thread /\ t.completed = s.completed /\ OwnParts(t)
      BY <2>1, <2>2, PhaseScreen
    <2>4. Applied(s, o, chunk, t)
      BY <2>3 DEF Applied
    <2> QED
      BY <2>4 DEF t
  <1>3. CASE chunk = "text_start"
    <2>1. t = [s EXCEPT !.active_text = o, !.candidate = NoRun]
      BY <1>0, <1>3 DEF Apply
    <2> HIDE DEF t
    <2>2. t \in Screen
      BY <2>1 DEF Screen
    <2>3. t.status = s.status /\ t.safe_error = s.safe_error /\ t.thread = o
      BY <2>1 DEF Screen
    <2>4. t.server_run = s.server_run /\ t.cause = s.cause /\ t.checker = s.checker
      BY <2>1 DEF Screen
    <2>5. t.explain = s.explain /\ t.completed = s.completed
      BY <2>1 DEF Screen
    <2>6. t.active_text \in {o, s.active_text, NoRun} /\ t.candidate \in {o, s.candidate, NoRun}
      BY <2>1 DEF Screen
    <2>7. OwnParts(t)
      BY <2>3, <2>4, <2>5, <2>6 DEF OwnParts
    <2>8. Applied(s, o, chunk, t)
      BY <2>2, <2>3, <2>4, <2>5, <2>6, <2>7, <1>3 DEF Applied
    <2> QED
      BY <2>8 DEF t
  <1>4. CASE chunk = "text_content"
    <2>1. t = [s EXCEPT !.candidate = IF s.active_text = o THEN o ELSE @]
      BY <1>0, <1>4 DEF Apply
    <2> HIDE DEF t
    <2>2. t \in Screen
      BY <2>1 DEF Screen
    <2>3. t.status = s.status /\ t.safe_error = s.safe_error /\ t.thread = o
      BY <2>1 DEF Screen
    <2>4. t.server_run = s.server_run /\ t.active_text = s.active_text /\ t.cause = s.cause
      BY <2>1 DEF Screen
    <2>5. t.checker = s.checker /\ t.explain = s.explain /\ t.completed = s.completed
      BY <2>1 DEF Screen
    <2>6. t.candidate \in {o, s.candidate, NoRun}
      BY <2>1 DEF Screen
    <2>7. OwnParts(t)
      BY <2>3, <2>4, <2>5, <2>6 DEF OwnParts
    <2>8. Applied(s, o, chunk, t)
      BY <2>2, <2>3, <2>4, <2>5, <2>6, <2>7, <1>4 DEF Applied
    <2> QED
      BY <2>8 DEF t
  <1>5. CASE chunk = "text_end"
    <2>1. t = [s EXCEPT !.active_text = IF @ = o THEN NoRun ELSE @]
      BY <1>0, <1>5 DEF Apply
    <2> HIDE DEF t
    <2>2. t \in Screen
      BY <2>1 DEF Screen
    <2>3. t.status = s.status /\ t.safe_error = s.safe_error /\ t.thread = o
      BY <2>1 DEF Screen
    <2>4. t.server_run = s.server_run /\ t.candidate = s.candidate /\ t.cause = s.cause
      BY <2>1 DEF Screen
    <2>5. t.checker = s.checker /\ t.explain = s.explain /\ t.completed = s.completed
      BY <2>1 DEF Screen
    <2>6. t.active_text \in {o, s.active_text, NoRun}
      BY <2>1 DEF Screen
    <2>7. OwnParts(t)
      BY <2>3, <2>4, <2>5, <2>6 DEF OwnParts
    <2>8. Applied(s, o, chunk, t)
      BY <2>2, <2>3, <2>4, <2>5, <2>6, <2>7, <1>5 DEF Applied
    <2> QED
      BY <2>8 DEF t
  <1>6. CASE chunk = "cause"
    <2>1. t = [s EXCEPT !["cause"] = o]
      BY <1>0, <1>6 DEF Apply
    <2> HIDE DEF t
    <2>2. t \in Screen
      BY <2>1 DEF Screen
    <2>3. t.status = s.status /\ t.safe_error = s.safe_error /\ t.thread = o
      BY <2>1 DEF Screen
    <2>4. t.server_run = s.server_run /\ t.active_text = s.active_text /\ t.candidate = s.candidate
      BY <2>1 DEF Screen
    <2>5. t.checker = s.checker /\ t.explain = s.explain /\ t.completed = s.completed
      BY <2>1 DEF Screen
    <2>6. t.cause \in {o, s.cause, NoRun}
      BY <2>1 DEF Screen
    <2>7. OwnParts(t)
      BY <2>3, <2>4, <2>5, <2>6 DEF OwnParts
    <2>8. Applied(s, o, chunk, t)
      BY <2>2, <2>3, <2>4, <2>5, <2>6, <2>7, <1>6 DEF Applied
    <2> QED
      BY <2>8 DEF t
  <1>7. CASE chunk = "checker"
    <2>1. t = [s EXCEPT !["checker"] = o]
      BY <1>0, <1>7 DEF Apply
    <2> HIDE DEF t
    <2>2. t \in Screen
      BY <2>1 DEF Screen
    <2>3. t.status = s.status /\ t.safe_error = s.safe_error /\ t.thread = o
      BY <2>1 DEF Screen
    <2>4. t.server_run = s.server_run /\ t.active_text = s.active_text /\ t.candidate = s.candidate
      BY <2>1 DEF Screen
    <2>5. t.cause = s.cause /\ t.explain = s.explain /\ t.completed = s.completed
      BY <2>1 DEF Screen
    <2>6. t.checker \in {o, s.checker, NoRun}
      BY <2>1 DEF Screen
    <2>7. OwnParts(t)
      BY <2>3, <2>4, <2>5, <2>6 DEF OwnParts
    <2>8. Applied(s, o, chunk, t)
      BY <2>2, <2>3, <2>4, <2>5, <2>6, <2>7, <1>7 DEF Applied
    <2> QED
      BY <2>8 DEF t
  <1>8. CASE chunk = "explain"
    <2>1. t = [s EXCEPT !["explain"] = o]
      BY <1>0, <1>8 DEF Apply
    <2> HIDE DEF t
    <2>2. t \in Screen
      BY <2>1 DEF Screen
    <2>3. t.status = s.status /\ t.safe_error = s.safe_error /\ t.thread = o
      BY <2>1 DEF Screen
    <2>4. t.server_run = s.server_run /\ t.active_text = s.active_text /\ t.candidate = s.candidate
      BY <2>1 DEF Screen
    <2>5. t.cause = s.cause /\ t.checker = s.checker /\ t.completed = s.completed
      BY <2>1 DEF Screen
    <2>6. t.explain \in {o, s.explain, NoRun}
      BY <2>1 DEF Screen
    <2>7. OwnParts(t)
      BY <2>3, <2>4, <2>5, <2>6 DEF OwnParts
    <2>8. Applied(s, o, chunk, t)
      BY <2>2, <2>3, <2>4, <2>5, <2>6, <2>7, <1>8 DEF Applied
    <2> QED
      BY <2>8 DEF t
  <1>9. CASE chunk = "run_completed"
    <2> DEFINE a == AtPhase(s, "completed")
    <2>1. t = [a EXCEPT !.status = "completed", !.server_run = o, !.completed = o]
      BY <1>0, <1>9 DEF Apply
    <2>2. /\ a \in Screen /\ a.safe_error = s.safe_error
          /\ a.thread = o /\ OwnParts(a)
      BY PhaseScreen DEF TimelinePhases
    <2> HIDE DEF a, t
    <2>3. t \in Screen
      BY <2>1, <2>2 DEF Screen
    <2>4. t.status = "completed" /\ t.safe_error = s.safe_error /\ t.thread = o
      BY <2>1, <2>2 DEF Screen
    <2>5. t.server_run = o /\ t.completed = o
      BY <2>1, <2>2 DEF Screen
    <2>6. t.active_text = a.active_text /\ t.candidate = a.candidate /\ t.cause = a.cause
      BY <2>1, <2>2 DEF Screen
    <2>7. t.checker = a.checker /\ t.explain = a.explain
      BY <2>1, <2>2 DEF Screen
    <2>8. OwnParts(t)
      BY <2>2, <2>4, <2>5, <2>6, <2>7 DEF OwnParts
    <2>9. Applied(s, o, chunk, t)
      BY <1>9, <2>3, <2>4, <2>5, <2>8 DEF Applied
    <2> QED
      BY <2>9 DEF t
  <1>10. CASE chunk = "RUN_FINISHED"
    <2>1. t = [s EXCEPT !.server_run = o]
      BY <1>0, <1>10 DEF Apply
    <2> HIDE DEF t
    <2>2. t \in Screen
      BY <2>1 DEF Screen
    <2>3. t.status = s.status /\ t.safe_error = s.safe_error /\ t.thread = o
      BY <2>1 DEF Screen
    <2>4. t.active_text = s.active_text /\ t.candidate = s.candidate /\ t.cause = s.cause
      BY <2>1 DEF Screen
    <2>5. t.checker = s.checker /\ t.explain = s.explain /\ t.completed = s.completed
      BY <2>1 DEF Screen
    <2>6. t.server_run \in {o, s.server_run, NoRun}
      BY <2>1 DEF Screen
    <2>7. OwnParts(t)
      BY <2>3, <2>4, <2>5, <2>6 DEF OwnParts
    <2>8. Applied(s, o, chunk, t)
      BY <2>2, <2>3, <2>4, <2>5, <2>6, <2>7, <1>10 DEF Applied
    <2> QED
      BY <2>8 DEF t
  <1>11. CASE chunk = "RUN_ERROR"
    <2>1. t = Failed(s, "failed", "server_error")
      BY <1>0, <1>11 DEF Apply, RunError
    <2> HIDE DEF t
    <2>2. /\ t \in Screen /\ t.status = "failed" /\ t.thread = s.thread
          /\ t.completed = s.completed /\ OwnParts(t)
      BY <2>1, FailedScreen
    <2>3. Applied(s, o, chunk, t)
      BY <1>11, <2>2 DEF Applied
    <2> QED
      BY <2>3 DEF t
  <1> QED
    BY <1>1, <1>2, <1>3, <1>4, <1>5, <1>6, <1>7, <1>8, <1>9, <1>10, <1>11 DEF Chunks

-----------------------------------------------------------------------------
(* The host under the workspace. *)

Ending == {"draining", "over"}

(* The run has ended for a client that stays: its record is complete, or   *)
(* an error is on its way.                                                 *)
EndIsKnown(r) == registry[r].status = "completed" \/ ErrorIsDue(r)

(* What a step of the server means for whoever follows the run: the record *)
(* of an ending run is final, what was read to the end stays read, and a   *)
(* connected client gets to know the end.                                  *)
Follows(r) ==
    /\ server[r] # "absent" /\ server'[r] # "absent"
    /\ connected'[r] = connected[r]
    /\ server[r] \in Ending => server'[r] \in Ending /\ registry'[r] = registry[r]
    /\ registry[r].status = "completed" => registry'[r] = registry[r]
    /\ server[r] \in Ending /\ wire[r] = <<>> /\ pending[r] = <<>> =>
          wire'[r] = <<>> /\ pending'[r] = <<>>
    /\ connected[r] = TRUE /\ server'[r] \in Ending =>
          ((server[r] \in Ending => EndIsKnown(r)) => EndIsKnown(r)')

(* A step of the server is followed. *)
LEMMA ServerStepFollows ==
    ASSUME HostShape, NEW r \in Runs, RunTypeOK(r), RunInv(r), StreamInv(r), ServerStep(r)
    PROVE  Follows(r)
  <1>1. CASE Accept(r)
    BY <1>1 DEF Accept, HostShape, Follows, RunInv, NotFound, Ending
  <1>2. CASE Reject(r)
    <2>1. /\ server[r] = "requested" /\ server'[r] = "draining"
          /\ pending'[r] = <<"RUN_STARTED", "RUN_ERROR">>
          /\ registry' = registry /\ connected' = connected
      BY <1>2 DEF Reject, Suspend, HostShape
    <2>2. EndIsKnown(r)'
      BY <2>1, QueuedChunks DEF EndIsKnown, ErrorIsDue
    <2> QED
      BY <2>1, <2>2 DEF Follows, Ending
  <1>3. CASE StartGenerator(r)
    <2>1. /\ server[r] = "accepted" /\ server'[r] = "yielding"
          /\ connected' = connected
      BY <1>3 DEF StartGenerator, Suspend, HostShape
    <2>2. registry[r].status # "completed"
      BY <2>1 DEF RunInv, NotFound
    <2> QED
      BY <2>1, <2>2 DEF Follows, Ending
  <1>4. CASE SendChunk(r)
    <2>1. /\ server[r] \in {"yielding", "draining"} /\ pending[r] # <<>>
          /\ \/ server'[r] = server[r]
             \/ server[r] = "yielding" /\ server'[r] = "running"
             \/ server[r] = "draining" /\ server'[r] = "over"
          /\ registry' = registry /\ connected' = connected
      BY <1>4 DEF SendChunk, HostShape
    <2>2. ASSUME connected[r] = TRUE, ErrorIsDue(r)
          PROVE  ErrorIsDue(r)'
      <3>1. /\ wire'[r] = Append(wire[r], Head(pending[r]))
            /\ pending'[r] = Tail(pending[r])
        BY <1>4, <2>2 DEF SendChunk, HostShape
      <3>2. /\ wire[r] \in Seq(Chunks) /\ pending[r] \in Seq(Chunks)
            /\ Head(pending[r]) \in Chunks
        BY <2>1 DEF RunTypeOK
      <3>3. Has(wire[r], {"RUN_ERROR"}) => Has(wire'[r], {"RUN_ERROR"})
        BY <3>1, <3>2, AppendToQueue
      <3>4. Has(pending[r], {"RUN_ERROR"}) =>
               Head(pending[r]) \in {"RUN_ERROR"} \/ Has(pending'[r], {"RUN_ERROR"})
        BY <2>1, <3>1, <3>2, TailOfQueue
      <3>5. Head(pending[r]) \in {"RUN_ERROR"} => Has(wire'[r], {"RUN_ERROR"})
        BY <3>1, <3>2, AppendToQueue
      <3> QED
        BY <2>2, <3>3, <3>4, <3>5 DEF ErrorIsDue
    <2>3. (connected[r] = TRUE /\ server'[r] \in Ending /\ (server[r] \in Ending => EndIsKnown(r)))
          => EndIsKnown(r)'
      BY <2>1, <2>2 DEF EndIsKnown, Ending
    <2> QED
      BY <2>1, <2>3 DEF Follows, Ending
  <1>5. CASE RunnerYields(r)
    <2>1. /\ server[r] = "running" /\ server'[r] = "yielding"
          /\ registry' = registry /\ connected' = connected
      BY <1>5 DEF RunnerYields, Suspend, HostShape
    <2> QED
      BY <2>1 DEF Follows, Ending
  <1>6. CASE RunnerCompletes(r)
    <2>1. /\ server[r] = "running" /\ server'[r] = "draining"
          /\ registry'[r].status = "completed" /\ connected' = connected
      BY <1>6 DEF RunnerCompletes, RegisterComplete, Suspend, HostShape
    <2>2. registry[r].status = "in_progress"
      BY <2>1 DEF RunInv
    <2>3. EndIsKnown(r)'
      BY <2>1 DEF EndIsKnown
    <2> QED
      BY <2>1, <2>2, <2>3 DEF Follows, Ending
  <1>7. CASE RunnerRaises(r)
    <2>1. /\ server[r] = "running" /\ server'[r] = "draining"
          /\ pending'[r] = <<"RUN_ERROR">> /\ connected' = connected
      BY <1>7 DEF RunnerRaises, Suspend, HostShape
    <2>2. registry[r].status = "in_progress"
      BY <2>1 DEF RunInv
    <2>3. EndIsKnown(r)'
      BY <2>1, QueuedChunks DEF EndIsKnown, ErrorIsDue
    <2> QED
      BY <2>1, <2>2, <2>3 DEF Follows, Ending
  <1>8. CASE CancelledInGenerator(r)
    <2>1. /\ server[r] = "running" /\ server'[r] = "over"
          /\ connected[r] # TRUE /\ connected' = connected
      BY <1>8 DEF CancelledInGenerator, HostShape
    <2>2. registry[r].status = "in_progress"
      BY <2>1 DEF RunInv
    <2> QED
      BY <2>1, <2>2 DEF Follows, Ending
  <1>9. CASE ClosedAtAYield(r)
    <2>1. /\ server[r] \in {"accepted", "yielding", "draining"} /\ server'[r] = "over"
          /\ connected[r] # TRUE /\ connected' = connected
          /\ registry' = registry /\ wire' = wire /\ pending'[r] = <<>>
      BY <1>9 DEF ClosedAtAYield, Suspend, HostShape
    <2> QED
      BY <2>1 DEF Follows, Ending
  <1> QED
    BY <1>1, <1>2, <1>3, <1>4, <1>5, <1>6, <1>7, <1>8, <1>9 DEF ServerStep

HostSide == HostInv /\ StreamsInv

(* What is kept by a step of the host's own is kept by those of the        *)
(* workspace.                                                              *)
LEMMA HostSideKept ==
    ASSUME HostSide, ClientTypeOK, [WorkspaceNext]_workspaceVars
    PROVE  HostSide'
  <1>1. CASE [HostNext]_hostVars
    BY <1>1, HostInvInductive, StreamsInvInductive DEF HostSide
  <1>2. ASSUME NEW o \in Runs, Observe(o)
        PROVE  HostSide'
    <2>1. HostShape /\ \A q \in Runs : RunTypeOK(q) /\ RunInv(q) /\ StreamInv(q)
      BY PerRun DEF PerRunInv, HostSide, StreamsInv
    <2>2. HostShape'
      BY <1>2, <2>1 DEF Observe, HostShape
    <2>3. ASSUME NEW q \in Runs
          PROVE  RunTypeOK(q)' /\ RunInv(q)' /\ StreamInv(q)'
      <3>1. /\ registry'[q] = registry[q] /\ pending'[q] = pending[q]
            /\ progress'[q] = progress[q]
            /\ wire'[q] = wire[q] \/ wire'[q] = <<>>
            /\ server'[q] = server[q] \/ (server[q] = "absent" /\ server'[q] = "requested")
            /\ connected'[q] \in BOOLEAN
        BY <1>2, <2>1 DEF Observe, HostShape, RunTypeOK
      <3>2. RunTypeOK(q)'
        <4>1. wire[q] \in Seq(Chunks) /\ <<>> \in Seq(Chunks)
          BY <2>1 DEF RunTypeOK
        <4>2. wire'[q] \in Seq(Chunks)
          BY <3>1, <4>1, Zenon
        <4>3. server'[q] \in ServerStates
          BY <2>1, <3>1 DEF RunTypeOK, ServerStates
        <4> QED
          BY <2>1, <3>1, <4>2, <4>3, Zenon DEF RunTypeOK
      <3>3. RunInv(q)'
        <4>1. Announces(wire'[q]) => Announces(wire[q])
          BY <3>1, NothingAnnounced
        <4> QED
          BY <2>1, <3>1, <4>1, Zenon DEF RunInv
      <3>4. StreamInv(q)'
        <4>1. /\ Has(wire'[q], LastChunks) => Has(wire[q], LastChunks)
              /\ Has(wire'[q], {"RUN_ERROR"}) => Has(wire[q], {"RUN_ERROR"})
              /\ EndsLast(wire[q]) => EndsLast(wire'[q])
          BY <3>1, QueuedChunks
        <4> QED
          BY <2>1, <3>1, <4>1 DEF StreamInv
      <3> QED
        BY <3>2, <3>3, <3>4
    <2> QED
      <3>1. PerRunInv' /\ StreamsInv'
        BY <2>2, <2>3 DEF PerRunInv, StreamsInv
      <3>2. HostInv'
        BY <3>1, PerRun, PTL
      <3> QED
        BY <3>1, <3>2 DEF HostSide
  <1>3. ASSUME NEW o \in Runs, StreamEnds(o)
        PROVE  HostSide'
    <2>1. /\ UNCHANGED <<registry, server, pending, progress, wire>>
          /\ connected' = [connected EXCEPT ![o] = FALSE]
      BY <1>3 DEF StreamEnds
    <2>2. HostInv'
      <3>1. HostTypeOK'
        BY <2>1 DEF HostSide, HostInv, HostTypeOK
      <3>2. UnsettledWhileRunning' /\ AnnouncedOnlyIfRecorded'
        BY <2>1 DEF HostSide, HostInv, UnsettledWhileRunning, AnnouncedOnlyIfRecorded,
                    Announces
      <3> QED
        BY <3>1, <3>2 DEF HostInv
    <2>3. StreamsInv'
      BY <2>1 DEF HostSide, StreamsInv, StreamInv, Has, EndsLast
    <2> QED
      BY <2>2, <2>3 DEF HostSide
  <1>4. ASSUME NEW o \in Runs, \/ ServerSide(o) \/ StreamEvent(o) \/ StreamFails(o)
                               \/ Reconcile(o) \/ ReconcileFails(o) \/ AbortHandled(o)
        PROVE  [HostNext]_hostVars
    BY <1>4 DEF ServerSide, StreamEvent, StreamFails, Reconcile, ReconcileFails,
                AbortHandled, HostNext
  <1>5. CASE ScenariosArrive \/ ScenariosMissing \/ UNCHANGED workspaceVars
    BY <1>1, <1>5 DEF ScenariosArrive, ScenariosMissing, workspaceVars
  <1> QED
    BY <1>1, <1>2, <1>3, <1>4, <1>5 DEF WorkspaceNext

-----------------------------------------------------------------------------
(* The workspace. *)

(* The invariant holds before the list of conversations arrives. *)
LEMMA ObserverInitially == WorkspaceInit => HostSide /\ ObserverInv
  <1> SUFFICES ASSUME WorkspaceInit
               PROVE  HostSide /\ ObserverInv
    OBVIOUS
  <1>1. HostSide
    BY InitHostInv, StreamsInvInitially DEF WorkspaceInit, HostSide
  <1>2. ClientTypeOK
    <2>1. screen \in Screen
      BY DEF WorkspaceInit, BlankScreen, Screen
    <2>2. coordinator \in [Runs -> Coordinator]
      BY DEF WorkspaceInit, CoordinatorAt, Coordinator
    <2> QED
      BY <2>1, <2>2 DEF WorkspaceInit, ClientTypeOK
  <1>3. ASSUME NEW o \in Runs
        PROVE  FollowInv(o)
    BY NoRunAssumption DEF WorkspaceInit, HostInit, CoordinatorAt, FollowInv
  <1>4. ScreenInv
    BY DEF WorkspaceInit, HostInit, BlankScreen, ScreenInv, OwnParts
  <1> QED
    BY <1>1, <1>2, <1>3, <1>4 DEF ObserverInv

(* Whatever is known of a run at its end stays so. *)
Remembered(q) ==
    /\ server[q] # "absent" => server'[q] # "absent"
    /\ registry[q].status = "completed" => registry'[q] = registry[q]
    /\ server[q] \in Ending => server'[q] \in Ending /\ registry'[q] = registry[q]

(* What the host knew of a run before, it knows after any step. *)
LEMMA NothingIsForgotten ==
    ASSUME HostSide, [WorkspaceNext]_workspaceVars, NEW q \in Runs
    PROVE  Remembered(q)
  <1>1. HostShape /\ \A r \in Runs : RunTypeOK(r) /\ RunInv(r) /\ StreamInv(r)
    BY PerRun DEF PerRunInv, HostSide, StreamsInv
  <1>2. ASSUME NEW r \in Runs, ServerStep(r)
        PROVE  Remembered(q)
    <2>1. CASE q = r
      BY <1>1, <1>2, <2>1, ServerStepFollows DEF Follows, Remembered
    <2>2. CASE q # r
      <3>1. Untouched(q)
        BY <1>1, <1>2, <2>2, OnlyOneRunMoves
      <3> QED
        BY <3>1 DEF Untouched, Remembered
    <2> QED
      BY <2>1, <2>2
  <1>3. ASSUME NEW o \in Runs, Observe(o)
        PROVE  Remembered(q)
    <2>1. registry' = registry /\ (server'[q] = server[q] \/ (server[q] = "absent" /\ q = o))
      BY <1>1, <1>3 DEF Observe, HostShape
    <2> QED
      BY <2>1 DEF Remembered, Ending
  <1>4. CASE UNCHANGED <<registry, server>>
    BY <1>4 DEF Remembered
  <1>5. ASSUME NEW o \in Runs, \/ StreamEvent(o) \/ StreamEnds(o) \/ StreamFails(o)
                               \/ Reconcile(o) \/ ReconcileFails(o) \/ AbortHandled(o)
        PROVE  UNCHANGED <<registry, server>>
    BY <1>5 DEF StreamEvent, StreamEnds, StreamFails, Reconcile, ReconcileFails,
                AbortHandled, Read, GoAway, hostVars
  <1>6. CASE ScenariosArrive \/ ScenariosMissing \/ UNCHANGED workspaceVars
    BY <1>4, <1>6 DEF ScenariosArrive, ScenariosMissing, workspaceVars, hostVars
  <1> QED
    BY <1>2, <1>3, <1>4, <1>5, <1>6 DEF WorkspaceNext, ServerSide

(* A coordinator that does nothing, of a run nothing happens to.           *)
LEMMA OthersFollow ==
    ASSUME NEW q \in Runs, FollowInv(q), Untouched(q),
           coordinator'[q] = coordinator[q], current' = q <=> current = q
    PROVE  FollowInv(q)'
  BY DEF FollowInv, Untouched, ErrorIsDue, Has

(* A screen nothing happens to. *)
LEMMA ScreenStays ==
    ASSUME ClientTypeOK, ScreenInv, \A q \in Runs : Remembered(q),
           screen' = screen, current' \in {current, NoRun},
           current' # NoRun => coordinator'[current] = coordinator[current],
           scenarios' # "listed" => \A o \in Runs : server'[o] = "absent",
           scenarios' # "listed" => scenarios # "listed"
    PROVE  ScreenInv'
  <1>1. /\ screen.thread \in Runs \cup {NoRun} /\ screen.completed \in Runs \cup {NoRun}
        /\ screen.status # "cancelled"
    BY DEF ClientTypeOK, Screen, ScreenInv
  <1>2. OwnParts(screen')
    BY DEF ScreenInv
  <1>3. /\ screen.thread # NoRun => server'[screen.thread] # "absent"
        /\ screen.completed # NoRun => registry'[screen.completed].status = "completed"
    BY <1>1 DEF ScreenInv, Remembered
  <1>4. screen.safe_error = "server_error" =>
          /\ screen.thread # NoRun
          /\ server'[screen.thread] \in {"draining", "over"}
          /\ registry'[screen.thread] = NotFound \/ registry'[screen.thread].status = "failed"
    BY <1>1 DEF ScreenInv, Remembered, Ending
  <1> QED
    BY <1>1, <1>2, <1>3, <1>4 DEF ScreenInv

(* ServerSide *)
LEMMA ServerSideObserved ==
    ASSUME HostSide, ObserverInv, NEW r \in Runs, ServerSide(r)
    PROVE  ObserverInv'
  <1>1. HostShape /\ \A q \in Runs : RunTypeOK(q) /\ RunInv(q) /\ StreamInv(q)
    BY PerRun DEF PerRunInv, HostSide, StreamsInv
  <1>2. ServerStep(r) /\ UNCHANGED <<screen, current, coordinator, scenarios>>
    BY DEF ServerSide, clientVars
  <1>3. ClientTypeOK'
    BY <1>2 DEF ObserverInv, ClientTypeOK
  <1>4. Follows(r) /\ FollowInv(r)
    BY <1>1, <1>2, ServerStepFollows DEF ObserverInv
  <1>5. FollowInv(r)'
    <2>1. coordinator[r].stage # "idle" /\ server'[r] # "absent"
      BY <1>4 DEF Follows, FollowInv
    <2>2. ASSUME coordinator[r].stage = "streaming", server'[r] \in Ending,
                 coordinator[r].received_run_error # TRUE
          PROVE  EndIsKnown(r)'
      BY <1>4, <2>2 DEF Follows, FollowInv, EndIsKnown, Ending
    <2>3. connected'[r] = connected[r]
      BY <1>4 DEF Follows
    <2>4. coordinator[r].received_run_error = TRUE =>
             wire'[r] = <<>> /\ pending'[r] = <<>> /\ server'[r] \in Ending
      BY <1>4 DEF Follows, FollowInv, Ending
    <2>5. coordinator[r].stage = "reconciling" => registry'[r].status = "completed"
      BY <1>4 DEF Follows, FollowInv
    <2> QED
      BY <1>2, <1>4, <2>1, <2>2, <2>3, <2>4, <2>5 DEF FollowInv, EndIsKnown, Ending
  <1>6. ASSUME NEW q \in Runs
        PROVE  FollowInv(q)'
    <2>1. CASE q # r
      <3>1. Untouched(q) /\ FollowInv(q)
        BY <1>1, <1>2, <2>1, OnlyOneRunMoves DEF ObserverInv
      <3> QED
        BY <1>2, <3>1, OthersFollow
    <2> QED
      BY <1>5, <2>1
  <1>7. ScreenInv'
    <2>1. \A q \in Runs : Remembered(q)
      BY NothingIsForgotten DEF WorkspaceNext
    <2>2. scenarios = "listed"
      BY <1>4 DEF ObserverInv, ScreenInv, Follows
    <2> QED
      BY <1>2, <2>1, <2>2, ScreenStays DEF ObserverInv
  <1> QED
    BY <1>3, <1>6, <1>7 DEF ObserverInv

(* A coordinator at another stage is of the same run and knows the same.   *)
LEMMA CoordinatorAtStage ==
    ASSUME NEW c \in Coordinator, NEW stage \in {"idle", "streaming", "aborted",
                                                "reconciling", "done"}
    PROVE  LET d == [c EXCEPT !.stage = stage]
           IN  /\ d \in Coordinator /\ d.stage = stage
               /\ d.latest_server_run = c.latest_server_run
               /\ d.received_run_error = c.received_run_error
  BY DEF Coordinator

(* Observe *)
LEMMA ObserveObserved ==
    ASSUME HostSide, ObserverInv, NEW o \in Runs, Observe(o)
    PROVE  ObserverInv'
  <1>1. HostShape /\ \A q \in Runs : RunTypeOK(q) /\ RunInv(q) /\ StreamInv(q)
    BY PerRun DEF PerRunInv, HostSide, StreamsInv
  <1>2. ClientTypeOK /\ ScreenInv /\ \A q \in Runs : FollowInv(q)
    BY DEF ObserverInv
  <1>3. /\ server[o] = "absent" /\ server'[o] = "requested"
        /\ registry' = registry /\ pending' = pending
        /\ current' = o /\ screen' = BlankScreen("running", o)
        /\ scenarios' = scenarios /\ scenarios = "listed"
    BY <1>1 DEF Observe, HostShape
  <1>4. coordinator'[o] = CoordinatorAt("streaming") /\ connected'[o] = TRUE
    BY DEF Observe
  <1>5. current # o
    BY <1>2, <1>3 DEF FollowInv
  <1>6. ASSUME NEW q \in Runs, q # o
        PROVE  /\ server'[q] = server[q]
               /\ q # current => /\ coordinator'[q] = coordinator[q] /\ wire'[q] = wire[q]
                                 /\ connected'[q] = connected[q]
               /\ q = current /\ coordinator[q].stage = "streaming" =>
                     coordinator'[q] = [coordinator[q] EXCEPT !.stage = "aborted"]
               /\ q = current /\ coordinator[q].stage # "streaming" =>
                     coordinator'[q] = coordinator[q]
               /\ q = current => wire'[q] = <<>>
    BY <1>1, <1>6 DEF Observe, HostShape, RunTypeOK
  <1>7. ClientTypeOK'
    <2>1. screen' \in Screen
      BY <1>3 DEF BlankScreen, Screen
    <2>2. CoordinatorAt("streaming") \in Coordinator
      BY DEF CoordinatorAt, Coordinator
    <2>3. \A q \in Runs : coordinator[q] \in Coordinator
      BY <1>2 DEF ClientTypeOK
    <2>4. ASSUME NEW q \in Runs
          PROVE  coordinator'[q] \in Coordinator
      <3>1. CASE q = o
        BY <1>4, <2>2, <3>1
      <3>2. CASE q # o /\ q = current /\ coordinator[q].stage = "streaming"
        <4>1. coordinator'[q] = [coordinator[q] EXCEPT !.stage = "aborted"]
          BY <1>6, <3>2
        <4> QED
          BY <2>3, <4>1 DEF Coordinator
      <3>3. CASE q # o /\ ~(q = current /\ coordinator[q].stage = "streaming")
        <4>1. coordinator'[q] = coordinator[q]
          BY <1>6, <3>3
        <4> QED
          BY <2>3, <4>1
      <3> QED
        BY <3>1, <3>2, <3>3
    <2>5. coordinator' = [q \in Runs |-> coordinator'[q]]
      BY DEF Observe
    <2> QED
      BY <1>2, <1>3, <2>1, <2>4, <2>5 DEF ClientTypeOK
  <1>8. FollowInv(o)'
    <2>1. /\ coordinator'[o].stage = "streaming"
          /\ coordinator'[o].latest_server_run = NoRun
          /\ coordinator'[o].received_run_error = FALSE
      BY <1>4 DEF CoordinatorAt
    <2> QED
      BY <1>3, <1>4, <2>1 DEF FollowInv
  <1>9. ASSUME NEW q \in Runs, q # o
        PROVE  FollowInv(q)'
    <2>1. FollowInv(q) /\ coordinator[q] \in Coordinator
      BY <1>2 DEF ClientTypeOK
    <2>2. CASE q # current
      <3>1. /\ server'[q] = server[q] /\ coordinator'[q] = coordinator[q]
            /\ wire'[q] = wire[q] /\ connected'[q] = connected[q]
        BY <1>6, <1>9, <2>2
      <3> QED
        BY <1>3, <1>9, <2>1, <2>2, <3>1 DEF FollowInv, ErrorIsDue, Has
    <2>3. CASE q = current
      <3>1. coordinator[q].stage \in {"streaming", "reconciling"}
        BY <2>1, <2>3 DEF FollowInv
      <3>2. coordinator[q].stage = "streaming" =>
               /\ coordinator'[q].stage = "aborted"
               /\ coordinator'[q].latest_server_run = coordinator[q].latest_server_run
               /\ coordinator'[q].received_run_error = coordinator[q].received_run_error
        <4> SUFFICES ASSUME coordinator[q].stage = "streaming"
                     PROVE  /\ coordinator'[q].stage = "aborted"
                            /\ coordinator'[q].latest_server_run =
                                  coordinator[q].latest_server_run
                            /\ coordinator'[q].received_run_error =
                                  coordinator[q].received_run_error
          OBVIOUS
        <4>1. coordinator'[q] = [coordinator[q] EXCEPT !.stage = "aborted"]
          BY <1>6, <1>9, <2>3
        <4> QED
          BY <2>1, <4>1 DEF Coordinator
      <3>3. /\ server'[q] = server[q] /\ wire'[q] = <<>>
            /\ coordinator'[q].latest_server_run = coordinator[q].latest_server_run
            /\ coordinator'[q].received_run_error = coordinator[q].received_run_error
            /\ coordinator'[q].stage \in {"aborted", "reconciling"}
            /\ coordinator'[q].stage = "reconciling" => coordinator[q].stage = "reconciling"
        BY <1>6, <1>9, <2>3, <3>1, <3>2
      <3> QED
        BY <1>3, <1>9, <2>1, <3>1, <3>3 DEF FollowInv
    <2> QED
      BY <2>2, <2>3
  <1>10. ScreenInv'
    <2>1. /\ screen'.status = "running" /\ screen'.thread = o /\ screen'.completed = NoRun
          /\ screen'.safe_error = "none" /\ OwnParts(screen')
      BY <1>3 DEF BlankScreen, OwnParts
    <2> QED
      BY <1>3, <2>1 DEF ScreenInv
  <1> QED
    BY <1>7, <1>8, <1>9, <1>10 DEF ObserverInv

(* StreamEvent *)
LEMMA StreamEventObserved ==
    ASSUME HostSide, ObserverInv, NEW o \in Runs, StreamEvent(o)
    PROVE  ObserverInv'
  <1> DEFINE chunk == Head(wire[o])
             t == Apply(screen, o, chunk)
  <1>1. HostShape /\ \A q \in Runs : RunTypeOK(q) /\ RunInv(q) /\ StreamInv(q)
    BY PerRun DEF PerRunInv, HostSide, StreamsInv
  <1>2. ClientTypeOK /\ ScreenInv /\ \A q \in Runs : FollowInv(q)
    BY DEF ObserverInv
  <1>3. /\ coordinator[o].stage = "streaming" /\ Read(o)
        /\ wire[o] # <<>> /\ wire'[o] = Tail(wire[o])
        /\ UNCHANGED <<registry, server, pending, progress, connected, current, scenarios>>
    BY <1>1 DEF StreamEvent, Read, HostShape
  <1>4. /\ coordinator'[o].stage = "streaming"
        /\ coordinator'[o].latest_server_run \in {NoRun, o}
        /\ coordinator'[o].received_run_error \in BOOLEAN
        /\ coordinator'[o].received_run_error = TRUE <=>
              (coordinator[o].received_run_error = TRUE \/ chunk = "RUN_ERROR")
        /\ \A q \in Runs \ {o} : coordinator'[q] = coordinator[q]
        /\ coordinator' \in [Runs -> Coordinator]
    <2> DEFINE c == coordinator[o]
               lsr == IF chunk \in {"RUN_STARTED", "run_started", "run_completed",
                                    "RUN_FINISHED"} THEN o ELSE c.latest_server_run
               rre == c.received_run_error \/ chunk = "RUN_ERROR"
    <2>1. coordinator' = [coordinator EXCEPT ![o] =
             [c EXCEPT !.latest_server_run = lsr, !.received_run_error = rre]]
      BY <1>2 DEF StreamEvent, ClientTypeOK
    <2>2. /\ c \in Coordinator /\ coordinator \in [Runs -> Coordinator]
          /\ c.latest_server_run \in {NoRun, o}
      BY <1>2 DEF ClientTypeOK, FollowInv
    <2>3. lsr \in {NoRun, o} /\ rre \in BOOLEAN
      BY <2>2
    <2>4. rre <=> (c.received_run_error = TRUE \/ chunk = "RUN_ERROR")
      <3>1. c.received_run_error \in BOOLEAN
        BY <2>2 DEF Coordinator
      <3> QED
        BY <3>1, Zenon
    <2> HIDE DEF lsr, rre, c
    <2> DEFINE d == [c EXCEPT !.latest_server_run = lsr, !.received_run_error = rre]
    <2>5. /\ d \in Coordinator /\ d.stage = c.stage
          /\ d.latest_server_run = lsr /\ d.received_run_error = rre
      BY <2>2, <2>3 DEF Coordinator
    <2> HIDE DEF d
    <2>6. coordinator'[o] = d /\ \A q \in Runs \ {o} : coordinator'[q] = coordinator[q]
      BY <2>1, <2>2 DEF d
    <2>7. coordinator' \in [Runs -> Coordinator]
      BY <2>1, <2>2, <2>5 DEF d
    <2>8. d.received_run_error \in BOOLEAN /\ (d.received_run_error = TRUE <=> rre)
      BY <2>3, <2>5, Zenon
    <2>9. coordinator[o].received_run_error = TRUE <=> c.received_run_error = TRUE
      BY DEF c
    <2> QED
      BY <1>3, <2>3, <2>4, <2>5, <2>6, <2>7, <2>8, <2>9 DEF c
  <1>5. current = o /\ screen' = t /\ coordinator[o].received_run_error # TRUE
    BY <1>2, <1>3 DEF StreamEvent, Dispatch, FollowInv
  <1>6. /\ wire[o] \in Seq(Chunks) /\ chunk \in Chunks
        /\ chunk \in {"RUN_ERROR"} => Has(wire[o], {"RUN_ERROR"})
        /\ chunk \in LastChunks => Has(wire[o], LastChunks) /\ Tail(wire[o]) = <<>>
        /\ Has(wire[o], {"RUN_ERROR"}) =>
              chunk \in {"RUN_ERROR"} \/ Has(Tail(wire[o]), {"RUN_ERROR"})
    BY <1>1, <1>3, TailOfQueue DEF RunTypeOK, StreamInv
  <1>7. Applied(screen, o, chunk, t)
    BY <1>2, <1>5, <1>6, NoRunAssumption, ApplyAddsToItsOwnScreen DEF ClientTypeOK, ScreenInv
  <1>8. chunk = "RUN_ERROR" =>
           /\ server[o] \in {"draining", "over"} /\ pending[o] = <<>>
           /\ Tail(wire[o]) = <<>>
           /\ registry[o] = NotFound \/ registry[o].status = "failed"
    BY <1>1, <1>6 DEF StreamInv, LastChunks
  <1>9. chunk = "run_completed" => registry[o].status = "completed"
    BY <1>1, <1>3, <1>6, AnnouncesHead DEF RunInv, EndChunks
  <1> HIDE DEF chunk, t
  <1>10. ClientTypeOK'
    BY <1>2, <1>3, <1>4, <1>5, <1>7 DEF ClientTypeOK, Applied
  <1>11. FollowInv(o)'
    BY <1>2, <1>3, <1>4, <1>5, <1>6, <1>8 DEF FollowInv, ErrorIsDue
  <1>12. ASSUME NEW q \in Runs, q # o
         PROVE  FollowInv(q)'
    <2>1. Untouched(q) /\ FollowInv(q)
      BY <1>1, <1>2, <1>3, <1>12, OnlyOneRunMoves
    <2> QED
      BY <1>3, <1>4, <1>12, <2>1, OthersFollow
  <1>13. ScreenInv'
    <2>1. /\ OwnParts(t) /\ t.thread = o /\ screen.thread = o
          /\ server[o] # "absent" /\ screen.status \notin {"failed", "cancelled"}
          /\ scenarios = "listed"
      BY <1>2, <1>3, <1>5, <1>7, NoRunAssumption DEF Applied, ScreenInv, FollowInv
    <2>2. t.status # "cancelled" /\ (t.status = "failed" => chunk = "RUN_ERROR")
      BY <1>7, <2>1 DEF Applied
    <2>3. t.completed # NoRun => registry[t.completed].status = "completed"
      BY <1>2, <1>7, <1>9 DEF Applied, ScreenInv
    <2>4. t.status = "completed" => t.completed = o
      BY <1>2, <1>7, <2>1 DEF Applied, ScreenInv
    <2>5. t.safe_error = "server_error" =>
             /\ server[o] \in {"draining", "over"}
             /\ registry[o] = NotFound \/ registry[o].status = "failed"
      BY <1>2, <1>7, <1>8, <2>1 DEF Applied, ScreenInv
    <2> QED
      BY <1>3, <1>4, <1>5, <2>1, <2>2, <2>3, <2>4, <2>5, NoRunAssumption DEF ScreenInv
  <1> QED
    BY <1>10, <1>11, <1>12, <1>13 DEF ObserverInv

(* Return *)
LEMMA Returned ==
    ASSUME ClientTypeOK, NEW o \in Runs, Return(o)
    PROVE  /\ coordinator' \in [Runs -> Coordinator]
           /\ coordinator'[o].stage = "done"
           /\ coordinator'[o].latest_server_run = coordinator[o].latest_server_run
           /\ coordinator'[o].received_run_error = coordinator[o].received_run_error
           /\ \A q \in Runs \ {o} : coordinator'[q] = coordinator[q]
           /\ current' \in Runs \cup {NoRun}
           /\ current' # o
           /\ \A q \in Runs \ {o} : current' = q <=> current = q
           /\ current' \in {current, NoRun}
  <1>1. coordinator \in [Runs -> Coordinator] /\ coordinator[o] \in Coordinator
    BY DEF ClientTypeOK
  <1>2. coordinator' = [coordinator EXCEPT ![o] = [coordinator[o] EXCEPT !.stage = "done"]]
    BY DEF Return
  <1>3. /\ coordinator'[o] = [coordinator[o] EXCEPT !.stage = "done"]
        /\ \A q \in Runs \ {o} : coordinator'[q] = coordinator[q]
    BY <1>1, <1>2
  <1>4. coordinator' \in [Runs -> Coordinator]
    BY <1>1, <1>2, CoordinatorAtStage
  <1>5. current' = IF current = o THEN NoRun ELSE current
    BY DEF Return
  <1> QED
    BY <1>1, <1>3, <1>4, <1>5, CoordinatorAtStage, NoRunAssumption DEF ClientTypeOK

(* A coordinator that has returned, and the others, of runs that stay as   *)
(* they are on the server.                                                 *)
LEMMA FollowedAfterReturn ==
    ASSUME ClientTypeOK, \A q \in Runs : FollowInv(q), NEW o \in Runs, Return(o),
           server[o] # "absent",
           UNCHANGED <<registry, server, pending>>,
           wire'[o] = wire[o] \/ wire'[o] = <<>>,
           \A q \in Runs \ {o} : wire'[q] = wire[q] /\ connected'[q] = connected[q]
    PROVE  \A q \in Runs : FollowInv(q)'
  <1>1. FollowInv(o)'
    BY Returned DEF FollowInv
  <1>2. ASSUME NEW q \in Runs, q # o
        PROVE  FollowInv(q)'
    <2>1. /\ coordinator'[q] = coordinator[q]
          /\ current' = q <=> current = q
          /\ wire'[q] = wire[q] /\ connected'[q] = connected[q] /\ FollowInv(q)
      BY <1>2, Returned
    <2> QED
      BY <2>1 DEF FollowInv, ErrorIsDue, Has
  <1> QED
    BY <1>1, <1>2

(* A screen that stays when a coordinator returns. *)
LEMMA ScreenAfterReturn ==
    ASSUME ClientTypeOK, ScreenInv, \A q \in Runs : Remembered(q), NEW o \in Runs, Return(o),
           screen' = screen, server' = server, scenarios' = scenarios
    PROVE  ScreenInv'
  <1>1. /\ current' \in {current, NoRun}
        /\ current' # NoRun => coordinator'[current] = coordinator[current]
    BY Returned DEF ClientTypeOK
  <1>2. scenarios' # "listed" => \A q \in Runs : server'[q] = "absent"
    BY DEF ScreenInv
  <1> QED
    BY <1>1, <1>2, ScreenStays

(* A failure of the client, shown by the coordinator that returns: only a  *)
(* screen that does not show a failure of the server yet is changed.       *)
LEMMA ScreenAfterFailure ==
    ASSUME ClientTypeOK, ScreenInv, \A q \in Runs : Remembered(q), NEW o \in Runs, Return(o),
           current = o, screen' = Failed(screen, "failed", "client_stream_failed"),
           registry' = registry, server' = server, scenarios' = scenarios,
           scenarios = "listed"
    PROVE  ScreenInv' /\ screen' \in Screen
  <1> DEFINE t == Failed(screen, "failed", "client_stream_failed")
  <1>1. /\ t \in Screen /\ t.status = "failed" /\ t.safe_error = "client_stream_failed"
        /\ t.thread = screen.thread /\ t.completed = screen.completed
        /\ OwnParts(t)
    BY FailedScreen DEF ClientTypeOK, ScreenInv
  <1>2. current' = NoRun
    BY DEF Return
  <1> HIDE DEF t
  <1>3. screen' = t
    BY DEF t
  <1> QED
    BY <1>1, <1>2, <1>3 DEF ScreenInv

(* StreamEnds *)
LEMMA StreamEndsObserved ==
    ASSUME HostSide, ObserverInv, NEW o \in Runs, StreamEnds(o)
    PROVE  ObserverInv'
  <1>1. StreamInv(o) /\ connected \in [Runs -> BOOLEAN]
    BY DEF HostSide, StreamsInv, HostInv, HostTypeOK
  <1>2. ClientTypeOK /\ ScreenInv /\ \A q \in Runs : FollowInv(q)
    BY DEF ObserverInv
  <1>3. /\ coordinator[o].stage = "streaming" /\ server[o] = "over" /\ wire[o] = <<>>
        /\ UNCHANGED <<registry, server, pending, progress, wire, screen, scenarios>>
        /\ \A q \in Runs \ {o} : connected'[q] = connected[q]
    BY <1>1 DEF StreamEnds
  <1>4. \A q \in Runs : Remembered(q)
    BY NothingIsForgotten DEF WorkspaceNext
  <1>5. CASE Return(o)
    <2>1. ClientTypeOK'
      BY <1>2, <1>3, <1>5, Returned DEF ClientTypeOK
    <2>2. \A q \in Runs : FollowInv(q)'
      BY <1>2, <1>3, <1>5, FollowedAfterReturn
    <2>3. ScreenInv'
      BY <1>2, <1>3, <1>4, <1>5, ScreenAfterReturn
    <2> QED
      BY <2>1, <2>2, <2>3 DEF ObserverInv
  <1>6. CASE ~Return(o)
    <2>1. /\ coordinator' = [coordinator EXCEPT ![o] =
                [coordinator[o] EXCEPT !.stage = "reconciling"]]
          /\ current' = current
          /\ ~coordinator[o].received_run_error
          /\ coordinator[o].latest_server_run # NoRun
      BY <1>6 DEF StreamEnds
    <2>2. coordinator \in [Runs -> Coordinator] /\ coordinator[o] \in Coordinator
      BY <1>2 DEF ClientTypeOK
    <2>3. /\ coordinator'[o] = [coordinator[o] EXCEPT !.stage = "reconciling"]
          /\ \A q \in Runs \ {o} : coordinator'[q] = coordinator[q]
      BY <2>1, <2>2
    <2>4. /\ coordinator'[o].stage = "reconciling"
          /\ coordinator'[o].latest_server_run = coordinator[o].latest_server_run
          /\ coordinator'[o].received_run_error = coordinator[o].received_run_error
          /\ coordinator[o].received_run_error # TRUE
      BY <2>1, <2>2, <2>3, CoordinatorAtStage
    <2>5. coordinator' \in [Runs -> Coordinator]
      BY <2>1, <2>2, CoordinatorAtStage
    <2>6. registry[o].status = "completed"
      <3>1. ~ErrorIsDue(o)
        BY <1>1, <1>3, QueuedChunks DEF StreamInv, ErrorIsDue
      <3> QED
        BY <1>2, <1>3, <2>4, <3>1 DEF FollowInv
    <2>7. ClientTypeOK'
      BY <1>2, <1>3, <2>1, <2>5 DEF ClientTypeOK
    <2>8. FollowInv(o)'
      BY <1>2, <1>3, <2>1, <2>4, <2>6 DEF FollowInv
    <2>9. ASSUME NEW q \in Runs, q # o
          PROVE  FollowInv(q)'
      <3>1. coordinator'[q] = coordinator[q] /\ connected'[q] = connected[q] /\ FollowInv(q)
        BY <1>2, <1>3, <2>3, <2>9
      <3> QED
        BY <1>3, <2>1, <3>1 DEF FollowInv, ErrorIsDue, Has
    <2>10. ScreenInv'
      <3>1. current = o /\ (screen.status = "failed" =>
                              coordinator[o].received_run_error = TRUE)
        BY <1>2, <1>3, NoRunAssumption DEF FollowInv, ScreenInv
      <3> QED
        BY <1>2, <1>3, <2>1, <2>4, <3>1 DEF ScreenInv
    <2> QED
      BY <2>7, <2>8, <2>9, <2>10 DEF ObserverInv
  <1> QED
    BY <1>5, <1>6

(* StreamFails *)
LEMMA StreamFailsObserved ==
    ASSUME HostSide, ObserverInv, NEW o \in Runs, StreamFails(o)
    PROVE  ObserverInv'
  <1>1. HostShape
    BY PerRun DEF PerRunInv, HostSide
  <1>2. ClientTypeOK /\ ScreenInv /\ \A q \in Runs : FollowInv(q)
    BY DEF ObserverInv
  <1>3. /\ coordinator[o].stage = "streaming" /\ Return(o)
        /\ UNCHANGED <<registry, server, pending, progress, scenarios>>
        /\ wire'[o] = <<>>
        /\ \A q \in Runs \ {o} : wire'[q] = wire[q] /\ connected'[q] = connected[q]
    BY <1>1 DEF StreamFails, GoAway, HostShape
  <1>4. current = o /\ server[o] # "absent" /\ scenarios = "listed"
    BY <1>2, <1>3 DEF FollowInv, ScreenInv
  <1>5. \A q \in Runs : Remembered(q)
    BY NothingIsForgotten DEF WorkspaceNext
  <1>6. \A q \in Runs : FollowInv(q)'
    BY <1>2, <1>3, <1>4, FollowedAfterReturn
  <1>7. screen' = screen \/ screen' = Failed(screen, "failed", "client_stream_failed")
    BY <1>4 DEF StreamFails, Dispatch, ClientFailure
  <1>8. ScreenInv' /\ screen' \in Screen
    BY <1>2, <1>3, <1>4, <1>5, <1>7, ScreenAfterReturn, ScreenAfterFailure DEF ClientTypeOK
  <1>9. ClientTypeOK'
    BY <1>2, <1>3, <1>8, Returned DEF ClientTypeOK
  <1> QED
    BY <1>6, <1>8, <1>9 DEF ObserverInv

(* ReconcileFails, and AbortHandled, whose dispatch the guard stops *)
LEMMA LateFailureObserved ==
    ASSUME HostSide, ObserverInv, NEW o \in Runs, ReconcileFails(o) \/ AbortHandled(o)
    PROVE  ObserverInv'
  <1>1. ClientTypeOK /\ ScreenInv /\ \A q \in Runs : FollowInv(q)
    BY DEF ObserverInv
  <1>2. /\ coordinator[o].stage \in {"reconciling", "aborted"} /\ Return(o)
        /\ UNCHANGED <<registry, server, pending, progress, wire, connected, scenarios>>
    BY DEF ReconcileFails, AbortHandled, hostVars
  <1>3. server[o] # "absent" /\ scenarios = "listed"
    BY <1>1, <1>2 DEF FollowInv, ScreenInv
  <1>4. \A q \in Runs : Remembered(q)
    BY NothingIsForgotten DEF WorkspaceNext
  <1>5. \A q \in Runs : FollowInv(q)'
    BY <1>1, <1>2, <1>3, FollowedAfterReturn
  <1>6. \/ screen' = screen
        \/ current = o /\ screen' = Failed(screen, "failed", "client_stream_failed")
    <2>1. CASE current # o
      BY <2>1 DEF ReconcileFails, AbortHandled, Dispatch
    <2>2. CASE current = o
      <3>1. ReconcileFails(o)
        BY <1>1, <2>2 DEF AbortHandled, FollowInv
      <3> QED
        BY <2>2, <3>1 DEF ReconcileFails, Dispatch, ClientFailure
    <2> QED
      BY <2>1, <2>2
  <1>7. ScreenInv' /\ screen' \in Screen
    BY <1>1, <1>2, <1>3, <1>4, <1>6, ScreenAfterReturn, ScreenAfterFailure DEF ClientTypeOK
  <1>8. ClientTypeOK'
    BY <1>1, <1>2, <1>7, Returned DEF ClientTypeOK
  <1> QED
    BY <1>5, <1>7, <1>8 DEF ObserverInv

(* A screen of a completed run is a screen. *)
LEMMA CompletedScreen ==
    ASSUME NEW s \in Screen, NEW o \in Runs
    PROVE  [s EXCEPT !.status = "completed", !.completed = o] \in Screen
  <1>1. [s EXCEPT !.status = "completed"] \in Screen
    BY DEF Screen
  <1>2. \A u \in Screen : [u EXCEPT !.completed = o] \in Screen
    BY DEF Screen
  <1>3. [s EXCEPT !.status = "completed", !.completed = o] =
           [[s EXCEPT !.status = "completed"] EXCEPT !.completed = o]
    OBVIOUS
  <1> QED
    BY <1>1, <1>2, <1>3

(* A completed record shown on the screen of its run. *)
LEMMA ReconciledScreen ==
    ASSUME NEW s \in Screen, OwnParts(s), NEW o \in Runs, s.thread = o,
           registry[o].status = "completed", registry[o].has_result = TRUE
    PROVE  LET t == ReconcileRun(s, o)
           IN  \/ t = s
               \/ /\ t \in Screen /\ OwnParts(t) /\ t.status = "completed"
                  /\ t.thread = o /\ t.completed = o /\ t.safe_error = s.safe_error
  <1> DEFINE t == [s EXCEPT !.status = "completed", !.completed = o]
  <1>1. ReconcileRun(s, o) = s \/ ReconcileRun(s, o) = t
    <2>1. s.server_run = o => ReconcileRun(s, o) = [t EXCEPT !.safe_error = s.safe_error]
      BY DEF ReconcileRun
    <2>2. [t EXCEPT !.safe_error = s.safe_error] = t
      BY DEF Screen
    <2> QED
      BY <2>1, <2>2 DEF ReconcileRun
  <1>2. t \in Screen
    BY CompletedScreen
  <1>3. /\ t.status = "completed" /\ t.safe_error = s.safe_error /\ t.thread = o
        /\ t.completed = o
    BY DEF Screen
  <1>4. t.server_run = s.server_run /\ t.active_text = s.active_text /\ t.candidate = s.candidate
    BY DEF Screen
  <1>5. t.cause = s.cause /\ t.checker = s.checker /\ t.explain = s.explain
    BY DEF Screen
  <1> HIDE DEF t
  <1>6. OwnParts(t)
    BY <1>3, <1>4, <1>5 DEF OwnParts
  <1> QED
    BY <1>1, <1>2, <1>3, <1>6

(* Reconcile *)
LEMMA ReconcileObserved ==
    ASSUME HostSide, ObserverInv, NEW o \in Runs, Reconcile(o)
    PROVE  ObserverInv'
  <1> DEFINE t == ReconcileRun(screen, o)
  <1>1. ClientTypeOK /\ ScreenInv /\ StreamInv(o) /\ \A q \in Runs : FollowInv(q)
    BY DEF ObserverInv, HostSide, StreamsInv
  <1>2. /\ coordinator[o].stage = "reconciling" /\ Return(o)
        /\ UNCHANGED <<registry, server, pending, progress, wire, connected, scenarios>>
    BY DEF Reconcile, hostVars
  <1>3. /\ server[o] # "absent" /\ coordinator[o].latest_server_run = o
        /\ registry[o].status = "completed" /\ registry[o].has_result = TRUE
        /\ scenarios = "listed"
    BY <1>1, <1>2 DEF FollowInv, StreamInv, ScreenInv
  <1>4. \A q \in Runs : Remembered(q)
    BY NothingIsForgotten DEF WorkspaceNext
  <1>5. \A q \in Runs : FollowInv(q)'
    BY <1>1, <1>2, <1>3, FollowedAfterReturn
  <1>6. screen' = screen \/ (current = o /\ screen' = t)
    BY <1>3 DEF Reconcile, Dispatch
  <1>7. ScreenInv' /\ screen' \in Screen
    <2>1. CASE screen' = screen
      BY <1>1, <1>2, <1>4, <2>1, ScreenAfterReturn DEF ClientTypeOK
    <2>2. CASE current = o /\ screen' # screen
      <3>1. screen.thread = o /\ OwnParts(screen) /\ screen \in Screen
        BY <1>1, <2>2, NoRunAssumption DEF ScreenInv, ClientTypeOK
      <3>2. /\ t \in Screen /\ OwnParts(t) /\ t.status = "completed"
            /\ t.thread = o /\ t.completed = o /\ t.safe_error = screen.safe_error
        BY <1>3, <1>6, <2>2, <3>1, ReconciledScreen
      <3>3. screen' = t /\ current' = NoRun
        BY <1>2, <1>6, <2>2 DEF Return
      <3> HIDE DEF t
      <3> QED
        BY <1>1, <1>2, <1>3, <3>1, <3>2, <3>3 DEF ScreenInv
    <2> QED
      BY <1>6, <2>1, <2>2
  <1>8. ClientTypeOK'
    BY <1>1, <1>2, <1>7, Returned DEF ClientTypeOK
  <1> QED
    BY <1>5, <1>7, <1>8 DEF ObserverInv

(* Every step of the workspace keeps what is known of it. *)
LEMMA ObserverInvKept ==
    ASSUME HostSide, ObserverInv, [WorkspaceNext]_workspaceVars
    PROVE  ObserverInv'
  <1>1. CASE ScenariosArrive \/ ScenariosMissing
    <2>1. UNCHANGED <<hostVars, screen, current, coordinator>>
      BY <1>1 DEF ScenariosArrive, ScenariosMissing
    <2>2. /\ scenarios # "listed" /\ scenarios' \in {"listed", "missing"}
      BY <1>1 DEF ScenariosArrive, ScenariosMissing
    <2>3. ClientTypeOK' /\ ScreenInv'
      BY <2>1, <2>2 DEF ObserverInv, ClientTypeOK, ScreenInv, OwnParts, hostVars
    <2>4. ASSUME NEW o \in Runs
          PROVE  FollowInv(o)'
      BY <2>1 DEF ObserverInv, FollowInv, ErrorIsDue, Has, hostVars
    <2> QED
      BY <2>3, <2>4 DEF ObserverInv
  <1>2. CASE UNCHANGED workspaceVars
    <2>1. UNCHANGED <<hostVars, clientVars>>
      BY <1>2 DEF workspaceVars
    <2>2. ClientTypeOK' /\ ScreenInv'
      BY <2>1 DEF ObserverInv, ClientTypeOK, ScreenInv, OwnParts, hostVars, clientVars
    <2>3. ASSUME NEW o \in Runs
          PROVE  FollowInv(o)'
      BY <2>1 DEF ObserverInv, FollowInv, ErrorIsDue, Has, hostVars, clientVars
    <2> QED
      BY <2>2, <2>3 DEF ObserverInv
  <1>3. ASSUME NEW o \in Runs,
               \/ ServerSide(o)
               \/ Observe(o) \/ StreamEvent(o) \/ StreamEnds(o) \/ StreamFails(o)
               \/ Reconcile(o) \/ ReconcileFails(o) \/ AbortHandled(o)
        PROVE  ObserverInv'
    BY <1>3, ServerSideObserved, ObserveObserved, StreamEventObserved, StreamEndsObserved,
       StreamFailsObserved, ReconcileObserved, LateFailureObserved
  <1> QED
    BY <1>1, <1>2, <1>3 DEF WorkspaceNext

(* It holds of every reachable state. *)
LEMMA WorkspaceInvHolds == WorkspaceSpec => [](HostSide /\ ObserverInv)
  <1>1. HostSide /\ ObserverInv /\ [WorkspaceNext]_workspaceVars => (HostSide /\ ObserverInv)'
    BY HostSideKept, ObserverInvKept DEF ObserverInv
  <1> QED
    BY ObserverInitially, <1>1, PTL DEF WorkspaceSpec

(* What is proved of the host against any client holds against this one:   *)
(* the aborts and late answers of the workspace break no promise of the    *)
(* host's streams and records.                                             *)
THEOREM HostKeptByTheWorkspace ==
    WorkspaceSpec =>
        [](HostTypeOK /\ CompletionIsRecordedBeforeItIsSent /\ NothingFollowsTheEnd)
  <1>1. HostInv /\ StreamsInv =>
           HostTypeOK /\ CompletionIsRecordedBeforeItIsSent /\ NothingFollowsTheEnd
    BY StreamsEnd, CompletionIsAnnounced DEF HostInv
  <1> QED
    BY <1>1, WorkspaceInvHolds, PTL DEF HostSide

(* The records implement the lifecycle of a run under the workspace too:   *)
(* no selection, abort or late answer of it touches one.                   *)
THEOREM RecordsKeptByTheWorkspace == WorkspaceSpec => ImplementsRunLifecycle
  <1>1. ASSUME HostSide, [WorkspaceNext]_workspaceVars
        PROVE  [Lifecycle!LifecycleNext]_([r \in Runs |-> registry[r].status])
    <2>1. [HostNext]_hostVars \/ UNCHANGED registry
      BY <1>1 DEF WorkspaceNext, ScenariosArrive, ScenariosMissing, ServerSide, Observe,
                  StreamEvent, StreamEnds, StreamFails, Reconcile, ReconcileFails,
                  AbortHandled, Read, GoAway, HostNext, hostVars, workspaceVars
    <2> QED
      BY <1>1, <2>1, StepImplements, NoRecordTouched DEF HostSide
  <1>2. WorkspaceInit => Lifecycle!LifecycleInit
    BY InitImplements DEF WorkspaceInit
  <1> QED
    BY <1>1, <1>2, WorkspaceInvHolds, PTL
       DEF WorkspaceSpec, ImplementsRunLifecycle, Lifecycle!LifecycleSpec

(* The state of the workspace is of its type, for any number of             *)
(* observations and any capacity of their connections.                      *)
THEOREM WorkspaceTypeCorrect == WorkspaceSpec => []WorkspaceTypeOK
  <1>1. ObserverInv => WorkspaceTypeOK
    BY DEF ObserverInv, ClientTypeOK, ScreenInv, WorkspaceTypeOK
  <1> QED
    BY <1>1, WorkspaceInvHolds, PTL

(* Whatever is aborted, broken or late, the screen is of one observation.  *)
THEOREM ScreenOfOneObservation == WorkspaceSpec => []ScreenShowsOneObservation
  <1>1. ObserverInv => ScreenShowsOneObservation
    BY DEF ObserverInv, ScreenInv, OwnParts, ScreenShowsOneObservation
  <1> QED
    BY <1>1, WorkspaceInvHolds, PTL

(* The end a screen shows is the one the host has on record.               *)
THEOREM ScreenAgreesWithTheHost == WorkspaceSpec => []SettledScreenAgreesWithTheHost
  <1>1. ObserverInv => SettledScreenAgreesWithTheHost
    BY DEF ObserverInv, ScreenInv, SettledScreenAgreesWithTheHost
  <1> QED
    BY <1>1, WorkspaceInvHolds, PTL

(* A failed screen stays as it is, or another conversation is selected.    *)
THEOREM FailureStays == WorkspaceSpec => FailureIsFinal
  <1> DEFINE Stays == screen.status = "failed" =>
                         screen' = screen \/ screen'.thread # screen.thread
  <1>1. ASSUME HostSide, ObserverInv, [WorkspaceNext]_workspaceVars
        PROVE  [Stays]_workspaceVars
    <2> SUFFICES ASSUME screen.status = "failed", screen' # screen
                 PROVE  screen'.thread # screen.thread
      OBVIOUS
    <2>1. ClientTypeOK /\ ScreenInv /\ \A q \in Runs : FollowInv(q)
      BY <1>1 DEF ObserverInv
    <2>2. PICK o \in Runs : \/ Observe(o) \/ StreamEvent(o) \/ StreamFails(o)
                            \/ Reconcile(o) \/ ReconcileFails(o) \/ AbortHandled(o)
      BY <1>1 DEF WorkspaceNext, ScenariosArrive, ScenariosMissing, ServerSide, StreamEnds,
                  workspaceVars, clientVars
    <2>3. Observe(o)
      <3>1. CASE current # o
        BY <2>2, <3>1 DEF StreamEvent, StreamFails, Reconcile, ReconcileFails, AbortHandled,
                          Dispatch
      <3>2. CASE current = o
        <4>1. /\ coordinator[o].stage = "streaming"
              /\ coordinator[o].received_run_error = TRUE /\ wire[o] = <<>>
          BY <2>1, <3>2, NoRunAssumption DEF ScreenInv, FollowInv
        <4> QED
          BY <2>2, <4>1 DEF StreamEvent, StreamFails, Reconcile, ReconcileFails,
                            AbortHandled, Read, Dispatch, ClientFailure
      <3> QED
        BY <3>1, <3>2
    <2>4. screen'.thread = o /\ server[o] = "absent"
      BY <2>3 DEF Observe, BlankScreen
    <2> QED
      BY <2>1, <2>4, NoRunAssumption DEF ScreenInv
  <1>2. [](HostSide /\ ObserverInv) /\ [][WorkspaceNext]_workspaceVars
           => [][Stays]_workspaceVars
    BY <1>1, PTL
  <1> QED
    BY <1>2, WorkspaceInvHolds, PTL DEF WorkspaceSpec, FailureIsFinal
=============================================================================
