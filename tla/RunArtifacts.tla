----------------------------- MODULE RunArtifacts -----------------------------
(***************************************************************************)
(* The files a job leaves behind (cli.py, execution.py, loop_artifacts.py, *)
(* the write_artifacts node of state_graph.py): commands of the shell and  *)
(* runs of the host take a directory each, do their work in a fixed order, *)
(* write file after file and list what they find.  Any step may raise, a   *)
(* write may fail half way, and a run of the host may be cancelled while a *)
(* thread goes on writing for it.                                          *)
(***************************************************************************)
EXTENDS RunDirectory, Sequences

CONSTANTS
    Requests,       \* the jobs that may be asked for
    MaxScenarios,   \* bound: the scenarios of a batch
    FixedGroups     \* bound: the groups of files a fixed scenario may leave

Commands == {"run", "run-loop", "detect-contract", "run-prompt-loop",
             "agui-fixed", "agui-prompt-loop"}
HostCommands == {"agui-fixed", "agui-prompt-loop"}

(* live: without --mock; from_history: the conversation is evidence enough *)
(* for a contract, so that no model is asked for one.                      *)
Request == [command : Commands, scenarios : 0 .. MaxScenarios,
            live : BOOLEAN, from_history : BOOLEAN]

-----------------------------------------------------------------------------
(* The files of one write, in the order they are written.                  *)

When(condition, artifact) == IF condition THEN <<artifact>> ELSE <<>>

(* write_artifacts: a scenario out of scope has no trace; a comparison and *)
(* an explanation need a check.                                            *)
OutOfScopeGroups ==
    {<<"classification">> \o When(safe, "response") : safe \in BOOLEAN}

InScopeGroups ==
    {<<"classification", "response", "trace", "state_trace">>
        \o When(checked, "checker")
        \o When(checked /\ compared, "checker_comparison")
        \o When(checked /\ explained, "explanation") :
        checked \in BOOLEAN, compared \in BOOLEAN, explained \in BOOLEAN}

ContractGroups == {<<"prompt_contract">>}

LoopGroups == {<<"loop_trace">> \o When(e, "explanation") : e \in BOOLEAN}

(* _write_prompt_loop_artifacts: only a supported contract, the only kind  *)
(* that may be explained, has a generated text of its own.                 *)
PromptLoopGroups ==
    {When(g, "generated") \o <<"loop_trace">> \o When(g /\ e, "explanation") :
        g \in BOOLEAN, e \in BOOLEAN}

ASSUME MaxScenariosAssumption == MaxScenarios \in Nat
ASSUME FixedGroupsAssumption ==
    FixedGroups \subseteq OutOfScopeGroups \cup InScopeGroups
ASSUME RequestsAssumption == Requests \subseteq Request

Groups(op) ==
    CASE op = "write_fixed" -> FixedGroups
      [] op = "write_contract" -> ContractGroups
      [] op = "write_loop" -> LoopGroups
      [] op = "write_prompt_loop" -> PromptLoopGroups
      [] OTHER -> {}

-----------------------------------------------------------------------------
(* What each job does once it has a directory.                             *)

(* _stream_fixed_scenario_graph: write_artifacts is a node of the graph,   *)
(* finalize another, and the directory is listed after both.               *)
FixedScript == <<"graph", "write_fixed", "finish", "list">>

(* run_command: a batch shares one directory and one graph. *)
RunScript(n) ==
    <<"prepare">>
        \o [i \in 1 .. 4 * n |-> FixedScript[((i - 1) % 4) + 1]]
        \o <<"list">>

RunLoopScript == <<"prepare", "graph", "write_loop">>

DetectContractScript == <<"prepare", "detect", "write_contract">>

(* Variant: the result is made before the trace is written. *)
ListingEarlyScript ==
    <<"detect", "write_contract", "graph", "list", "write_prompt_loop">>

(* stream_prompt_loop *)
PromptLoopScript ==
    <<"detect", "write_contract", "graph", "write_prompt_loop", "list">>

Script(r) ==
    CASE r.command = "run" -> RunScript(r.scenarios)
      [] r.command = "run-loop" -> RunLoopScript
      [] r.command = "detect-contract" -> DetectContractScript
      [] r.command = "run-prompt-loop" -> <<"prepare">> \o PromptLoopScript
      [] r.command = "agui-fixed" -> FixedScript
      [] r.command = "agui-prompt-loop" -> PromptLoopScript

Ended == {"completed", "no_directory", "bad_input", "no_contract",
          "nested_event_loop", "failed", "cancelled"}

VARIABLES
    request,    \* what each job was asked for
    status,     \* "absent", "working" or how it ended
    at,         \* which operation of its script it is at
    todo,       \* the files it is writing, the first one perhaps begun
    begun,      \* has that one been truncated and not been filled yet
    planned,    \* history: the files it set out to write, in order
    contents,   \* what is in each directory
    listings,   \* the lists of artifact names it has made
    trace       \* its trace: "off", "open" or "flushed"

fileVars == <<todo, begun, planned, contents, listings>>
jobVars == <<request, status, at, fileVars, trace>>
vars == <<dirVars, jobVars>>

(* An entry of a directory: which file, whose, and if all of it is there.  *)
(* Whoever took a name before has left something there.                    *)
Foreign == "earlier"
Entry(f, j, whole) == [file |-> f, by |-> j, whole |-> whole]
Left == {Entry(<<1, "classification">>, Foreign, TRUE)}

ArtifactsInit ==
    /\ DirInit
    /\ request \in [Jobs -> Requests]
    /\ status = [j \in Jobs |-> "absent"]
    /\ at = [j \in Jobs |-> 1]
    /\ todo = [j \in Jobs |-> <<>>]
    /\ begun = [j \in Jobs |-> FALSE]
    /\ planned = [j \in Jobs |-> <<>>]
    /\ contents = [n \in Names |-> IF n \in taken THEN Left ELSE {}]
    /\ listings = [j \in Jobs |-> <<>>]
    /\ trace = [j \in Jobs |-> "off"]

Op(j) == Script(request[j])[at[j]]
Working(j, op) == status[j] = "working" /\ search[j] = "holding" /\ Op(j) = op

(* The scenario of a batch it is at; the ids of a batch are distinct.      *)
Unit(j) == IF request[j].command = "run" THEN (at[j] + 2) \div 4 ELSE 1

(* _artifact_names *)
ArtifactNames(n) == {e.file : e \in contents[n]}

-----------------------------------------------------------------------------
(* How a job goes on and how it ends.                                      *)

(* LangfuseTracer.flush ends the root span; a tracer that is off does      *)
(* nothing.                                                                *)
Flush(j) == trace' = [trace EXCEPT ![j] = IF @ = "open" THEN "flushed" ELSE @]

StartRun(j) == trace' = [trace EXCEPT ![j] = "open"]

(* On to the next operation; after the last one the command flushes its    *)
(* trace and returns 0.                                                    *)
Advance(j) ==
    IF at[j] < Len(Script(request[j]))
    THEN /\ at' = [at EXCEPT ![j] = @ + 1]
         /\ UNCHANGED <<status, trace>>
    ELSE /\ status' = [status EXCEPT ![j] = "completed"]
         /\ Flush(j)
         /\ UNCHANGED at

End(j, how) == status' = [status EXCEPT ![j] = how]

-----------------------------------------------------------------------------
(* Taking a directory: the first thing every job does.                     *)

Start(j) ==
    /\ status[j] = "absent"
    /\ StartSearch(j)
    /\ End(j, "working")
    /\ UNCHANGED <<request, at, fileVars, trace>>

(* run-prompt-loop opens its trace before it reads its input. *)
TakesDirectory(j) ==
    /\ MakeDirectory(j)
    /\ IF request[j].command = "run-prompt-loop" THEN StartRun(j) ELSE UNCHANGED trace
    /\ UNCHANGED <<request, status, at, fileVars>>

LooksFurther(j) == TryNextSuffix(j) /\ UNCHANGED jobVars

GetsNoDirectory(j) ==
    /\ Refuse(j) \/ SearchRaises(j)
    /\ End(j, "no_directory")
    /\ UNCHANGED <<request, at, fileVars, trace>>

-----------------------------------------------------------------------------
(* Before the files.                                                       *)

(* run opens its trace once its scenarios are loaded. *)
Prepared(j) ==
    /\ Working(j, "prepare")
    /\ at' = [at EXCEPT ![j] = @ + 1]
    /\ IF request[j].command = "run" THEN StartRun(j) ELSE UNCHANGED trace
    /\ UNCHANGED <<dirVars, request, status, fileVars>>

(* A scenario, a message file or an option is not valid. *)
PrepareRaises(j) ==
    /\ Working(j, "prepare")
    /\ End(j, "bad_input")
    /\ Flush(j)
    /\ UNCHANGED <<dirVars, request, at, fileVars>>

(* detect_prompt_contract asks a model with Agent.run_sync unless it is    *)
(* mocked or the history decides; stream_prompt_loop calls it from a       *)
(* coroutine, where an event loop is already running.                      *)
AsksModel(j) == request[j].live /\ ~request[j].from_history
InEventLoop(j) == request[j].command # "detect-contract"

Detected(j) ==
    /\ Working(j, "detect")
    /\ ~(AsksModel(j) /\ InEventLoop(j))
    /\ Advance(j)
    /\ UNCHANGED <<dirVars, request, fileVars>>

(* An empty prompt, no key, an answer that does not validate; duplicate    *)
(* message ids.                                                            *)
DetectRaises(j) ==
    /\ Working(j, "detect")
    /\ End(j, "no_contract")
    /\ UNCHANGED <<dirVars, request, at, fileVars, trace>>

(* run_sync: "This event loop is already running". *)
RunSyncRaises(j) ==
    /\ Working(j, "detect")
    /\ AsksModel(j) /\ InEventLoop(j)
    /\ End(j, "nested_event_loop")
    /\ UNCHANGED <<dirVars, request, at, fileVars, trace>>

GraphEnds(j) ==
    /\ Working(j, "graph") \/ Working(j, "finish")
    /\ Advance(j)
    /\ UNCHANGED <<dirVars, request, fileVars>>

(* A node raises before anything is written; nobody flushes the trace.     *)
GraphRaises(j) ==
    /\ Working(j, "graph")
    /\ End(j, "failed")
    /\ UNCHANGED <<dirVars, request, at, fileVars, trace>>

-----------------------------------------------------------------------------
(* The files.                                                              *)

StartWriting(j) ==
    /\ status[j] = "working" /\ search[j] = "holding"
    /\ todo[j] = <<>>
    /\ \E group \in Groups(Op(j)) :
          LET batch == [i \in DOMAIN group |-> <<Unit(j), group[i]>>]
          IN  /\ todo' = [todo EXCEPT ![j] = batch]
              /\ planned' = [planned EXCEPT ![j] = @ \o batch]
    /\ UNCHANGED <<dirVars, request, status, at, begun, contents, listings, trace>>

(* Path.write_text opens the file: what was there under its name is gone.  *)
OpenFile(j) ==
    /\ todo[j] # <<>> /\ ~begun[j]
    /\ begun' = [begun EXCEPT ![j] = TRUE]
    /\ contents' = [contents EXCEPT ![Name(j)] =
          {e \in @ : e.file # Head(todo[j])} \cup {Entry(Head(todo[j]), j, FALSE)}]
    /\ UNCHANGED <<dirVars, request, status, at, todo, planned, listings, trace>>

(* It is filled and closed.  The last file ends the operation, if there is *)
(* still a job that waits for it.                                          *)
FillFile(j) ==
    /\ begun[j]
    /\ begun' = [begun EXCEPT ![j] = FALSE]
    /\ todo' = [todo EXCEPT ![j] = Tail(@)]
    /\ contents' = [contents EXCEPT ![Name(j)] =
          {e \in @ : e.file # Head(todo[j])} \cup {Entry(Head(todo[j]), j, TRUE)}]
    /\ IF Len(todo[j]) = 1 /\ status[j] = "working"
       THEN Advance(j) ELSE UNCHANGED <<status, at, trace>>
    /\ UNCHANGED <<dirVars, request, planned, listings>>

(* Variant: the job fails and the writer goes on with the next file. *)
WriteFailsAndGoesOn(j) ==
    /\ todo[j] # <<>>
    /\ todo' = [todo EXCEPT ![j] = Tail(@)]
    /\ begun' = [begun EXCEPT ![j] = FALSE]
    /\ IF status[j] = "working" THEN End(j, "failed") ELSE UNCHANGED status
    /\ UNCHANGED <<dirVars, request, at, planned, contents, listings, trace>>

(* Variant: the error is swallowed, and the next file is written. *)
WriteSkipsFile(j) ==
    /\ todo[j] # <<>>
    /\ todo' = [todo EXCEPT ![j] = Tail(@)]
    /\ begun' = [begun EXCEPT ![j] = FALSE]
    /\ IF Len(todo[j]) = 1 /\ status[j] = "working"
       THEN Advance(j) ELSE UNCHANGED <<status, at, trace>>
    /\ UNCHANGED <<dirVars, request, planned, contents, listings>>

(* An I/O error: no later file is written.  The error of a writer nobody   *)
(* waits for is dropped.                                                   *)
WriteRaises(j) ==
    /\ todo[j] # <<>>
    /\ todo' = [todo EXCEPT ![j] = <<>>]
    /\ begun' = [begun EXCEPT ![j] = FALSE]
    /\ IF status[j] = "working" THEN End(j, "failed") ELSE UNCHANGED status
    /\ UNCHANGED <<dirVars, request, at, planned, contents, listings, trace>>

(* After each scenario and once more after a batch. *)
ListArtifacts(j) ==
    /\ Working(j, "list")
    /\ listings' = [listings EXCEPT ![j] =
          Append(@, [upto |-> Len(planned[j]), names |-> ArtifactNames(Name(j))])]
    /\ Advance(j)
    /\ UNCHANGED <<dirVars, request, todo, begun, planned, contents>>

(* A client of the host goes away.  Its task is cancelled where it waits   *)
(* for the graph; write_artifacts runs in a thread of the executor, and    *)
(* once started it writes to the end.  A coroutine that is writing itself  *)
(* cannot be cancelled.                                                    *)
Cancel(j) ==
    /\ request[j].command \in HostCommands
    /\ \E op \in {"graph", "write_fixed", "finish"} : Working(j, op)
    /\ End(j, "cancelled")
    /\ UNCHANGED <<dirVars, request, at, fileVars, trace>>

JobStep(j) ==
    \/ TakesDirectory(j) \/ LooksFurther(j) \/ GetsNoDirectory(j)
    \/ Prepared(j) \/ PrepareRaises(j)
    \/ Detected(j) \/ DetectRaises(j) \/ RunSyncRaises(j)
    \/ GraphEnds(j) \/ GraphRaises(j)
    \/ StartWriting(j) \/ OpenFile(j) \/ FillFile(j) \/ WriteRaises(j)
    \/ ListArtifacts(j)

ArtifactsNext == \E j \in Jobs : Start(j) \/ JobStep(j) \/ Cancel(j)

ArtifactsSpec == ArtifactsInit /\ [][ArtifactsNext]_vars

(* A job that has begun goes on: its process is scheduled, nodes and model *)
(* calls return, writes succeed or fail.  Nobody has to ask for one or to  *)
(* cancel it.                                                              *)
FairArtifactsSpec == ArtifactsSpec /\ \A j \in Jobs : WF_vars(JobStep(j))

-----------------------------------------------------------------------------
(* Properties *)

Artifacts == {"classification", "response", "trace", "state_trace", "checker",
              "checker_comparison", "explanation", "prompt_contract",
              "generated", "loop_trace"}
FileNames == (1 .. MaxScenarios + 1) \X Artifacts

(* The type of a job's state; a file is begun only if there is one to      *)
(* write, and only the orphan of a cancelled run writes after the end.     *)
ArtifactsTypeOK ==
    /\ DirTypeOK
    /\ status \in [Jobs -> {"absent", "working"} \cup Ended]
    /\ planned \in [Jobs -> Seq(FileNames)]
    /\ begun \in [Jobs -> BOOLEAN]
    /\ trace \in [Jobs -> {"off", "open", "flushed"}]
    /\ \A j \in Jobs :
          /\ request[j] \in Requests
          /\ at[j] \in DOMAIN Script(request[j])
          /\ begun[j] => todo[j] # <<>>
          /\ todo[j] # <<>> => status[j] \in {"working", "cancelled"}
          /\ status[j] = "absent" <=> search[j] = "idle"

PlannedUpTo(j, k) == {planned[j][i] : i \in 1 .. k}

(* What a result names is what the job has written: all of it, nothing of  *)
(* another job or of an earlier one, and nothing of the scenarios of a     *)
(* batch that are still to come.  The last list of a completed job is      *)
(* complete.                                                               *)
ResultListsItsOwnFiles ==
    \A j \in Jobs :
        /\ \A i \in DOMAIN listings[j] :
              listings[j][i].names = PlannedUpTo(j, listings[j][i].upto)
        /\ status[j] = "completed" /\ listings[j] # <<>> =>
              listings[j][Len(listings[j])].upto = Len(planned[j])

(* However a job ends, its directory holds a prefix of the files it set    *)
(* out to write, in their order, its own, and whole except perhaps the     *)
(* last; a completed job has left them all.                                *)
EarlyEndLeavesAPrefix ==
    \A j \in Jobs : search[j] = "holding" =>
        LET there == contents[Name(j)]
        IN  /\ \E k \in 0 .. Len(planned[j]) :
                  /\ ArtifactNames(Name(j)) = PlannedUpTo(j, k)
                  /\ \A e \in there : e.whole \/ e.file = planned[j][k]
            /\ \A e \in there : e.by = j
            /\ status[j] = "completed" =>
                  /\ ArtifactNames(Name(j)) = PlannedUpTo(j, Len(planned[j]))
                  /\ \A e \in there : e.whole

(* With the threads that outlive a cancelled run, a directory is still a   *)
(* log that is sealed when the last writer is done.                        *)
Log == INSTANCE ArtifactLog WITH
          Writers <- Jobs,
          Files <- FileNames,
          files <- [j \in Jobs |->
                       IF search[j] = "holding" THEN ArtifactNames(Name(j)) ELSE {}],
          published <- [j \in Jobs |-> [i \in DOMAIN listings[j] |-> listings[j][i].names]],
          sealed <- {j \in Jobs : status[j] \in Ended /\ todo[j] = <<>>}

ImplementsArtifactLog == Log!LogSpec

(* Every job that was started ends, and so does whatever writes for it.    *)
JobsEnd ==
    \A j \in Jobs :
        status[j] = "working" ~> status[j] \in Ended /\ todo[j] = <<>>

(* docs/design.md: without --mock a prompt loop writes its artifacts too.  *)
(* No job of the prompt loop is stopped by the event loop it runs in.      *)
LivePromptLoopReachesTheModel ==
    \A j \in Jobs : status[j] # "nested_event_loop"

(* tests/test_observability.py: the tracer is flushed at the end of each   *)
(* command.  No command ends with its trace still open.                    *)
EndedCommandsAreFlushed ==
    \A j \in Jobs : status[j] \in Ended => trace[j] # "open"
=============================================================================
