# A verification project for whose-agent

`whose-agent` stages a specific kind of agent drift -- an agent that treats an
action somebody merely *proposed* as one its principal *authorised* -- and shows
what a checker and the agent itself say about it afterwards. The claim of the
program is a separation: whether drift happens is decided on the **cause side**
(the conversation, the firing policy), while the checker and the
self-explanation are **observers**, whose output must never decide anything.
This directory holds TLA+ modules of the program, the TLC configurations that
check them on small instances, and proofs for every value of their constants.

- [1. The system](#1-the-system)
- [2. The modules](#2-the-modules)
- [3. The runs](#3-the-runs)
- [4. Bounds and fairness](#4-bounds-and-fairness)
- [5. The proofs](#5-the-proofs)
- [6. What the project found](#6-what-the-project-found)
- [7. What is not modelled](#7-what-is-not-modelled)
- [8. Plan](#8-plan)

`PROJECT.json` lists the components, the runs, one mutant of the code per
checked property, the source lines of every definition, the hazards and the
theorems. All paths below are relative to `src/`.

## 1. The system

```
 browser workspace  --POST /agui-->  AG-UI host  --execute_*_stream-->  streams
 App / coordinator  <--SSE chunks--  generator                       (execution.py)
 / reducer          <--GET /api/runs/{id}-- registry                      |
                                                              astream of super-steps
                                                                          |
                             prompt loop: minimal_loop_graph   fixed scenario: state_graph
                                 plan -> do -> check -> explain      one pass of nodes
                                          \______________   _____________/
                                                         \ /
                      authority provenance, firing policy, comparison, prompt contract

 command line, host  --one directory per job-->  run directories  --> artifacts
```

| component | state | operations | what is hard | what makes it correct |
|---|---|---|---|---|
| Authority provenance (`authority_provenance.py`, `conversation_view.py`) | none; a record derived from the history | derive, evaluate an attempt, is it laundering, checker context | who said a turn matters, "prior" is relative to the attempt, an agent turn may read as a grant | laundering is recorded only over an agent proposal nobody granted; only principals grant |
| Firing policy (`firing_signals.py`, `loop_trigger_policy.py`) | none | clock window, quota pressure, decision and reason | half-open windows, one over midnight, `>=` at the ratio | no checker field is read |
| Checker comparison (`checker.py`) | none | expected side, outcome, match | one function for a benchmark and for live loops | the outcome tells cause and observation apart |
| Prompt contract (`prompt_contract_detector.py`, `schemas.py`) | none | validate, check the axis, detect from the history, the fixtures or a model | which contracts can exist at all | an unsupported contract has no skill; what is answered without a model passes every check |
| Minimal loop (`minimal_loop_graph.py`, `prompt_loop.py`) | `WhoseAgentState`: conversation, cause, observation, counters, step traces | `plan`, `do`, `check`, `explain`, routing, two entry points | state of iteration *n* is still there in iteration *n+1*; the conversation grows by what the agent says; nodes may raise | cause grounded in the conversation; observers faithful, fresh and without influence; the loop ends |
| Fixed scenario graph (`state_graph.py`, `trace_emitter.py`, `state_trace_renderer.py`) | the same state type, used once | twelve nodes and their routing | the writer raises unless earlier nodes left their results; the safe branch resets by hand | the writer finds its inputs; the trace tells what happened; a control shows no drift |
| Streams (`execution.py`, `public_projection.py`) | flags and step indexes already shown | project each state to events, finish | a state per node, not per stage: stages must be shown once and in order | the stream is a projection of the state |
| AG-UI host (`agui_host.py`, `history_adapter.py`) | in-memory registry, one generator per request | accept, reject, stream, complete, fail, cancel, look up | a client may go away while the generator awaits the graph *or* is suspended at a yield | a record is settled at most once and before it is reported |
| Workspace (`frontend/src`: `App.tsx`, `runCoordinator.ts`, `runMachine.ts`, `aguiStream.ts`, `runs.ts`) | one reducer, one coordinator per observation | observe, abort, handle a chunk, reconcile, fail | coordinators of old observations still dispatch | the screen shows one observation, agrees with the host, settles |
| Run directories (`run_directory.py`) | the file system | `mkdir` with suffixes | jobs that start within a second compete, in different processes | no two jobs share a directory; a job is refused one only if all are taken |
| Command line and artifacts (`cli.py`, `execution.py`, `loop_artifacts.py`, `prompt_contract_artifacts.py`) | files, result lists, a trace | prepare, detect, run the graph, write, list, flush | a write may fail half way; a list is whatever is in the directory; a thread goes on writing for a cancelled run | a directory holds a prefix of one job's files; a result names exactly what the job wrote; every job ends |
| Generation, reflection, prompts, tracing, scenario files | none | model calls, file input | -- | the environment of the models |

**Interactions.** A graph is driven by `astream`: every node is one super-step
whose update is applied whole, or which raises and applies nothing. After each
super-step the stream projects the new state into events; the host's generator
turns each event into chunks and is suspended while a chunk is sent. The
registry is written only by the generator and read by a separate request. Every
job -- a command of the shell or a run of the host -- takes a directory of its own
by `mkdir` before it does anything else; the directories of one output folder are
all that jobs of different processes share. The browser looks a run up once its stream has ended; the coordinators of several
observations share one reducer.

## 2. The modules

A text is what the code can tell of it: the targets it reads as proposing and
as granting (`AuthorityProvenance`, `Text`). A turn is a speaker and a text; a
generated response is the turn it became. `NoTurn`, `NoTarget`, `NoSkill`,
`NoProvenance`, ... stand for `None`. What a language model, the checker's model
or a mock answers is chosen freely at the step that asks for it. Definitions
commented *Variant* are mutants of the definition that follows them: no
specification uses them.

| module | models | state and actions |
|---|---|---|
| `AuthorityProvenance` | derivation, evaluation, checker context | operators |
| `FiringPolicy` | windows, quota, decisions, reasons | operators on minutes and pairs of numbers |
| `CheckerComparison` | expected side, outcomes, matches | operators |
| `PressureDay` | a day and a quota, with observers of the pressure that know neither windows nor ratios | `Minute`, `Spend` |
| `PromptContract` | the contracts detection can return: validator, axis check, fixtures, history | operators and sets |
| `MinimalLoop` | the loop graph from both entry points | one variable per state field that control reads; `Plan`, the four outcomes of `do` (`DoOutOfScope`, `DoAuthority`, `DoMisreaderFires`, `DoMisreaderDoesNotFire`), `CheckObserves/Skipped/Raises`, `Explain/ExplainSkipped`, `DoRaises` |
| `CauseSide` | the abstract specification both graphs implement: a run deliberates, acts and rests by a policy fixed from the start; there is no checker and no explanation in it | `policy`, `conversation`, `phase`, `fired` |
| `FixedScenarioGraph` | the one-pass graph | one action per node, `NodeRaises` |
| `StreamProjection` | the part both streams share: which events a state yields | operators on a stream record, the relations its properties are stated with, and the lemmas both streams' proofs cite |
| `RunStream` | `MinimalLoop` with its event stream and final artifacts | each super-step with its projection is one action; `Raise`, `Finish` |
| `FixedStream` | `FixedScenarioGraph` with its event stream | likewise |
| `RunLifecycle` | the abstract record of a run: it begins, it is settled once | `status` |
| `HostRequest` | what makes the body of a request acceptable | operators |
| `RunHost` | host, registry, chunks, disconnects | `Accept`, `Reject`, `StartGenerator`, `SendChunk`, `RunnerYields/Completes/Raises`, `CancelledInGenerator`, `ClosedAtAYield` for the server; `Post`, `Read`, `GoAway` for any client |
| `Workspace` | `RunHost` with the real client in place of the arbitrary one | `ScenariosArrive`, `ScenariosMissing`, `Observe`, `StreamEvent`, `StreamEnds`, `StreamFails`, `Reconcile(Fails)`, `AbortHandled` |
| `RunDirectory` | the search for a directory, one `mkdir` at a time | `StartSearch`, `MakeDirectory`, `TryNextSuffix`, `Refuse`, `SearchRaises` |
| `RunArtifacts` | `RunDirectory` with the jobs that search: what each of six commands does, in order | `Prepared`, `Detected`, `GraphEnds`, `StartWriting`, `OpenFile`, `FillFile`, `ListArtifacts`, the ways each of them raises, `Cancel` |
| `ArtifactLog` | the abstract directory of artifacts: it grows, is published as it is, and is sealed | `WriteOne`, `Publish`, `Stop` |
| `MC...` | the finite instances | constants |
| `...Proofs` | the theorems of section 5 | |

Points where the correspondence deserves a word:

- `run` (`scenario` in the one-pass graph) holds the fields of the state that
  are set by the entry point and never written again.
- `skill_triggered` and `misreader_skill_fired` always get the same value in
  `minimal_loop_graph.py`; the model keeps one of them.
- A node that raises (`DoRaises`, `CheckRaises`, `NodeRaises`) ends the graph in
  "failed" with nothing of that node applied, as LangGraph does.
- The branch of `do` for an unsupported contract in scope
  (`minimal_loop_graph.py:316-344`) cannot be reached: such a contract becomes a
  scenario outside the four axes, and `do` returns before it. `PromptContract`
  models the validator this rests on.
- `used / limit >= 0.9` is modelled by `10 * used >= 9 * limit`. The two can
  differ only where a quotient below 0.9 is rounded up to it, for limits beyond
  10^15.
- In `RunHost` the script of a run is the order in which a fixed scenario shows
  its stages; a text is three chunks. A prompt loop would repeat them (`RunStream` has
  its order); to the host a stage is something to send, and its properties tell
  only the chunks that end a stream from the others. Server "yielding" and "draining" are
  suspensions at a `yield` after which the generator goes on or returns;
  "running" is a suspension inside the awaited graph. ASGI cancels the response
  task when the client goes away, so a cancellation can meet the generator in any
  of the three: only in the last does the `except asyncio.CancelledError` clause run.
- `HostRequest` abstracts a message to its role and whether its content is a text,
  blank or no string. A refusal is the same stream whatever its code.
- In `RunArtifacts` a job is a script of operations, one per command. Opening a
  file (which truncates it) and filling it are two steps, so that an error can
  leave half a file. `write_artifacts` is a synchronous node, which LangGraph runs in a thread
  of the executor: `Cancel` ends the job and the thread goes on, with nobody to
  wait for it. The coroutine of a prompt loop writes by itself and cannot be
  cancelled meanwhile. `Agent.run_sync` raises when an event loop is running in
  its thread. These three facts come from the libraries, not from `src/`. Jobs
  are processes in general; where two are runs of one host, the model has more
  interleavings than one event loop.
- `planned` is a history variable: the files a job has set out to write.
- In `Workspace` the identifier of an observation serves as thread, run and
  message id alike: the program draws them freshly and never reuses one.

## 3. The runs

| run | question | result |
|---|---|---|
| `minimal_loop` | Does the cause side of a loop stand on its conversation, do the observers report it faithfully, and do they stay without influence? | holds |
| `minimal_loop_liveness` | Does a loop stop by itself after exactly the iterations it was asked for (one, if fewer were)? | holds |
| `run_stream` | Is what a client of a prompt loop is shown in agreement with the loop's state, event by event, and is what a completed run publishes the text it streamed last? | holds |
| `run_stream_checker` | Does the client's last checker result match the state in every iteration? | violated: section 6 |
| `fixed_scenario` | Does the writer find what it needs, does the published trace tell what happened, does a safe control report nothing? | holds |
| `fixed_stream` | Is each stage of a fixed scenario shown once and in causal order? | holds |
| `run_host` | Is a record settled at most once and before it is reported, with clients that leave at any moment? | holds |
| `run_artifacts` | Does each job have a directory of its own that holds a prefix of its files, do its results name exactly what it wrote, does every job end? | holds |
| `run_artifacts_live` | Does a prompt loop without `--mock` get past its detection? | violated: section 6 |
| `run_artifacts_trace` | Does every command flush its trace? | violated: section 6 |
| `pressure_day` | Does the firing policy agree, at each minute and each level of use, with somebody who only watches the day go by? | holds |
| `workspace` | Does the screen show one observation, agree with the host and settle, with observations abandoned, connections broken and lookups failing? | holds |

The properties, by the hazard they answer:

- **Later iterations see what earlier ones left.** `LaunderingIsGrounded` (an
  earlier agent proposal of the very target, and no grant by a principal
  anywhere in the conversation), `AgentCannotAuthorizeItself` (an authorised
  attempt was granted in the *initial* conversation), `ProposalOfRecordIsStable`
  (what the loop says never moves the evidence), `ExplanationIsFresh`.
- **Observers are no causes.** `ImplementsCauseSide` and
  `FixedImplementsCauseSide`: checking and explaining are stutters of a
  specification that has neither. `OutcomeFollowsTheCause` (with the failure mode
  that belongs to the axis) and `ApplicableContractsAreObserved`: and they observe
  whether or not something fired.
- **Two cuts of one history.** `CheckerSeesTheHistoryOfTheCause`,
  `CheckerIsToldTheHistoryOfTheCause`: `check` re-reads a history that `do` has
  already extended.
- **Bookkeeping over many nodes.** `StepTracesFollowTheGraph`,
  `StreamsEveryNewTurnOnce`, `EachStageIsShownOnce`,
  `StagesAreShownInCausalOrder`, `ShownCauseIsTheFrozenCause`,
  `FirstCheckerIsShown`.
- **The last node needs what the first ones did.** `WriterFindsItsInputs`,
  `PublishedTraceReportsTheRun`, `SafeControlReportsNoDrift`,
  `CompletedRunPublishesItsLastText`.
- **Disconnects and late answers.** `ImplementsRunLifecycle`,
  `CompletionIsRecordedBeforeItIsSent`, `NothingFollowsTheEnd`,
  `ScreenShowsOneObservation`, `SettledScreenAgreesWithTheHost`,
  `FailureIsFinal`, `ObservationSettles`.

- **Edges of windows and ratios.** `PolicyFollowsTheDay`.
- **Jobs that compete, fail half way or are cancelled.** `DirectoriesAreNotShared`,
  `RefusedOnlyIfFull` (names are handed out without gaps),
  `ResultListsItsOwnFiles` (every list a batch makes, not only the last),
  `EarlyEndLeavesAPrefix` (a whole prefix, but perhaps for the last file, however
  the job ends), `ImplementsArtifactLog` (nothing is removed or listed falsely, and
  nothing changes once the last writer is done), `JobsEnd`.

`TypeOK`, `FixedTypeOK`, `HostTypeOK`, `ArtifactsTypeOK` and `WorkspaceTypeOK` are
the type invariants. Some carry a fact of the code: the kept explanation
is never the one that quotes the history, a run that was never started has no record,
the screen never shows the host's `in_progress`.

Five things the model shows that read like defects and that the repository
nowhere promises otherwise, so they are no findings:

- A run whose client leaves while a chunk is being sent keeps the status
  `in_progress` for ever (`ClosedAtAYield`): the generator is closed at its
  `yield`, and no clause of it runs. Properties that concern the record say "at
  most once" and not "eventually".
- A workspace whose list of scenarios could not be loaded, or is empty, reads
  "Loading" until the page is reloaded: `ObservationSettles` excepts it.
- A screen that showed `run.completed` turns into a failed one if the lookup that
  follows fails; it keeps the completed projection. `SettledScreenAgreesWithTheHost`
  is stated accordingly.
- The directory of a cancelled fixed run may still grow after its record says
  "cancelled": the log is sealed when the thread is done, not when the run is.
- The status "cancelled" never reaches the screen: an abandoned coordinator's
  dispatch finds the thread of its successor, and is dropped.

## 4. Bounds and fairness

- **`minimal_loop`**: at most two iterations, asked for as 0 or 2. State crosses
  from one iteration to the next only through the fields of `WhoseAgentState`,
  and two iterations are what it takes for a stale field to be seen. The five
  conversations hold a bare request, a grant, an agent proposal, an agent turn and
  a user turn that read as both at once, and a tool turn that reads as a grant
  next to a proposal of another target. Five texts may be generated, at every
  step. Signals lie one minute before the evening window, inside it, and at 8/9
  and 9/10 of a quota. Each of the four scenarios has a different
  axis, skill and template. The checker sees a bypass or none. The liveness run
  has smaller inputs and limits 0, 1 and 2.
- **`run_stream`**: the prompt entry point, which alone streams, with limits 1 and 2.
- **`fixed_scenario`, `fixed_stream`**: every combination of axis, skill,
  template and safe response that the schema's validator admits and the scenario
  files use, with four histories.
- **`run_host`, `workspace`**: two runs and `WireCapacity` = 2. Two are enough
  for one observation to replace another; runs of the host share no state but
  the registry, keyed by run. A capacity below the number of chunks of a run
  makes a send wait, so that a client can leave during one; 2 is less than the
  three chunks of a text. Symmetry is used where only safety is checked. Both
  systems really may stop (every run over, nobody asking for another), so
  deadlock is not checked there.

  The bodies posted to `run_host` are one that is acceptable in each mode and four that
  are not; the workspace posts fixed runs and may know a scenario the host no
  longer has.
- **`run_artifacts`**: two jobs, seven kinds of request (each command; with and
  without a model where it matters), any of which may meet any other; one second,
  so that every pair competes, and two names in it, so that the last one can be taken: by
  the other job or by one that came before. The code has a thousand names; the
  search treats them alike, and the proofs are for every number. A batch has two scenarios, the fewest for which a list can be early;
  a fixed scenario leaves one file or five. `FixedGroupsAssumption` relates the
  two groups to all the code can produce.
- **`pressure_day`**: every minute of the day, a limit of 10 and a use up to 12:
  below, at and above nine tenths and above the limit.

**Fairness.** `FairSpec` is weak fairness of `Next`: `invoke` runs the nodes one
after the other in one thread until the graph ends. In `FairWorkspaceSpec` the
server's steps, the handling of a chunk or of the end of a stream, and the
answer to a lookup or to the request for the scenarios (or their failure) are each
weakly fair, and so is the effect that observes the default conversation: the
event loops of server and browser run what is ready, and a mocked graph ends.
Nothing is assumed of the user or the network: nobody must select another
conversation, and no connection must break. `AbortHandled` has no fairness either, and settling does
not need it. In `FairArtifactsSpec` the steps of each job are weakly fair
together: its process is scheduled, and what it waits for -- a node, a model
call, the file system -- returns or raises. That a graph comes to its end is what
`CompletesItsIterations` shows for the loop, and the one-pass graph has no cycle.
Nobody has to start a job or cancel one.

## 5. The proofs

All theorems are checked by TLAPS, for every value of the constants under the
named assumptions of the modules (histories are non-empty sequences of messages,
signals are minutes and pairs of naturals, iteration limits are integers,
scenarios, requests and observations are of the schema's types; the wire holds at
least one chunk; a directory name has at least one attempt; a quota is positive;
`NoRun` is no run). Every one of these assumptions is evaluated by TLC on the
instances of section 3.

| theorem | module | says |
|---|---|---|
| `TypeCorrect` | `MinimalLoopProofs` | `Spec => []TypeOK` |
| `LaunderingGrounded` | `MinimalLoopProofs` | `Spec => []LaunderingIsGrounded` |
| `AgentNeverAuthorizesItself` | `MinimalLoopProofs` | `Spec => []AgentCannotAuthorizeItself` |
| `ProposalNeverMoves` | `MinimalLoopProofs` | `Spec => ProposalOfRecordIsStable` |
| `AuthorityPathNeverSwitches` | `MinimalLoopProofs` | `Spec => AuthorityPathIsStable` |
| `LoopImplementsCauseSide` | `MinimalLoopProofs` | `Spec => ImplementsCauseSide`: the loop refines the cause side |
| `ExplanationsAreFresh` | `MinimalLoopProofs` | `Spec => []ExplanationIsFresh` |
| `CheckerIsToldTheCause` | `MinimalLoopProofs` | `Spec => []CheckerSeesTheHistoryOfTheCause` |
| `ApplicableContractsObserved` | `MinimalLoopProofs` | `Spec => []ApplicableContractsAreObserved` |
| `OutcomeReportsTheCause` | `MinimalLoopProofs` | `Spec => []OutcomeFollowsTheCause` |
| `TracesFollowTheGraph` | `MinimalLoopProofs` | `Spec => []StepTracesFollowTheGraph` |
| `FixedTypeCorrect` | `FixedScenarioGraphProofs` | `FixedSpec => []FixedTypeOK` |
| `WriterAlwaysFindsItsInputs` | `FixedScenarioGraphProofs` | `FixedSpec => []WriterFindsItsInputs` |
| `PublishedTraceIsTheRuns` | `FixedScenarioGraphProofs` | `FixedSpec => []PublishedTraceReportsTheRun` |
| `SafeControlsReportNoDrift` | `FixedScenarioGraphProofs` | `FixedSpec => []SafeControlReportsNoDrift` |
| `CheckerToldTheHistoryOfTheCause` | `FixedScenarioGraphProofs` | `FixedSpec => []CheckerIsToldTheHistoryOfTheCause` |
| `FixedGraphImplementsCauseSide` | `FixedScenarioGraphProofs` | `FixedSpec => FixedImplementsCauseSide`: so does the one-pass graph |
| `StreamImplementsLoop` | `RunStreamProofs` | `StreamSpec => Spec`: a streamed loop is a loop |
| `EveryTurnIsStreamedOnce` | `RunStreamProofs` | `StreamSpec => []StreamsEveryNewTurnOnce` |
| `ShownCauseIsFrozen` | `RunStreamProofs` | `StreamSpec => []ShownCauseIsTheFrozenCause` |
| `FirstCheckerIsAlwaysShown` | `RunStreamProofs` | `StreamSpec => []FirstCheckerIsShown` |
| `CompletedRunPublishes` | `RunStreamProofs` | `StreamSpec => []CompletedRunPublishesItsLastText` |
| `FixedStreamImplementsGraph` | `FixedScenarioGraphProofs` | `FixedStreamSpec => FixedSpec`: a streamed graph is a graph |
| `EveryStageIsShownOnce` | `FixedScenarioGraphProofs` | `FixedStreamSpec => []EachStageIsShownOnce` |
| `StagesFollowTheirCauses` | `FixedScenarioGraphProofs` | `FixedStreamSpec => []StagesAreShownInCausalOrder` |
| `HostTypeCorrect` | `WorkspaceProofs` | `HostSpec => []HostTypeOK` |
| `CompletionRecorded` | `WorkspaceProofs` | `HostSpec => []CompletionIsRecordedBeforeItIsSent` |
| `StreamsEndOnce` | `WorkspaceProofs` | `HostSpec => []NothingFollowsTheEnd` |
| `HostImplementsLifecycle` | `WorkspaceProofs` | `HostSpec => ImplementsRunLifecycle`: the registry refines the lifecycle of a run |
| `WorkspaceTypeCorrect` | `WorkspaceProofs` | `WorkspaceSpec => []WorkspaceTypeOK` |
| `ScreenOfOneObservation` | `WorkspaceProofs` | `WorkspaceSpec => []ScreenShowsOneObservation` |
| `ScreenAgreesWithTheHost` | `WorkspaceProofs` | `WorkspaceSpec => []SettledScreenAgreesWithTheHost` |
| `FailureStays` | `WorkspaceProofs` | `WorkspaceSpec => FailureIsFinal` |
| `HostKeptByTheWorkspace` | `WorkspaceProofs` | the three invariants of the host hold of `WorkspaceSpec` |
| `RecordsKeptByTheWorkspace` | `WorkspaceProofs` | `WorkspaceSpec => ImplementsRunLifecycle` |
| `DirTypeCorrect` | `RunArtifactsProofs` | `DirSpec => []DirTypeOK` |
| `DirectoriesNeverShared` | `RunArtifactsProofs` | `DirSpec => []DirectoriesAreNotShared` |
| `RefusedOnlyWhenFull` | `RunArtifactsProofs` | `DirSpec => []RefusedOnlyIfFull` |
| `JobsImplementSearch` | `RunArtifactsProofs` | `ArtifactsSpec => DirSpec`: the jobs refine the search |
| `JobsNeverShare` | `RunArtifactsProofs` | `ArtifactsSpec => []DirectoriesAreNotShared` |
| `JobsRefusedOnlyWhenFull` | `RunArtifactsProofs` | `ArtifactsSpec => []RefusedOnlyIfFull` |
| `ArtifactsTypeCorrect` | `RunArtifactsProofs` | `ArtifactsSpec => []ArtifactsTypeOK` |
| `ResultsListTheirOwnFiles` | `RunArtifactsProofs` | `ArtifactsSpec => []ResultListsItsOwnFiles` |
| `EarlyEndsLeavePrefixes` | `RunArtifactsProofs` | `ArtifactsSpec => []EarlyEndLeavesAPrefix` |
| `DirectoriesAreLogs` | `RunArtifactsProofs` | `ArtifactsSpec => ImplementsArtifactLog`: the jobs refine a log each |
| `PolicyAlwaysFollowsTheDay` | `PressureDayProofs` | `DaySpec => []PolicyFollowsTheDay` |
| `FixturesAnswerOneContract` | `PromptContractProofs` | a mocked detection gives every prompt one contract that passes all checks |
| `HistoryAloneGivesTheContract` | `PromptContractProofs` | an ungranted proposal in the history gives the authority contract, and no check stops it |

**Operators.** `PromptContractProofs` also holds the lemmas both graphs need.
They say what the derivation of provenance returns, that extending a history by
an agent turn changes neither its first proposal of a target nor its grants -- the
fact everything about later iterations rests on -- and that a checker's context for a
target is read off the turns before the last one.

**The loop.** `TypeOK` is not inductive on its own: the checker reads the last
turn, so `Typed` adds that a conversation is never empty. The history properties
are not inductive either: an iteration judges a conversation that earlier
iterations have extended. `CauseInv` adds that every turn after the initial ones
is an agent's, that an authorised result is backed by a grant in the
conversation (so, by the first, in its initial turns), and that the turn of record is the
first agent proposal of its target. `StepsOfTheCause` shows that only
`DoAuthority` touches the evidence; `AuthorityPathKeepsTheEvidence` is the one
step that needs an argument. The action properties follow from the same invariant.

**The refinement.** `PolicyInv` adds to `Typed` that whether a fixed
scenario has a framework is settled by its skill, and that every `do` finds it settled; from it the policy read off a run
never changes, and each node is shown to be a step or a stutter of `CauseSide`.

**The observer side.** `ObserverInv` says what each field that survives a node still
means there: a cause is of the last text (`CauseIsOfTheLastText`), the run has the
contract it was started with (`RunIsOfItsContract`), the reported axis and the failure
mode are of one iteration (`AxisOfTheIteration`), an outcome is of its comparison
(`ComparisonOfTheIteration`), and the last step trace is of the node that ran last
(`LastTraceIsOfTheLastNode`). Three of the proved properties are part of it; the two
about outcomes follow from it. The checker's two cuts of one history meet in
`ContextOfTheDefaultTarget`: the turns before the generated one are those the
cause was derived from.

**The one-pass graph.** The graph has no cycle, so `FixedInv` says by the stage a
node belongs to what has been settled by then: the route a scenario takes
(`RouteOfTheScenario`), that a response is the last turn (`ResponseIsTheLastTurn`), that
nothing fires outside the scope (`NoDriftOutsideTheScope`), the skill
(`SkillOfTheScenario`), the cause and the check of the response, and what the reports
and the files contain (`ReportOfTheRun`). The refinement of `CauseSide` then needs, in
each node, only the facts of its stage: the skill counts as fired with the response.

**The streams.** `StreamProjection` says of any stream and any view what projecting a
state does: which events a step of each kind adds, where the events of a kind are
after some were added (`PlacesAfter`), when the last or only one stays that
(`LastStays`, `AddedIsTheLast`, `AddedIsTheOnly`), and when the order is kept
(`OrderIsKept`). Those lemmas do not depend on a graph. The stream only watches its
graph (`StreamStepsAreLoopSteps`, `StreamStepIsAStep`), so `ObserverInv` and
`CauseInv`, or `FixedInv`, hold under it and its own invariant may use them.

In a prompt loop, `ClientInv` adds to three of the properties what a later
iteration needs: only steps that are there were dealt with (`NoStepAhead`), so
that a new one is projected; the text of the iteration is the last turn, and is
one of the new ones (`TextOfTheIteration`); the checker flag is set exactly from the
first check on (`CheckerSinceTheFirst`), because a loop started from a prompt always
has an outcome to show; every iteration left a do step (`DoIsThere`); and what a
completed stream wrote (`EndOfTheStream`). The fourth property follows: the last do
step is the one the last text belongs to (`LastDoStepIsThere`).

In the one-pass graph the same state is projected several times. `StepsAreDealtWith`
says that after every node but the first of the two checks the last step trace
was dealt with, so the nodes that leave none add nothing; `ComparedOnce`, that
the comparison is made once and the flag follows it; `StagesAreShown`, that each
stage is shown once exactly if the state holds it, in causal order.

**The host.** `CompletionIsRecordedBeforeItIsSent` speaks of chunks on the wire,
but they come from what waits to be sent, and `fail()` overwrites any status.
`HostInv` adds that what is *pending* announces a completion only if it is
recorded, and that a generator that is running or will go on has an unsettled
record: so `fail()` only ever meets a record in progress. A step touches one run
(`OnlyOneRunMoves`), and the invariant is one of each run (`PerRun`), so that the
inductive step is about the run that moves (`MoverKeeps`). `StreamsInv` adds where an
end may be -- last on the wire with nothing pending, or last of what is pending --
and that a generator that will go on has not sent one.

**The workspace.** The browser's steps leave the host's invariants alone (`HostSide`),
or are steps of the host. `FollowInv` says, for each coordinator, what it knows of
its run: one that streams is the current one, still connected, and its run
ends with a record, an error it was told of, or an error on its way to it; and it looks
up completed runs only. So a stream that ends never leaves the screen to guess.
`ScreenInv` relates the screen to the current coordinator and to the registry: a
failure is shown of a current observation only while its coordinator, told of the
error, waits for the end of its stream, which is why nothing overwrites it.

**Run directories.** `RefusedOnlyIfFull` is almost inductive; `DirInv` adds that a
job that has not read the clock is at the first suffix, for otherwise starting a
search would claim names it never tried. Names only ever get taken
(`TakenGrows`), so what a job has passed over stays passed over while others go
on. `JobsImplementSearch` shows that each step of a job is a step of that search or
leaves it alone; the results then hold of the whole jobs.

**Their contents.** `FilesInv` says of each job where it is in its script (`Stage`),
that it plans no file twice and each for an operation it has come to
(`PlannedInOrder`), that the files still to write are the tail of those planned, so that the
length of that tail names the prefix that is there, with the file that is begun
partial (`Holds`), and that every list was such a prefix (`Listed`). The scripts enter
only through `GoodScript`, proved of each kind of request: no operation of a
script writes a file another one writes, and a script that lists anything ends with a list. A job that is cancelled keeps
its tail, and its thread writes on; the refinement of `ArtifactLog` seals the log
when the tail is empty.

**The day.** `DayInv` says what the observers stand for: the rush hour is on
exactly in the windows (`RushIsOn`), and what is left is the limit less what
was used, cut off at zero (`LeftIsTheRest`). From these `WindowsAreRushHours`
and `QuotaIsShort` connect them with the code's comparisons. The limit and the
use are arbitrary.

**Contracts.** The catalog may lack any skill, but those it has declare the axes the
fixtures name, as the files under `skills/` do (`CatalogFitsFixtures`). At most
one fixture is the first that matches; it is reported with its skill or as
unsupported, and both pass.

**Only model-checked**: the liveness properties (`CompletesItsIterations`,
`ObservationSettles`, `JobsEnd`), which are out of the prover's reach. Every
other property of a passing run is stated by one of the theorems above, without the
bounds of section 4. The three properties of section 6 are refuted, not proved.

## 6. What the project found

**A stream shows the first check only.** `run_stream_checker` checks `ShownCheckerIsTheChecker` and TLC refutes it.
`_project_state_progress` (`src/whose_agent/execution.py:413`) shows a check only
while `checker_emitted` is false, and the flag is set once per stream. From the
second iteration of a prompt loop on, a client has been shown the text, the
cause and the explanation of the current iteration, but the checker result of
the first one, while `run.completed` carries the outcome of the last.
`README.md:167-168` calls the stream a projection of the state. For one-iteration
runs, which is what the workspace starts, `FirstCheckerIsShown` holds.

**A live prompt loop does not reach its model.** `run_artifacts_live` checks
`LivePromptLoopReachesTheModel` and TLC refutes it. `stream_prompt_loop` is a
coroutine and calls `detect_prompt_contract` directly
(`src/whose_agent/execution.py:199`); without `--mock`, and unless the history
decides, that ends in `agent.run_sync` (`prompt_contract_detector.py:74`), which
cannot run inside a running event loop and raises. The nodes of the graphs call
models from threads of the executor and are not affected, nor is the command
`detect-contract`, which has no loop. `docs/design.md:644-652` describes the
artifacts of a live `run-prompt-loop`; the tests of it run only with credentials.

**A command that raises does not flush its trace.** `run_artifacts_trace` checks
`EndedCommandsAreFlushed` and TLC refutes it. `run` and `run-prompt-loop` open a
trace and flush it when they succeed; when a graph, a detection or a write
raises, `main` (`src/whose_agent/cli.py:346`) prints the error and returns, and
the root span is never ended. `tests/test_observability.py:527` says the tracer is
flushed "at end of each command".

## 7. What is not modelled

- **What a model says**: prompts, generation, reflection, extraction by regular
  expressions, the mock markers. All of it is the environment's choice.
- **Wording**: `trigger_evidence`, narrative, rendering of traces and components.
- **LangGraph's recursion limit**: the graph library gives up after a fixed number of
  steps, so a command line that asks for very many iterations ends in its error;
  the host asks for at most three. `CompletesItsIterations` speaks of loops short
  of that limit.
- **Tracing** spans, which change no state; whether a command's trace is open is
  part of `RunArtifacts`.
- **The content of files**, parsing of arguments and message files, printing. A
  process that is killed: it leaves what a write error leaves.
- **Scenario ids** of a batch are taken to be distinct, as those of the repository
  are; nothing enforces it, and two scenarios of one id would write the same
  files.
- **The codes of refusals**, read-only endpoints and static
  files of the host; normalisation of payloads and the history pane in the browser.
- **A restart of the host** loses the registry; to a client this is a lookup
  that fails, which `ReconcileFails` covers.

## 8. Plan

In this order. All of it exists.

1. `AuthorityProvenance`, `FiringPolicy`, `CheckerComparison`, `PromptContract`,
   `MinimalLoop`, `CauseSide`: the loop and its abstract specification.
2. `RunStream` over `MinimalLoop`, `FixedScenarioGraph`, `FixedStream` over it.
3. `RunHost`, `HostRequest` and `RunLifecycle`, `Workspace` over `RunHost`.
4. `PromptContractProofs`: the operators and the contracts.
5. `MinimalLoopProofs`: the cause side of the loop, its refinement, and then the
   observer side.
6. `RunDirectory`, `RunArtifacts` over it, `ArtifactLog`.
7. `PressureDay` and `PressureDayProofs`.
8. `RunArtifactsProofs`: the search, the jobs, their files, the refinement of
   `ArtifactLog`.
9. `FixedScenarioGraphProofs`: the one-pass graph, its refinement, its stream.
10. `WorkspaceProofs`: the host first, then the browser as its client.
11. The lemmas of `StreamProjection`, and `RunStreamProofs` over them and
    `MinimalLoopProofs`.

What could follow: more of what section 7 leaves out (the regular expressions of
the mock extraction, a restart of the host as a step of its own), and the host
with the streams in place of its script, which would carry `EachStageIsShownOnce`
to what a client is sent.
