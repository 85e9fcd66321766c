# Verification of kairo-ide

kairo-ide is a Theia-based IDE for old Java web projects. Three processes share the work:
an **Electron main process** that starts and supervises the others (`src/apps/desktop`), the
**front end and its Theia backend** in TypeScript (`src/packages`), and the **runtime
agent**, a Go process that builds projects with javac, deploys them, runs Tomcat 6 servers
and reports over HTTP and WebSockets (`src/runtime-agent`). This directory holds TLA+ models
of the parts that have to survive concurrency, crashes and retries, TLC runs on small
instances of them, and TLAPS proofs for every value of their constants.

Contents: [1 Inventory](#1-inventory) · [2 Plan](#2-plan) · [3 Modules and the code](#3-modules-and-the-code) ·
[4 Runs](#4-runs) · [5 Fairness](#5-fairness) · [6 Proofs](#6-proofs) ·
[7 Disagreements found](#7-disagreements-found) · [8 Not modelled](#8-not-modelled) · [9 Running it](#9-running-it)

## 1. Inventory

Front end, Theia backend and desktop (paths below `src/packages` unless they begin with `src/`):

| component | state it keeps | operations | what must hold |
|---|---|---|---|
| **Event streams** `runtime-extension/src/browser/runtime-connection-service.ts` | workspace, subscribers, one shared stream with its socket, reconnect timer and last sequence number | subscribe, unsubscribe, move to a workspace, refresh, reconnect | one live stream, for the current workspace; the status shown is its; no event is skipped but by a full channel or an overtaking number; it connects again |
| **Document sync and save actions** `java-extension/src/browser/java-document-sync*.ts`, `java-save-actions.ts` | per document: text, pending edits, debounce timer, whether its didOpen went out | open, edit, close, flush, state events, completion, format and organize imports on save, explicit format | the server's copy is a text the document had, never older than before; messages in protocol order; in the end the copies are the documents |
| **Java language server lifecycle** `java-extension/src/browser/java-ls-lifecycle.ts` | desired project, launch descriptor, remembered key, chain of transitions, restart timer and count | activate, deactivate, restart | a start is skipped for the right server only; restarts stop; the server of the current project ends up running |
| **Java language server manager** `java-extension/src/node/jdt-ls-manager.ts`, `jdt-ls-service.ts` | child process, state, shared stop | start, stop, exits of children | no child runs that nobody owns; a stop answers all who wait for it |
| **Desktop supervisor** `src/apps/desktop/src` | child process, process manager's entry, `agent-state.json`, flags of respawn and quit | reuse, start, respawn, switch, quit | one agent on the port the front end knows; a crash leads to a respawn; a quit takes the agent down |
| **Agent requests, server and deployment views** `runtime-connection-service.ts`, `tomcat-extension/src/browser/server-store.ts` | health, workspace context, lists of servers fed by snapshots and events | poll, retry, refetch | no newer event is overwritten by an older snapshot |

Runtime agent (paths below `src/runtime-agent/internal`):

| component | state it keeps | operations | what must hold |
|---|---|---|---|
| **Event bus** `transport/events` | atomic sequence number; history ring (one for all workspaces); map of subscribers, each with a bounded channel and a `done` channel | `Publish`, `Subscribe` (with replay), `unsubscribe`, `Serve` | a served connection gets each event of its workspace once, in the publisher's order, replayed ones first, or its own full channel lost it; publishing never blocks; a resumed connection learns what it missed |
| **Operation registry** `api/operation_registry.go` | map from (scope, kind, request id) to a record: payload hash, state, `done` channel, completion time | `ClaimOrWait`, `Finish`, eviction by age and size; used by the handlers for builds, deployments and server starts | one worker per key; no second execution while a record is kept; waiters are served; the map is bounded; a replay is of the same, finished operation |
| **Server runner** `services/server.go`, over `tomcat6`, `proc`, `runtimeplan/ports.go` | server records, saved to `servers.json`; table of instances; leased ports; one managed process per Tomcat | Start, Stop, Restart, Debug, Recover, Get/List, load and save | a server shown as running can be stopped; stopped means dead and no process is leaked, unless requests overlap or a stop gave up on a process; what ran when the agent died is offered for recovery; requests return |
| **Build engine** `services/build.go`, `build/compiler.go` | list of builds, saved to `finished.json`; table of running builds with their contexts | Start, the goroutine `run`, Get, List, Cancel, trim, load | a build moves forward only; a cancelled build stays cancelled and is not used; Cancel's answer is true; the list is bounded |
| **Launch orchestrator** `services/launch_orchestrator.go` | none of its own | build, deploy, run in turn; `waitForBuild` polls and cancels | a launch ends; it uses only what was built |
| **Deployment** `services/deploy.go`, `deploy/` | deployment records; files in webapps | Publish, Get, List, Undeploy, file sync with rollback | target equals source or is rolled back; records are consistent for readers |
| **Agent lifecycle** `api/lifecycle.go`, `api/server.go` | `agent-state.json` with a generation; listening socket | start, handoff to a new generation, restart, exit | one generation owns the file and the port |
| **Debug bridge** `debug/` | sessions, breakpoints, pending JDWP commands | attach, suspend, resume, redefine | replies reach their command; the state machine has no illegal move |
| **Search, remote, project models** `search/`, `remote/`, `maven/`, `jdtproject/` | sessions | scans, tunnels, conversions | mostly I/O |

How they interact. The desktop's main process starts the agent and the Theia backend, finds the
agent's port in `agent-state.json` and respawns a dead agent on that port; an agent that
restarts itself spawns its successor and hands the port over. In the agent an HTTP handler
claims its operation key in the registry, calls one service, and finishes the key; services
publish to the event bus, whose connections are the front end's event streams. The launch
orchestrator calls the build engine, the deployer and the server runner in turn, in the
goroutine of the request. In the front end, the lifecycle follows the active project and asks the
Theia backend over one JSON-RPC connection to start and stop the Java language server; state
events come back over the same connection, and the document sync and the requests for completion
and formatting live by them. Everything in memory is lost when the agent exits; server
records and builds are saved after each change; Tomcat processes outlive the agent on
Unix and die with it on Windows.

What makes it hard: each service of the agent has one mutex that is *released around everything
that takes time*, so requests interleave at the gaps; the TypeScript parts have no locks at
all, and *every `await` is a gap* in which the user, a timer, an exit event or another call may run;
what was read before it is used after it, guarded by tokens, flags and remembered keys. Channels are
bounded and sends are dropped; batches wait behind timers; stops give up after a while;
exit and close events arrive after their successors were installed. `PROJECT.json` lists each
such place as a hazard, at its line, with the properties aimed at it.

## 2. Plan

Ordered by how much depends on the component.

1. `EventHub`, `EventHubProofs` - the event bus. **Done.**
2. `OperationRegistry`, `OperationRegistryProofs` - idempotency of requests. **Done.**
3. `ServerRunner`, `ServerRunnerProofs` - servers and processes. **Done**; left: an abstract
   server that it implements for requests that come one after the other.
4. `BuildEngine` against the abstract `BuildLedger`, `BuildEngineProofs`. **Done**; left: output
   directories shared by two builds, together with 9.
5. `AgentSupervisor`, `AgentSupervisorProofs` - the desktop, the agent's hand-over and
   restart, and the state file between them. **Done**; left: the Theia backend, supervised by the same code.
6. `AgentEvents`, `AgentEventsProofs` - the front end's end of the event bus. **Done**; left: its
   composition with the hub itself, rings that overflow included.
7. `DocumentSync` against the abstract `DocumentMirror`, `DocumentSyncProofs` - editor, debounce, state
   events and a server that crashes. **Done**; left: the fallback after a permanent failure of the connection.
8. `LanguageServer`, `LanguageServerProofs` - lifecycle, connection, service and manager. **Done**; left:
   Java versions that are too old, and the loss of the connection.
9. `Deployment` - publish, synchronisation and rollback, records handed to readers; then `Launch`,
   which composes it with `BuildEngine` and `ServerRunner`.
10. `ServerViews` - stores fed by snapshots and by events, composed with `AgentEvents`.
11. `DebugSession` - request/reply matching and the session's state machine.
12. `Search`, `Remote` - cancellation of sessions.

Runs are few: the liveness and safety runs of one module are merged where their
instance allows it.

## 3. Modules and the code

In the modules of the agent an action is one critical section or one blocking call of the code, so
the interleavings are those of goroutines between an unlock and the next lock; in those of the
TypeScript parts it is what runs between two awaits. Operators whose
name ends in `Bug` are plausible slips, kept beside the definition they spoil; they are used
by no specification and serve to check that the properties notice them.

**EventHub** (`eventhub.go`, `websocket.go`). `TakeSequence` is the atomic increment before the
lock; `StoreAndCopy` the locked part of `Publish` (ring and copy of the subscribers); `SkipGone`,
`Enqueue`, `ChannelFull`, `SendGap` one turn each of the sending loop after the unlock;
`PublishReturn` its end. `Subscribe` is one critical section with the replay, `SubscribeRefused` the closed
channel at `maxSubscribers`. `Consume` and `ConsumeZero` are turns of `Serve`, `Unregister` and
`CloseDone` the two halves of `unsubscribe`. The ring is modelled with head and count, as in
the code; a channel is the sequence of all that was put into it and how much of it was read.
`stored`, `joined` and `lost` are history variables.

**OperationRegistry** (`operation_registry.go`, handlers of `handlers.go`). `Claim` is `ClaimOrWait` up to
its unlock: eviction first, then `Win`, `Conflict`, `Replay` or `Wait`. `Wake` is the closed `done`
channel, `Cancel` the request's context, `Reread` the second critical section of a waiter. `Run` is the
side effect, with either outcome, and `Finish` the end of the handler. `heap` keeps the records apart from the
map, since handlers hold pointers to records that may have left it. `AgentRestart` empties the
map. Requests without an id (`ClaimUnkeyed`) run untracked.

**ServerRunner** (`server.go`, `tomcat6.go`, `proc.go`, `ports.go`). One `Begin...` action per operation
copies what the code copies under its first lock; then `SignalTerm`, `GraceExpires`, `SignalKill`,
`Gone`, `ForceExpires` are the stages of stopping, with `Signal` the check of the process's identity that comes before
either signal (`verifyProcessIdentity`, which may fail for a living process; the model leaves the outcome open); `ReadPort`, `PickPort`, `LeasePort`, `Spawn`, `Ready`,
`ProbeExpires`, `Aborted` those of launching, with the retry on another port; `RecordStopped`, `RecordError`,
`Untrack`, `Record` the last critical sections. The environment is `Bind` and `Exit` (Tomcat), `Reap` and
`Monitor` (the goroutines that wait for the process) and `AgentExit`, after which `Load` turns running
servers into crashed ones and processes become orphans or die (`KillOnClose`).
Two history variables say where the code lets go of a process: `excused` holds the servers two requests worked
on at once, and `spared` marks a living process that a stop gave up on, because its identity check failed or
it outlived ten seconds of a SIGKILL.

**BuildEngine** (`build.go`, `launch_orchestrator.go`, `hot_deploy_handlers.go`). `Make`, `List`, `Register` and
`Snapshot` are the steps of `Start`; `Compile`, `Conclude` and `Leave` those of the goroutine; `Cancel` and
`CancelReturns` the two halves of a cancellation; `Poll`, `Abort` and `AbortReturns` the launch's wait.
`SaveState` is what every change shares: set the state, trim the list to the most recent builds
(`Recent`) and write the file. `AgentExit` reloads the file. A build object lives on after the list has
dropped it, as the pointer in the goroutine does. Builds do not know each other except through the
list, and a request for a build is a record beside it (`starter`).

**BuildLedger** is the abstract specification of the build engine: what a reader finds under a
build id only moves from unknown to queued, running and one final state, or is forgotten
when a newer build makes the list too long. It has no goroutines, no file and no restarts.
`BuildEngine` implements it under the mapping `Visible`.

**AgentSupervisor** (`main.ts`, `child-lifecycle.ts`, `process-manager.ts` of the desktop; `cmd/kairo-runtime/main.go`,
`api/lifecycle.go`, `api/server.go` of the agent). An agent goes through `Boot`, `Bind` or `BindFails`, and on its
own restart `SelfRestart` and `Leave`, writing the state file (`WriteState`, with the comparison of generations) at
each. The session of the desktop is `Launch`, then `Reuse` or `StartAgent`, `PortFound` or `NoPort`, `Ready` or
`NotReady`; `ExitEvent`, `Respawn` and `RespawnSettles` are the exit handlers and the timer behind them, `Switch`
and `Restart` a change of the JDK, `Quit`, `QuitAgent`, `Quitted`, `QuitTimeout` and `FailLaunch` the ways out, `DesktopDies`
the one without any of this. A process is its number and an ephemeral port the number of the process that bound it. A
process asked to die dies. `TreeKill` says whether the final sweep reaches the agent: `taskkill` on Windows
does; on Unix the signal goes to a process group the agent does not lead, and then a quit cut short by the five
seconds may leave an agent (`QuitsClean` fails with `TreeKill` FALSE).

**AgentEvents** (`runtime-connection-service.ts`). The service's calls are `Bootstrap`, `EndpointsFetched`,
`SetWorkspace`, `Subscribe`, `Unsubscribe` and `Reconnect`, which share `ReplaceStream` and `EnsureStream`; an
`EventStream` and its sockets are `Accept`, `Refuse`, `Drop`, `SocketClosed`, `TimerFires` and `Message`. A
slot is reused once the close event of its socket has come. The agent is what a stream sees of it: a publisher takes a
number (`Take`), stores the event and copies the subscribers (`Store`) and sends it to each of them (`Send`), with other
publishers in between, so that events are stored and sent out of the order of their numbers; `Send` may find the channel full. `Accept`
has the replay after a cursor (`Replayed`, `InOrder`, `HasGap`), which stops where the channel is full; then there are `Crash`
and `Restart`. `EventHub` has the inside of the hub. Four history variables hold the fates of the events of this run:
`heard`; `lost` to a full channel; `raced`, overtaken by a later number of their workspace in the history or
on the way to a connection; and `skipped`, those of the overtaken that were not heard and lay behind
the cursor a connection began with, so that nothing will bring them. `promise`
remembers the workspace and the cursor with which a connection to it first began; it starts afresh when the
workspace changes or the agent dies. Events at or before that cursor are promised to nobody: after a
restart a cursor may be ahead of the new numbers and skip the first of them, and a move to another
workspace and back loses what happened meanwhile.

**DocumentSync** (`java-document-sync-core.ts`, `java-document-sync.ts`, `java-save-actions.ts`, completion, the
guard of `jdt-ls-manager.ts`). The user is `OpenDocument`, `ChangeDocument` (ranged, behind the
debounce timer), `ReplaceDocument` (full text) and `CloseDocument`; `DebounceFires` and `FlushPending` send. `BeginAsk`, `SendAsk` and
`ApplyEdits` are a completion or the save actions across their awaits, and from `BeginReformat` on, which does not
flush, an explicit Format Document or Format Selection (the kind `"reformat"`). `Receive` hands the browser one event or
answer (`StateEvent` is `handleStateChange`), `Deliver` the backend one call; `ServerReady` and `ServerCrash` are the process.
Both directions of the connection are queues in order. The texts of a document are numbered as
they arise, and a ranged edit fits only the text just before its own: applied to any other, the copy is `Torn`.

**DocumentMirror** is the abstract specification: the server's copies lag behind the documents, are
always some text they had, never go back, and may vanish. It has no batches, no queues and no
crashes. `DocumentSync` implements it with `mirror <- copy`.

**LanguageServer** (`java-ls-lifecycle.ts`, `java-language-client.ts`, `jdt-ls-service.ts`, `jdt-ls-manager.ts`). In the
browser, `Activate`, `Deactivate`, `Prepared` and `PrepareFails` are the active project and its preparation; the
transition chain runs one operation at a time (`Begin`, `Drop`), each of which asks for the state, stops
what is in the way and starts (`SeesSame`, `SeesOther`, `OldIsStopped`, `Started`, `StartDisposed`, `StartRefused`), with
restarts behind a timer (`SeesState`, `ScheduleRestart`, `TimerFires`). In the backend, `ServeStart`, `Inspected`,
`Resolved`, `Initialized` are the awaits of a start, `ServeStop`, `ShutdownOver`, `GraceOver`, `KillWaitOver` those of a stop, and
`ChildExits` and `ChildCrashes` the exit handler, for the child the manager owns or one it has replaced. A
token that the code compares is a flag that says whether it is still the newest. A child's exit and
its exit event are one step. `NoOrphan` leaves out the child that refused initialize, which the
manager drops without a signal.

The modules `MC...` add the symmetry sets for TLC.

## 4. Runs

Violations show disagreements between code and comment (section 7); the other runs pass.
State counts are distinct states.

| run | instance | shows |
|---|---|---|
| `hub_safety` | 2 publishers, 2 connections, 1 workspace, ring 2, channel 2, 3 events (1.8 M states) | types, ring, no duplicates, replay before live, publisher order, no silent miss |
| `hub_liveness` | 1 publisher, 2 connections, 2 workspaces, ring 1, channel 1, 1 registration (0.6 M) | every Publish returns though a connection never reads |
| `events_safety` | 2 workspaces, 2 streams, 2 events per run of the agent, channel of 1, 1 crash, 3 moves (1.0 M) | one live stream, current status, no gap but by a full channel or an overtaking number, connects |
| `docsync_safety` | 1 document, 3 texts, 2 starts, queue of 2 (0.6 M) | no torn copy, protocol order, fresh answers to what flushed, refinement of the mirror, convergence |
| `ls_safety` | 2 projects, 2 restarts, 1 retry, 4 children, 3 changes, 2 crashes, 1 failure (0.5 M) | the right server is left alone, none runs unseen, the current project is served, everything settles |
| `ls_reopen` | 1 project, 3 restarts, 2 retries, 3 children, 3 changes | violation of `ComesBack` |
| `supervisor_safety` | 4 agents, 2 sessions, 1 crash, `TreeKill` (0.7 M) | the registry is right, one port, clean quits, recovery from the first crash |
| `supervisor_kill` | 3 agents, 1 session, 2 crashes | violation of `KillRecovers` |
| `registry_safety` | 4 requests, 2 keys, 2 payloads, map of 1, retention 0, 1 tick, 1 restart (0.7 M) | one worker, once while kept, bounded map, waiters are served |
| `runner_safety` | 1 server, 2 handlers, 2 processes, 2 ports, Unix, 1 agent death (1.1 M) | running is tracked; for requests in turn no leak and stopped is dead, but for processes a stop gave up on |
| `runner_liveness` | 1 server, 1 handler, 3 processes, 1 port, 1 agent death (0.4 M) | every request returns |
| `build_safety` | 2 launches, 1 cancelling request, list of 1, 2 start times, 1 agent death (0.2 M) | refinement of the ledger, Cancel's answer holds, no cancelled launch, launches end |

Why these bounds are enough. Capacities are 1 or 2, so that each ring, channel, map and list
fills up, wraps and overflows within the run. Two publishers are needed for events stored out of
sequence, two connections for one that is slow beside one that is not. Four requests
on two keys give a winner, a waiter, a stranger that evicts and a newer winner. Retention 0 and
one tick make a record expire. Two handlers on one server give each pair of operations that can overlap;
two processes the old and the new Tomcat; three in the liveness run the old one, a launch and its retry.
Two builds over a list of one make each trim the other, also while it runs; a launch does all that
a plain build does and more, so the passing build run has launches only. Two workspaces and two stream
slots give a stream in use beside one whose close event is late; two events give one that overtakes the
other and fill the channel. A `snapshot.required` mark takes three (one heard, one of the other workspace, one after it): in this
run only gap events carry the number 0, and the safety properties were also run with three events, a channel of two and
two moves (3.9 M). Three texts give an opening and two edits batched on it, and two starts a server that
is lost and comes back. Two projects give a switch while the first still starts, three changes a switch and back;
two crashes use up the restarts; four slots never run out. Four agents are one of an earlier session, one that is
started, its respawn or replacement, and one more after that. `MaxSeq`, `MaxClock`, `MaxRestarts` of the
registry, `MaxExits`, `MaxAt`, `MaxMoves`, `MaxText`, `MaxQueue`, `MaxStarts`, `MaxChanges`, `MaxFailures`, `MaxCrashes`, `MaxProcs` and
`MaxSessions` bound counters of the models and stand for nothing in the code;
the sets of requests, processes, connections and builds are finite for the same reason. At these
bounds the systems come to rest, which is why the runs do not check for deadlock; where something
must not get stuck, a liveness property or `WaiterIsServed` says so.

Symmetry is used in runs without liveness properties only, over sets of interchangeable model values.

## 5. Fairness

Weak fairness, on the code's own steps only:

* `FairPublishers`: a goroutine inside `Publish` is scheduled. Its sends are non-blocking selects, so no step
  of it waits for a connection. Nothing is assumed of connections.
* `FairRunner`: handlers are scheduled and their deadlines expire (each wait in `proc.go` and `tomcat6.go` has
  a context or timer); a killed process dies; the goroutine that waits for a process is scheduled. Tomcat is
  not assumed to heed SIGTERM, to bind or to become ready.
* `FairEngine`: handlers and the build's goroutine are scheduled, the poll ticks, and `Compile` returns,
  because it gives up on javac after five minutes and on its termination after a few seconds.
  No client is assumed to cancel or to hang up.
* `FairEvents`: the browser fires its timers and socket events, the configuration arrives (the fetches behind it
  have timeouts), an agent that listens accepts, and a goroutine inside `Publish` is scheduled. No restart, call or event is assumed.
* `FairSync`: the connection delivers, the timers fire, the probe before a request is answered, and initialize
  ends one way or the other (it has a timeout). The user is not assumed to do anything.
* `FairServer`: the preparation of a project is answered, the chain goes on, messages arrive, the restart timer fires, the
  backend's awaits end (installation, initialize and each stage of a stop have timeouts). No change, failure or
  crash is assumed, and no child is assumed to exit, not even a killed one.
* `FairSupervisor`: agents get on, exit events arrive, the respawn timer fires, and a switch that was begun is
  finished. No launch, switch or quit is assumed.

The registry has no liveness run. That waiters return reduces to `WaiterIsServed`, a safety
property which is also proved: a waiter's record is finished, or its handler is at work and is
the one that will finish it. The rest is the scheduling of that handler.

## 6. Proofs

All are for arbitrary values of the constants, under the assumptions named in the modules
(`HubConstants`, `RegistryConstants`, `RunnerConstants`, `EngineConstants`, `NoWorkspaceIsNone`,
`BoundsAreNat`, `DocsFinite`, `SupervisorConstants`, `LanguageServerConstants`): capacities are positive naturals,
`None` is not an id, and sets whose cardinality the code bounds are finite.

| module | theorem | property | argument |
|---|---|---|---|
| `EventHubProofs` | `TypeCorrect` | `TypeOK` | with `OnlySubscribed`: connections that have not subscribed are never targets, so their channels are empty |
| | `RingCorrect` | `RingHoldsLatest` | alone inductive with the types of the ring; the index arithmetic modulo the capacity is in `ModCases` and the lemmas on storing |
| | `NoEventTwice` | `NoDuplicateDelivery` | events in the ring are older than the numbers still to be given out; a target that is still to be sent an event has it neither in its channel nor from the replay, because storing and copying are one critical section and registering and replaying another |
| | `ReplayFirst` | `ReplayBeforeLive` | `SendOrder`: whatever a Publish still has to send was stored after the connection joined; what the replay sends was stored before |
| | `InPublisherOrder` | `PublisherOrder` | `StoreOrder` and `SendOrder`: a goroutine stores in the order of its numbers, and what it still has to send is newer than all of its events the connection was sent |
| | `NothingMissedSilently` | `NoSilentMiss` | a connection leaves the targets of a Publish only by getting the event or by losing it to its full channel; the ones that join later are not promised it |
| `OperationRegistryProofs` | `TypeCorrect` | `TypeOK` | with `MapInv`, which says that a record is under its own key |
| | `WorkerKeeps` | `WorkerKeepsRecord` | eviction takes finished records only |
| | `OneWorker` | `OneWorkerPerKey` | two workers of one key would both be the record under it |
| | `Once` | `OnceWhileKept` | `RanIsKept`: what ran is still in the map or was dropped |
| | `NobodyWaitsInVain` | `WaiterIsServed` | `Served`: an executing record has a handler at work under the record's own key, so that a claim can only start to wait on such a record, and `Finish` closes exactly the one waited for |
| | `MapStaysBounded` | `MapBounded` | `EvictionMakesRoom`: after eviction a record over the capacity is left only when every record is executing, and these are counted in `peak` |
| `ServerRunnerProofs` | `TypeCorrect` | `TypeOK` | `Equipped` and `Anchored` say what each stage of a request has at hand |
| | `RunningTracked` | `RunningIsTracked` | a record is set to running together with its table entry; what removes the entry changes the record or belongs to a Restart |
| | `NothingLeaked` | `NoLeak` | `RunnerInv`: what table, records and handlers refer to was launched for their server (`References`), and a handler alone on its server holds what the table holds (`InTurn`); a step that lets go of a process has seen it end, records it, or is a stop that gives up on it (`spared`) |
| | `StoppedIsDead` | `StoppedIsDeadInTurn` | `RunnerInv` with `StoppingIsAwaited` (a process being stopped has the handler that waits for it, unless it was spared) and `StoppedOnDisk`, the same of the file an agent loads |
| `BuildEngineProofs` | `TypeCorrect` | `TypeOK` | trimming is by the save that follows each change |
| | `AnswerHolds` | `CancelAnswerHolds` | `Phases` ties the state of a build to where its goroutine is; after the final state nothing writes it; `DiskAgrees` extends this to the file |
| | `NoCancelledLaunch` | `NoLaunchOfCancelled` | `EarlyInv`: cancellation and conclusion look at the context under one lock |
| | `Implements` | `ImplementsLedger` | a saving step is a `Move` of the ledger (`SavingMoves`) or is about a build already forgotten; every other step, a restart included, leaves what readers see (`Invisible`, `ExitLoads`) |
| `AgentEventsProofs` | `TypeCorrect` | `TypeOK` | alone inductive; what is on its way to a stream was taken by a publisher of this run |
| | `OneLiveStream` | `OneStream` | every way to open a stream closes the one in use in the same step |
| | `StatusShown` | `StatusIsCurrent` | with `OneStream`: what a stream in use tells is what is shown, and another one's word does not count |
| | `NothingSkipped` | `NoGap` | `Cursors`: up to each cursor from which a stream could go on, every event after the promise is past, that is heard, lost or raced; `OnItsWay`: on a connection every stored event is past or on its way, behind only what is past or comes before it; `Overtaken` carries this through a replay, which is in the order of the history |
| `AgentSupervisorProofs` | `TypeCorrect` | `TypeOK` | `Numbered`: generations grow no faster than process numbers, so that each self-restart stays within them |
| | `NoneWrittenOff` | `RegistryIsRight` | `ExitedIsDead`: registering resets the flag, and only the exit event of the same process sets it |
| | `QuitLeavesNothing` | `QuitsClean` | assumes `TreeKill`. `Alone`: where nothing was replaced, all that a session has alive is the process in the registry, because a respawn happens once, after the exit of the child it replaces was handled |
| | `OnePortGiven` | `OnePort` | `PortInv`: without a replacement every agent is of the first generation and the state file tells the port of the one that wrote it (`FirstGeneration`); the launch waits for the only agent of its own (`Starting`), and from then on the registered agent and an armed respawn have the port given (`GivenPort`) |
| `LanguageServerProofs` | `TypeCorrect` | `TypeOK` | `Current`: a timer, a preparation or a current operation means there is a project; the chain and the wires stay typed although a bounded number of restarts appends to them |
| | `NoServerUnseen` | `NoOrphan` | `Managed`: the manager has a living child exactly in the states that say so; a stop in progress is of that child, and one that gives up has signalled it |
| | `SkippedForTheRightServer` | `SkipIsSafe` | `OneCall`: at most one call or answer of the chain is under way anywhere; `Truthful`: what an answer under way says of the manager still holds when it arrives; `Remembered`: a running server is for the key the chain asked for or the one it remembers |
| `DocumentSyncProofs` | `TypeCorrect` | - | `TypeInv`: with `Tracked`, what the sync core's records of one document say of each other, and `OneRequest` |
| | `CopiesStayWhole` | `NoTornCopy` | `SyncInv`: by `Path` the message a ready server reads next fits its copies as they are |
| | `ProtocolKept` | `InTurn` | the same path |
| | `FreshWhenAsked` | `AnswerIsFresh` | the same path: a completion or format of a save is legal on it only where the copy is as new as the text it asks about, which its flush has seen to; an explicit format is legal anywhere |
| | `MirrorsTheEditor` | `ImplementsMirror` | `Growth`: texts shown, under way and newest are in order, so that each message that is read moves the mirror forward; a restart drops copies and leaves what was shown |

Each theorem follows from an inductive invariant (`IndInv`, `TypeInv` and the conjuncts named above), because the
properties are not inductive on their own: `RunningIsTracked`, say, needs to know that a handler at a
launch stage holds an instance, `CancelAnswerHolds` that no goroutine is before its conclusion once a final
state has been seen, and `SkipIsSafe` where the call that decides is and what the manager may do until its answer
is read.

The largest of them is `SyncInv` of `DocumentSyncProofs`, for which the properties only look at the head of a queue.
`Path` says that the queue to a ready server leads, message by message and legally, from the copies
as they are to copies that agree with the editor's records: a step of the editor extends
it at the end, a step of the server takes its first message away. A server begins with no copies, so
nothing about documents may reach it from before it was ready. This is what the other conjuncts are for:
`OneCall` says that at most one call of the lifecycle or its answer is under way and what the session waits for,
and `Belief` what the browser believes of the server given the state events it has not read
yet. In particular a server that is being started is not believed ready, and no event still
under way will say so before the start is over.

The lemmas are one per action or group of actions that leave the same things alone, followed by one that
combines them. The inductive invariants were run through TLC as they were found,
`Path` with its witness, the copies after each message, computed from the queue.

Only model-checked: the liveness properties (`PublishReturns`, `RequestsReturn`, `LaunchReturns`, `Connects`, `Converges`,
`Serves`, `Settles`, `FirstKillRecovers`), because fairness and ENABLED are out of the prover's reach. Every safety
invariant and both refinements the passing runs check are theorems. No module declares a recursive operator and
nothing is proved by induction over data.

## 7. Disagreements found

Two are runs whose expected result is a violation; `PROJECT.json` has the lines.

* `supervisor_kill`: the exit handler of a started agent respawns it, that of the respawned one only logs. A second
  death leaves the front end without an agent, against "kill agent -> reconnect must recover" in
  `src/apps/desktop/src/main.ts`.
* `ls_reopen`: a workspace that is opened again while the stop of its server is under way is refused its start, and
  the one restart that follows is refused too; nothing tries again, against
  `src/docs/specs/WAVE4_JAVA_LANGUAGE_INTELLIGENCE.md:205`.

Also met, each in the model's behaviour but without a run of its own:

* Event bus: the ring is shared, so events of another workspace can push out all that a resumed
  connection missed, and it is given neither events nor `snapshot.required` (`eventhub.go:291`, against the comment at
  95). A full channel drops the gap event too and nobody is disconnected (comment at 206).
* Registry: a woken waiter looks its key up again; if its record was evicted and the key claimed afresh in
  between, it replays a record that still executes or is of another payload (`operation_registry.go:156`, against 49).
* Runner: the comment at `server.go:294` to 297 says that a failed stop is reported lest a server be marked as stopped
  while its process lives. That still happens in two ways. A second graceful stop answers nil for a process that is not
  running, and so records the server as stopped, when another request is still stopping it and also, without any
  overlap, when an earlier stop failed its identity check: it has left the process as stopping and alive
  (`proc.go:258` to 260 after 271 to 273 or 309 to 311; `verifyProcessIdentity`, `proc_unix.go:123`). And two callers
  ignore the error of a stop: the cleanup of a launch that is not ready (`tomcat6.go:810`) and Debug
  (`server.go:437`), which goes on to a second Tomcat, both losing a living process. The model has all of this; `NoLeak` and
  `StoppedIsDeadInTurn` exempt the processes a stop gave up on (`spared`) and the servers whose requests overlap
  (`excused`; two overlapping Restarts launch two Tomcats and keep one), and say that nothing else is lost.
  Recover clears `wasRunning` before it recovers: saved by another server's operation and followed by a death of the agent, the crashed server is never
  offered again (`server.go:518`, against 471). On Unix nothing stops the Tomcats at the agent's exit
  (`src/docs/adr/0011-runtime-server-lifecycle.md:319`).
* Builds: a build cancelled between its listing and its table entry is answered as queued and compiles
  (`build.go:351`, against 337). The hot-swap compile answers success from the queued snapshot
  (`hot_deploy_handlers.go:246`, against `java-hotswap-service.ts:6`).
* Desktop: "Tears down the agent and Theia backend on quit" (`main.ts:16`) fails for an agent that has restarted
  itself, whose successor nobody tracks, and for a switch of the JDK whose old exit handler respawns a second agent beside
  the new one; `waitForAgentPort` takes the port of an agent left over from an earlier session (`main.ts:411`).
* Event streams: a number is taken before the lock (`eventhub.go:210`, 212), so that an event can be stored after one with a higher
  number; a stream keeps the highest number it saw (`runtime-connection-service.ts:978`), and if the connection breaks in
  between, the event is not in the replay it asks for. Connected throughout, it gets both. Full channels drop
  events, replayed ones too. `NoGap` and `Connects` say that these are all the losses after the cursor a stream came with (`raced`,
  `skipped`, `lost`); after a restart of the agent that cursor may be ahead of the new numbers, and after a move
  to another workspace and back it is past what happened here meanwhile.
* Event streams: a `snapshot.required` mark sets the service's sequence number to 0 (line 769 of
  `runtime-connection-service.ts`, where the stream keeps the maximum, 978), so that the next stream replays
  everything. A refresh opens a stream without a workspace (against the comment at 683), which the agent refuses.
* Document sync: the edits of a save action are computed for the flushed text and applied to whatever the
  user has typed since (`java-save-actions.ts:99` to 142). Format Document and Format Selection do not flush
  (`java-monaco-registration.ts:607` to 629): within the debounce delay their edits are computed from an older copy and applied
  to the text they were asked for. `AnswerIsFresh` is about the two callers of `flushPending`, completion and the actions on
  save.
* Language server: the limit on restarts does not bound starts, because the retries of an activation start servers
  too (against `src/docs/progress/releases/phase-1/WAVE-0-IMPLEMENTATION-REPORT.md:14`). A crash during a switch arms a
  restart with the old project's descriptor under the new token. A stop that comes while the installation is
  resolved returns at once and the server starts after it. A child that refuses initialize is dropped
  without a signal.

## 8. Not modelled

Whole components are listed in `PROJECT.json` with the reason. Within the modelled ones:

* Event bus: event bodies, timestamps, the origin check and the ping loop.
* Registry: a panic between claim and finish (the middleware recovers, the record stays executing; the waiters
  of it hang) and `FinishByRequestID`, which has no caller. Responses are kept as ok or failed.
* Server runner: the debug, shutdown and AJP ports; the runtime instance ids and generation numbers;
  `LastError`; `ReloadContext` and `Logs`; the contents of `catalina.base`. The condition under which a launch is
  retried, which the code reads from log text, is "the process could not bind its port". The identity check before a
  signal has either outcome for any process; what it compares is left out. Saves succeed: a
  failed write of `servers.json` is ignored by the code and would be lost at the next restart.
* Build engine: request validation, compiler arguments and diagnostics; the contents of output directories, so
  neither two builds that share one nor the copy to `WEB-INF/classes`, which counts as part of the verdict; a
  javac that survives its kill and goes on writing; failed writes of `finished.json`. Leaving the table and
  closing `done` are one step, because nobody can tell a moment between them.
* The agent's death is one step in all modules, between two critical sections: files are replaced by rename,
  so a death within a save is one before it or after it.
* Desktop: the Theia backend, `KAIRO_KEEP_REUSED_AGENT`, the watcher of headless mode, the health check in the
  background after a switch, windows and menus.
* Event streams: the address of the agent stays the same; the ring of the agent loses nothing (`EventHub` has that); a
  publisher's send to one connection and to the next are independent steps, in any order; what a channel holds and what
  the wire does are one queue, which may refuse an event once it is as long as the channel;
  the REST half of the service; a stale answer of an earlier fetch that overwrites the endpoints.
* Document sync: one browser window; one request about a document at a time. Hover, navigation, symbols and the other
  requests of the language neither flush nor change anything of this, and are left out. Monaco, which cancels an explicit
  format when the model changes, is external; `resetWorkspace` and `dispose` of the core, which have no caller; a
  permanent failure of the connection. What Eclipse JDT does with the texts is external.
* Language server: the exit code of a Java that is too old and `KAIRO_SKIP_JDTLS`, which end the lifecycle for good;
  loss of the connection; `dispose`; requests other than start, stop and state; the marker of a clean exit.
* `server-store.ts` applies the answer of a refresh when it arrives, also over newer events, and does not refetch after a
  reconnect; it is next on the plan, and no property covers it yet.

## 9. Running it

In this directory, with the TLA+ tools, the community modules and TLAPS 1.4.5 (Z3, Zenon, LS4):

    tlc -workers 2 -config EventHub_safety.cfg MCEventHub
    tlapm EventHubProofs.tla

and likewise for the other runs (`PROJECT.json`, "runs") and `*Proofs.tla` modules. A mutant of
`PROJECT.json` is run by making the definition in "of" equal to the one in "as".
