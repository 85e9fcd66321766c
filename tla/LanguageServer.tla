----------------------------- MODULE LanguageServer -----------------------------
(***************************************************************************)
(* One Java language server for the project the user works on: the         *)
(* lifecycle in the browser that follows the active project                *)
(* (java-extension/src/browser/java-ls-lifecycle.ts), its calls over one   *)
(* JSON-RPC connection (java-language-client.ts), and the backend service  *)
(* and manager that own the child process (src/node/jdt-ls-service.ts,     *)
(* jdt-ls-manager.ts).  A start takes minutes and a stop up to fourteen    *)
(* seconds; the user, the restart timer and the child do not wait.         *)
(*                                                                         *)
(* A launch descriptor, and the key the lifecycle derives from it, is the  *)
(* project it was prepared for.  An activation token is represented by     *)
(* what it is compared for: an operation that waits or runs is current, or *)
(* not any more.                                                           *)
(***************************************************************************)
EXTENDS Naturals, Sequences

CONSTANTS
    Projects,
    MaxRestarts,  \* JDT_LS_MAX_AUTO_RESTARTS
    MaxRetries,   \* MAX_RETRIES of onProjectChanged
    Slots,        \* bound: children that live, or are still referred to
    MaxChanges,   \* bound: what the user does
    MaxCrashes,   \* bound: children that die of themselves
    MaxFailures   \* bound: calls that fail

None == "none"

ASSUME LanguageServerConstants ==
    /\ None \notin Projects
    /\ MaxRestarts \in Nat /\ MaxRetries \in Nat
    /\ Slots \in Nat \ {0}
    /\ MaxChanges \in Nat /\ MaxCrashes \in Nat /\ MaxFailures \in Nat

VARIABLES
    \* the lifecycle, in the browser
    desired,          \* desiredProject
    descriptor,       \* launchDescriptor
    lastKey,          \* lastStartKey
    prep,             \* the activation in flight: no, preparing, queued
    retries,          \* its attempts so far
    chain,            \* transitionChain: the operation that runs, and those behind it
    step,             \* what its head awaits: idle (not begun), state, stop, start
    timer,            \* restartTimer: none, or the descriptor it was armed with
    restartAttempts, restartExhausted, restartInFlight,
    closing,          \* deactivateChain
    \* the connection
    toBackend, toBrowser,
    \* the backend
    state,            \* of the manager
    process,          \* its child, or 0
    starting,         \* the start call it works on
    stopping,         \* the stop it works on (stopPromise)
    waiters,          \* who gets its result
    child,            \* slot -> a child process
    \* what has happened
    changes, crashes, failures, closed

activation == <<desired, descriptor, lastKey, prep, retries>>
restarts == <<timer, restartAttempts, restartExhausted, restartInFlight>>
transitions == <<chain, step>>
manager == <<state, process, starting, stopping, waiters, child>>
wires == <<toBackend, toBrowser>>
budget == <<changes, crashes, failures, closed>>
vars == <<activation, restarts, transitions, closing, wires, manager, budget>>

NoProcess == 0
Children == 1..Slots
Up == {"initializing", "ready"}  \* starting never lasts
States == Up \cup {"uninitialized", "stopping", "stopped", "failed", "crashed"}

(* fate: how far a child is from its end.  refused: it refused initialize, *)
(* and the manager has let go of it.                                       *)
Free == [key |-> None, fate |-> "free"]
Fates == {"running", "term", "kill", "refused"}
Alive(c) == child[c].fate # "free"

Idle == [stage |-> "no", key |-> None, child |-> NoProcess]
AtRest == [phase |-> "no", child |-> NoProcess]

Operations == [kind : {"activation", "restart"}, key : Projects, current : BOOLEAN]
Calls == [call : {"state", "stop", "start"}, by : {"chain", "restart", "close"},
          key : Projects \cup {None}]
Messages == [kind : {"event", "state", "stop", "start"}, to : {"all", "chain", "restart", "close"},
             value : States \cup {"ok", "refused", "disposed"}]

TypeOK ==
    /\ desired \in Projects \cup {None} /\ descriptor \in Projects \cup {None}
    /\ lastKey \in Projects \cup {None}
    /\ prep \in {"no", "preparing", "queued"} /\ retries \in 0..MaxRetries
    /\ chain \in Seq(Operations) /\ step \in {"idle", "state", "stop", "start"}
    /\ timer \in Projects \cup {None} /\ restartAttempts \in 0..MaxRestarts
    /\ restartExhausted \in BOOLEAN /\ restartInFlight \in BOOLEAN /\ closing \in BOOLEAN
    /\ toBackend \in Seq(Calls) /\ toBrowser \in Seq(Messages)
    /\ state \in States /\ process \in {NoProcess} \cup Children
    /\ starting \in [stage : {"no", "inspecting", "resolving", "initializing"},
                     key : Projects \cup {None}, child : {NoProcess} \cup Children]
    /\ stopping \in [phase : {"no", "shutdown", "term", "kill"},
                     child : {NoProcess} \cup Children]
    /\ waiters \in SUBSET {"chain", "close"}
    /\ child \in [Children -> [key : Projects, fate : Fates] \cup {Free}]
    /\ changes \in 0..MaxChanges /\ crashes \in 0..MaxCrashes
    /\ failures \in 0..MaxFailures /\ closed \in BOOLEAN

Init ==
    /\ desired = None /\ descriptor = None /\ lastKey = None
    /\ prep = "no" /\ retries = 0
    /\ chain = <<>> /\ step = "idle"
    /\ timer = None /\ restartAttempts = 0 /\ restartExhausted = FALSE /\ restartInFlight = FALSE
    /\ closing = FALSE
    /\ toBackend = <<>> /\ toBrowser = <<>>
    /\ state = "uninitialized" /\ process = NoProcess
    /\ starting = Idle /\ stopping = AtRest /\ waiters = {}
    /\ child = [c \in Children |-> Free]
    /\ changes = 0 /\ crashes = 0 /\ failures = 0 /\ closed = FALSE

-----------------------------------------------------------------------------
(* The active project changes                                              *)

(* ++activationToken                                                       *)
Outdate == chain' = [i \in DOMAIN chain |-> [chain[i] EXCEPT !.current = FALSE]]

Fail == failures < MaxFailures /\ failures' = failures + 1

Call(call, by, key) == toBackend' = Append(toBackend, [call |-> call, by |-> by, key |-> key])

(* activate: the same project again does nothing while its activation is   *)
(* in flight, and prepares nothing once restarting was given up.           *)
Activate(p) ==
    /\ changes < MaxChanges /\ changes' = changes + 1
    /\ desired = p => prep = "no"
    /\ desired' = p
    /\ restartAttempts' = IF desired = p THEN restartAttempts ELSE 0
    /\ restartExhausted' = (desired = p /\ restartExhausted)
    /\ timer' = None
    /\ Outdate
    /\ prep' = IF restartExhausted' THEN "no" ELSE "preparing"
    /\ retries' = 0
    /\ UNCHANGED <<descriptor, lastKey, step, restartInFlight, closing, wires, state, process,
                   starting, stopping, waiters, child, crashes, failures, closed>>

(* deactivate: one stop, shared, outside the chain.                        *)
Deactivate ==
    /\ changes < MaxChanges /\ changes' = changes + 1
    /\ desired # None
    /\ desired' = None /\ descriptor' = None /\ lastKey' = None
    /\ prep' = "no" /\ retries' = 0
    /\ restartAttempts' = 0 /\ restartExhausted' = FALSE /\ timer' = None
    /\ Outdate
    /\ closing' = TRUE /\ closed' = TRUE
    /\ IF closing THEN UNCHANGED toBackend ELSE Call("stop", "close", None)
    /\ UNCHANGED <<step, restartInFlight, toBrowser, manager, crashes, failures>>

(* onProjectChanged: the agent has prepared the project and answered with  *)
(* its descriptor.                                                         *)
Prepared ==
    /\ prep = "preparing"
    /\ descriptor' = desired
    /\ chain' = Append(chain, [kind |-> "activation", key |-> desired, current |-> TRUE])
    /\ prep' = "queued"
    /\ UNCHANGED <<desired, lastKey, retries, restarts, step, closing, wires, manager, budget>>

(* The loop of onProjectChanged goes round, or ends.                       *)
Retry ==
    \/ /\ retries < MaxRetries
       /\ retries' = retries + 1 /\ prep' = "preparing" /\ timer' = None
    \/ /\ retries = MaxRetries
       /\ prep' = "no"
       /\ UNCHANGED <<retries, timer>>

(* A request failed, for good or in a way it retries.                      *)
PrepareFails ==
    /\ prep = "preparing" /\ Fail
    /\ Retry \/ (prep' = "no" /\ UNCHANGED <<retries, timer>>)
    /\ UNCHANGED <<desired, descriptor, lastKey, restartAttempts, restartExhausted,
                   restartInFlight, transitions, closing, wires, manager, changes, crashes, closed>>

-----------------------------------------------------------------------------
(* Transitions and restarts                                                *)

(* enqueueTransition: the head of the chain begins (startLanguageClientNow)*)
(* or is dropped when another activation has taken over.                   *)
Begin ==
    /\ chain # <<>> /\ step = "idle" /\ Head(chain).current
    /\ step' = "state"
    /\ Call("state", "chain", None)
    /\ UNCHANGED <<activation, restarts, chain, closing, toBrowser, manager, budget>>

(* An operation ends.  A restart looks at what it has achieved.            *)
Leaves ==
    LET op == Head(chain) IN
    /\ chain' = Tail(chain) /\ step' = "idle"
    /\ restartInFlight' = (restartInFlight /\ op.kind # "restart")
    /\ IF op.kind = "restart" /\ op.current THEN Call("state", "restart", None)
       ELSE UNCHANGED toBackend

(* The activation in flight is the one the head of the chain belongs to.   *)
OfActivation == Head(chain).kind = "activation" /\ Head(chain).current
Done == prep' = IF OfActivation THEN "no" ELSE prep

Ends == Leaves /\ Done /\ UNCHANGED <<retries, timer>>

Drop ==
    /\ chain # <<>> /\ step = "idle" /\ ~Head(chain).current
    /\ Ends
    /\ UNCHANGED <<desired, descriptor, lastKey, restartAttempts, restartExhausted, closing,
                   toBrowser, manager, budget>>

RestartBlocked ==
    desired = None \/ descriptor = None \/ timer # None \/ restartInFlight \/ restartExhausted

(* scheduleRestart: up to the limit, then never again for this project.    *)
ScheduleRestartBug ==  \* the limit is checked after the attempt
    IF RestartBlocked \/ restartAttempts > MaxRestarts
    THEN UNCHANGED <<timer, restartAttempts, restartExhausted>>
    ELSE /\ restartAttempts' = restartAttempts + 1
         /\ timer' = descriptor
         /\ UNCHANGED restartExhausted
ScheduleRestart ==
    IF RestartBlocked THEN UNCHANGED <<timer, restartAttempts, restartExhausted>>
    ELSE IF restartAttempts = MaxRestarts
    THEN restartExhausted' = TRUE /\ UNCHANGED <<timer, restartAttempts>>
    ELSE /\ restartAttempts' = restartAttempts + 1
         /\ timer' = descriptor
         /\ UNCHANGED restartExhausted

(* Every activation clears the timer: one that fires is of the current one.*)
TimerFires ==
    /\ timer # None
    /\ timer' = None
    /\ restartInFlight' = TRUE
    /\ chain' = Append(chain, [kind |-> "restart", key |-> timer, current |-> TRUE])
    /\ UNCHANGED <<activation, restartAttempts, restartExhausted, step, closing, wires, manager,
                   budget>>

-----------------------------------------------------------------------------
(* Answers and events reach the browser                                    *)

Next1 == Head(toBrowser)
Answer(kind, to) == toBrowser # <<>> /\ Next1.kind = kind /\ Next1.to = to /\ toBrowser' = Tail(toBrowser)

(* onClientState, and the look a restart takes at its result.              *)
SeesState ==
    /\ Answer("event", "all") \/ Answer("state", "restart")
    /\ IF Next1.value \in {"crashed", "failed"} THEN ScheduleRestart
       ELSE UNCHANGED <<timer, restartAttempts, restartExhausted>>
    /\ UNCHANGED <<activation, restartInFlight, transitions, closing, toBackend, manager, budget>>

(* The state the operation asked for: a server that runs for this          *)
(* descriptor is left alone, one that runs for another is stopped first.   *)
AlreadyRunningBug(key) == TRUE  \* any server will do
AlreadyRunning(key) == lastKey = key

MustStopBug(s) == FALSE  \* start replaces what runs
MustStop(s) == s \in Up

SeesSame ==
    /\ Answer("state", "chain")
    /\ ~Head(chain).current \/ (Next1.value \in Up /\ AlreadyRunning(Head(chain).key))
    /\ Ends
    /\ UNCHANGED <<desired, descriptor, lastKey, restartAttempts, restartExhausted, closing,
                   manager, budget>>

SeesOther ==
    /\ Answer("state", "chain")
    /\ Head(chain).current
    /\ Next1.value \in Up => ~AlreadyRunning(Head(chain).key)
    /\ IF MustStop(Next1.value)
       THEN step' = "stop" /\ Call("stop", "chain", None)
       ELSE step' = "start" /\ Call("start", "chain", Head(chain).key)
    /\ UNCHANGED <<activation, restarts, chain, closing, manager, budget>>

OldIsStopped ==
    /\ Answer("stop", "chain")
    /\ IF Head(chain).current
       THEN /\ step' = "start" /\ Call("start", "chain", Head(chain).key)
            /\ UNCHANGED <<chain, prep, retries, timer, restartInFlight>>
       ELSE Ends
    /\ UNCHANGED <<desired, descriptor, lastKey, restartAttempts, restartExhausted, closing,
                   manager, budget>>

(* The key is kept whatever became of the activation.                      *)
Started ==
    /\ Answer("start", "chain") /\ Next1.value = "ok"
    /\ lastKey' = Head(chain).key
    /\ Ends
    /\ UNCHANGED <<desired, descriptor, restartAttempts, restartExhausted, closing, manager, budget>>

(* The connection to the child was disposed under the call, a transient    *)
(* error: the loop of the activation goes round.                           *)
StartDisposed ==
    /\ Answer("start", "chain") /\ Next1.value = "disposed"
    /\ Leaves
    /\ IF OfActivation THEN Retry ELSE UNCHANGED <<prep, retries, timer>>
    /\ UNCHANGED <<desired, descriptor, lastKey, restartAttempts, restartExhausted, closing,
                   manager, budget>>

(* Any other failure: scheduleRestart, before the operation has ended.     *)
StartRefused ==
    /\ Answer("start", "chain") /\ Next1.value = "refused"
    /\ ScheduleRestart
    /\ Leaves /\ Done
    /\ UNCHANGED <<desired, descriptor, lastKey, retries, closing, manager, budget>>

Closed ==
    /\ Answer("stop", "close")
    /\ closing' = FALSE
    /\ UNCHANGED <<activation, restarts, transitions, toBackend, manager, budget>>

-----------------------------------------------------------------------------
(* The backend: start                                                      *)

Call1 == Head(toBackend)
Takes(call) == toBackend # <<>> /\ Call1.call = call /\ toBackend' = Tail(toBackend)

(* States and answers go out in order; only these states matter there.     *)
Told(ss) == [i \in DOMAIN ss |-> [kind |-> "event", to |-> "all", value |-> ss[i]]]
Reply(kind, to, value) == <<[kind |-> kind, to |-> to, value |-> value]>>
Say(messages) == toBrowser' = toBrowser \o messages

ServeState ==
    /\ Takes("state")
    /\ Say(Reply("state", Call1.by, state))
    /\ UNCHANGED <<activation, restarts, transitions, closing, manager, budget>>

(* $start first awaits the inspection of the installation.                 *)
ServeStart ==
    /\ Takes("start")
    /\ starting' = [stage |-> "inspecting", key |-> Call1.key, child |-> NoProcess]
    /\ UNCHANGED <<activation, restarts, transitions, closing, toBrowser, state, process,
                   stopping, waiters, child, budget>>

(* Then the states are looked at, in the service and in the manager; and   *)
(* the installation is resolved once more.                                 *)
Inspected ==
    /\ starting.stage = "inspecting"
    /\ CASE state \in Up -> starting' = Idle /\ Say(Reply("start", "chain", "ok"))
         [] state = "stopping" \/ stopping # AtRest ->
                starting' = Idle /\ Say(Reply("start", "chain", "refused"))
         [] OTHER -> starting' = [starting EXCEPT !.stage = "resolving"] /\ UNCHANGED toBrowser
    /\ UNCHANGED <<activation, restarts, transitions, closing, toBackend, state, process,
                   stopping, waiters, child, budget>>

NotInspected ==
    /\ starting.stage = "inspecting" /\ Fail
    /\ starting' = Idle
    /\ Say(Reply("start", "chain", "refused"))
    /\ UNCHANGED <<activation, restarts, transitions, closing, toBackend, state, process,
                   stopping, waiters, child, changes, crashes, closed>>

(* A slot nobody means anything by.                                        *)
Unused(c) == ~Alive(c) /\ c \notin {process, starting.child, stopping.child}

(* The child is spawned and asked to initialize.                           *)
Resolved ==
    /\ starting.stage = "resolving"
    /\ \E c \in Children :
          /\ Unused(c) /\ \A b \in Children : Unused(b) => c <= b
          /\ child' = [child EXCEPT ![c] = [key |-> starting.key, fate |-> "running"]]
          /\ process' = c
          /\ starting' = [starting EXCEPT !.stage = "initializing", !.child = c]
    /\ state' = "initializing"
    /\ UNCHANGED <<activation, restarts, transitions, closing, wires, stopping, waiters, budget>>

NotResolved ==
    /\ starting.stage = "resolving" /\ Fail
    /\ starting' = Idle
    /\ state' = "failed"
    /\ Say((IF state = "failed" THEN <<>> ELSE Told(<<"failed">>)) \o Reply("start", "chain", "refused"))
    /\ UNCHANGED <<activation, restarts, transitions, closing, toBackend, process, stopping,
                   waiters, child, changes, crashes, closed>>

(* The child answers initialize: ready, whatever the state has become.     *)
Initialized ==
    /\ starting.stage = "initializing" /\ child[starting.child].fate # "kill"
    /\ starting' = Idle
    /\ state' = "ready"
    /\ Say(Reply("start", "chain", "ok"))
    /\ UNCHANGED <<activation, restarts, transitions, closing, toBackend, process, stopping,
                   waiters, child, budget>>

(* It answers with an error: the manager lets go of it, and does not kill. *)
InitializeRefused ==
    /\ starting.stage = "initializing" /\ Fail
    /\ starting' = Idle
    /\ IF state = "stopping"
       THEN Say(Reply("start", "chain", "refused")) /\ UNCHANGED <<state, process, child>>
       ELSE /\ Say(Told(<<"failed">>) \o Reply("start", "chain", "refused"))
            /\ state' = "failed" /\ process' = NoProcess
            /\ child' = [child EXCEPT ![starting.child].fate = "refused"]
    /\ UNCHANGED <<activation, restarts, transitions, closing, toBackend, stopping, waiters,
                   changes, crashes, closed>>

(* Or not in time: it is killed.                                           *)
InitializeTimeout ==
    /\ starting.stage = "initializing" /\ Fail
    /\ starting' = Idle
    /\ Say(Told(<<"failed">>) \o Reply("start", "chain", "refused"))
    /\ state' = "failed" /\ process' = NoProcess
    /\ child' = [child EXCEPT ![starting.child].fate = "kill"]
    /\ UNCHANGED <<activation, restarts, transitions, closing, toBackend, stopping, waiters,
                   changes, crashes, closed>>

-----------------------------------------------------------------------------
(* The backend: stop, and children that exit                               *)

Stopped(ws) == (IF "chain" \in ws THEN Reply("stop", "chain", "ok") ELSE <<>>)
               \o (IF "close" \in ws THEN Reply("stop", "close", "ok") ELSE <<>>)

(* stop: the one in progress is shared; without a child there is nothing   *)
(* to wait for; else the child is asked to shut down.                      *)
ServeStop ==
    /\ Takes("stop")
    /\ IF stopping = AtRest /\ (process = NoProcess \/ state \in {"stopped", "uninitialized"})
       THEN /\ Say(Stopped({Call1.by}))
            /\ state' = IF state = "uninitialized" THEN state ELSE "stopped"
            /\ UNCHANGED <<stopping, waiters>>
       ELSE /\ waiters' = waiters \cup {Call1.by}
            /\ IF stopping = AtRest
               THEN state' = "stopping" /\ stopping' = [phase |-> "shutdown", child |-> process]
               ELSE UNCHANGED <<state, stopping>>
            /\ UNCHANGED toBrowser
    /\ UNCHANGED <<activation, restarts, transitions, closing, process, starting, child,
                   budget>>

Signalled(c, fate) == IF Alive(c) THEN [child EXCEPT ![c].fate = fate] ELSE child

(* doStop: answered or not, the child gets SIGTERM; it may have exited.    *)
ShutdownOver ==
    /\ stopping.phase = "shutdown"
    /\ stopping' = [stopping EXCEPT !.phase = "term"]
    /\ child' = Signalled(stopping.child, "term")
    /\ UNCHANGED <<activation, restarts, transitions, closing, wires, state, process, starting,
                   waiters, budget>>

(* After the grace period, SIGKILL to a child still owned.                 *)
GraceOver ==
    /\ stopping.phase = "term"
    /\ stopping' = [stopping EXCEPT !.phase = "kill"]
    /\ child' = IF process = stopping.child THEN Signalled(stopping.child, "kill") ELSE child
    /\ UNCHANGED <<activation, restarts, transitions, closing, wires, state, process, starting,
                   waiters, budget>>

(* What a cleanup of the child's connection does to a call in initialize.  *)
Interrupted(c) == starting.stage = "initializing" /\ starting.child = c
Disposed(c) == IF Interrupted(c) THEN Reply("start", "chain", "disposed") ELSE <<>>
StartingWithout(c) == IF Interrupted(c) THEN Idle ELSE starting

(* And after a second the stop is over, whatever the child does.           *)
KillWaitBug ==  \* a child that is gone already is waited for
    /\ stopping.phase = "kill" /\ process = stopping.child
    /\ stopping' = AtRest /\ waiters' = {}
    /\ state' = "stopped" /\ process' = NoProcess
    /\ Say(Disposed(stopping.child) \o Stopped(waiters))
    /\ starting' = StartingWithout(stopping.child)
    /\ UNCHANGED <<activation, restarts, transitions, closing, toBackend, child, budget>>
KillWaitOver ==
    /\ stopping.phase = "kill"
    /\ stopping' = AtRest /\ waiters' = {}
    /\ IF process = stopping.child
       THEN /\ state' = "stopped" /\ process' = NoProcess
            /\ Say(Disposed(stopping.child) \o Stopped(waiters))
            /\ starting' = StartingWithout(stopping.child)
       ELSE /\ Say(Stopped(waiters))
            /\ UNCHANGED <<state, process, starting>>
    /\ UNCHANGED <<activation, restarts, transitions, closing, toBackend, child, budget>>

(* The exit event of a child: of the one the manager owns only, its end    *)
(* decides the state; a start caught in initialize fails after it.         *)
OwnedBug(c) == process # NoProcess  \* a stale exit is taken for the current child's
Owned(c) == process = c

Exits(c) ==
    LET lost == IF state = "stopping" THEN <<>>
                ELSE IF Interrupted(c) THEN <<"crashed", "failed">> ELSE <<"crashed">>
        waited == stopping.child = c /\ stopping.phase \in {"term", "kill"}
    IN /\ child' = [child EXCEPT ![c] = Free]
       /\ IF Owned(c)
          THEN /\ process' = NoProcess
               /\ state' = IF lost = <<>> THEN "stopped" ELSE lost[Len(lost)]
               /\ starting' = StartingWithout(c)
               /\ Say(Told(lost) \o Disposed(c) \o (IF waited THEN Stopped(waiters) ELSE <<>>))
          ELSE /\ Say(IF waited THEN Stopped(waiters) ELSE <<>>)
               /\ UNCHANGED <<process, state, starting>>
       /\ IF waited THEN stopping' = AtRest /\ waiters' = {} ELSE UNCHANGED <<stopping, waiters>>
       /\ UNCHANGED <<activation, restarts, transitions, closing, toBackend>>

ChildExits(c) ==
    /\ child[c].fate \in {"term", "kill"}
    /\ Exits(c)
    /\ UNCHANGED budget

ChildCrashes(c) ==
    /\ child[c].fate \in {"running", "refused"}
    /\ crashes < MaxCrashes /\ crashes' = crashes + 1
    /\ Exits(c)
    /\ UNCHANGED <<changes, failures, closed>>

-----------------------------------------------------------------------------
User == (\E p \in Projects : Activate(p)) \/ Deactivate

Browser ==
    \/ Prepared \/ Begin \/ Drop \/ TimerFires
    \/ SeesState \/ SeesSame \/ SeesOther \/ OldIsStopped
    \/ Started \/ StartDisposed \/ StartRefused \/ Closed

Backend ==
    \/ ServeState \/ ServeStart \/ Inspected \/ Resolved \/ Initialized
    \/ ServeStop \/ ShutdownOver \/ GraceOver \/ KillWaitOver

Trouble ==
    \/ PrepareFails \/ NotInspected \/ NotResolved \/ InitializeRefused \/ InitializeTimeout
    \/ \E c \in Children : ChildCrashes(c)

Next == User \/ Browser \/ Backend \/ Trouble \/ \E c \in Children : ChildExits(c)

Spec == Init /\ [][Next]_vars

(* Each side goes on: its timers fire, messages arrive, a child answers    *)
(* initialize unless something befalls it.  Nobody owes a change of the    *)
(* project or a failure, and no child owes its exit.                       *)
FairServer ==
    /\ Spec
    /\ WF_vars(Prepared) /\ WF_vars(Begin \/ Drop) /\ WF_vars(TimerFires)
    /\ WF_vars(SeesState \/ SeesSame \/ SeesOther \/ OldIsStopped
               \/ Started \/ StartDisposed \/ StartRefused \/ Closed)
    /\ WF_vars(ServeState \/ ServeStart \/ ServeStop)
    /\ WF_vars(Inspected \/ Resolved \/ Initialized)
    /\ WF_vars(ShutdownOver \/ GraceOver \/ KillWaitOver)

-----------------------------------------------------------------------------
(* Properties                                                              *)

(* "JDT LS already running, not restarting": when an operation leaves what *)
(* runs alone because the key it remembers is its own, the manager's child *)
(* is a server for that key, although the key is written when an answer    *)
(* arrives, and cleared at a close that overtakes it.                      *)
SkipIsSafe ==
    chain # <<>> /\ step = "state" /\ lastKey = Head(chain).key /\ state \in Up =>
        child[process].key = lastKey

(* A child nobody has signalled is the one the manager owns: stops shared, *)
(* cut short or overtaken by a start, and exits of children it has already *)
(* replaced, leave no server running unseen.  (The one that refused        *)
(* initialize is let go without a signal.)                                 *)
NoOrphan == \A c \in Children : child[c].fate = "running" => process = c

Serving == state = "ready" /\ child[process].key = desired

(* Switching from project to project in whatever state the server is, or   *)
(* losing the server of the one project, the lifecycle ends up with a      *)
(* server for the project the user is in.                                  *)
Undisturbed == ~closed /\ failures = 0 /\ (crashes = 0 \/ changes = 1)
Serves == <>[](desired # None /\ Undisturbed => Serving)

(* Whatever happens, transitions end, stops return and restarts stop.      *)
Settles == <>[](chain = <<>> /\ timer = None /\ ~closing /\ stopping = AtRest)

(* "Open the workspace again -> JDT LS can be started again"               *)
(* (docs/specs/WAVE4_JAVA_LANGUAGE_INTELLIGENCE.md:205): the same with a    *)
(* close in between, when nothing fails and nothing crashes.               *)
ComesBack == <>[](desired # None /\ failures = 0 /\ crashes = 0 => Serving)
=============================================================================
