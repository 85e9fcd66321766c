----------------------------- MODULE BuildEngine -----------------------------
(***************************************************************************)
(* The asynchronous build engine of the runtime agent                      *)
(* (internal/services/build.go) and its callers: the builds API, which     *)
(* starts and cancels builds, the launch orchestrator, which starts one    *)
(* and polls it before it deploys and runs, and the hot-swap compile,      *)
(* which answers from the snapshot that Start returns.                     *)
(*                                                                         *)
(* One mutex guards the list of builds (finished, despite its name all     *)
(* builds) and the table of running ones; Start takes it three times, the  *)
(* compiler's goroutine three times, and every step here is one critical   *)
(* section.  state[b] is the BuildResult object, which the goroutine keeps *)
(* even after the list has dropped it.  The list is written to             *)
(* finished.json within the critical section that changes it, and the      *)
(* write is taken to succeed.                                              *)
(***************************************************************************)
EXTENDS Integers, FiniteSets

CONSTANTS
    Builds,      \* build ids, each started by a request of its own
    Cancellers,  \* requests to cancel a build, of one call each
    Kinds,       \* who starts builds: "api", "launch" and "swap"
    Keep,        \* builds the list holds (200)
    MaxAt,       \* bound of the model: seconds at which builds start
    MaxExits,    \* bound of the model: deaths of the agent
    None

ASSUME EngineConstants == /\ None \notin Builds
                          /\ IsFiniteSet(Builds)
                          /\ Kinds \subseteq {"api", "launch", "swap"}
                          /\ Keep \in Nat \ {0}
                          /\ MaxAt \in Nat
                          /\ MaxExits \in Nat

VARIABLES
    state,      \* build -> State of its BuildResult
    at,         \* build -> StartedAt, in seconds
    finished,   \* the list: a set of builds
    disk,       \* finished.json: build -> state, or "absent"
    running,    \* the table: builds Cancel can cancel
    cancelled,  \* builds whose context is cancelled
    pc,         \* where Start and then the goroutine are with a build
    starter,    \* build -> the request that starts it and its reply
    canceller,  \* request -> the build it cancels and its reply
    exits,
    early       \* history variable: builds cancelled before they concluded

list == <<state, finished, disk>>
work == <<running, cancelled, pc>>
vars == <<list, at, work, starter, canceller, exits, early>>

Final == {"success", "failure", "cancelled"}
States == {"queued", "running"} \cup Final
Goroutines == {"started", "compiling", "recorded", "over"}
Starter == [kind : {"none"} \cup Kinds,
            reply : {"none", "polling", "aborting", "dropped", "compiled", "launched",
                     "not launched"} \cup States]
Canceller == [build : Builds \cup {None},
              reply : {"none", "waiting", "not found", "error", "dropped"} \cup States]

Init ==
    /\ state = [b \in Builds |-> "none"]
    /\ at = [b \in Builds |-> 0]
    /\ finished = {}
    /\ disk = [b \in Builds |-> "absent"]
    /\ running = {}
    /\ cancelled = {}
    /\ pc = [b \in Builds |-> "new"]
    /\ starter = [b \in Builds |-> [kind |-> "none", reply |-> "none"]]
    /\ canceller = [c \in Cancellers |-> [build |-> None, reply |-> "none"]]
    /\ exits = 0
    /\ early = {}

-----------------------------------------------------------------------------
(* The operators named ...Bug are plausible slips in the code that follows *)
(* them; the properties are checked to notice them.                        *)

(* BUG: the list is trimmed only when it is already too long.              *)
RecentBug(bs) ==
    IF Cardinality(bs) <= Keep + 1 THEN {bs}
    ELSE {k \in SUBSET bs : /\ Cardinality(k) = Keep
                            /\ \A x \in k, y \in bs \ k : at[y] <= at[x]}

(* saveFinished keeps the most recent builds.  StartedAt is compared as a  *)
(* string whose fraction of a second has no fixed length: builds of one    *)
(* second may come in any order.                                           *)
Recent(bs) ==
    IF Cardinality(bs) <= Keep THEN {bs}
    ELSE {k \in SUBSET bs : /\ Cardinality(k) = Keep
                            /\ \A x \in k, y \in bs \ k : at[y] <= at[x]}

(* Set the state of one build and save; the list drops what the file drops.*)
SaveState(b, s, bs) ==
    /\ state' = [state EXCEPT ![b] = s]
    /\ \E kept \in Recent(bs) :
         /\ finished' = kept
         /\ disk' = [x \in Builds |-> IF x \in kept THEN state'[x] ELSE "absent"]

Go(b, from, to) == pc[b] = from /\ pc' = [pc EXCEPT ![b] = to]
Reply(b, r) == starter' = [starter EXCEPT ![b].reply = r]

-----------------------------------------------------------------------------
(* Start makes the result, lists it, enters it in the table and spawns the *)
(* goroutine, and returns a snapshot.  A build starts no earlier than      *)
(* those before it, possibly within the same second.                       *)
Make(b, kind) ==
    /\ Go(b, "new", "made")
    /\ \E second \in 0..MaxAt :
         /\ \A x \in Builds : at[x] <= second
         /\ at' = [at EXCEPT ![b] = second]
    /\ starter' = [starter EXCEPT ![b].kind = kind]
    /\ UNCHANGED <<list, running, cancelled, canceller, exits, early>>

List(b) ==
    /\ Go(b, "made", "listed")
    /\ SaveState(b, "queued", finished \cup {b})
    /\ UNCHANGED <<at, running, cancelled, starter, canceller, exits, early>>

Register(b) ==
    /\ Go(b, "listed", "started")
    /\ running' = running \cup {b}
    /\ UNCHANGED <<list, at, cancelled, starter, canceller, exits, early>>

(* What becomes of the snapshot: the launch goes on to poll; the hot-swap  *)
(* compile answers success unless the snapshot says failure.               *)
SnapshotReply(kind, s) ==
    CASE kind = "launch" -> "polling"
      [] kind = "swap"   -> IF s = "failure" THEN s ELSE "compiled"
      [] OTHER           -> s

Snapshot(b) ==
    /\ pc[b] \in Goroutines /\ starter[b].reply = "none"
    /\ Reply(b, SnapshotReply(starter[b].kind, state[b]))
    /\ UNCHANGED <<list, at, work, canceller, exits, early>>

-----------------------------------------------------------------------------
(* run: the goroutine of a build.                                          *)

(* BUG: a build already cancelled is left as it is.                        *)
CompileBug(b) ==
    /\ IF b \in cancelled
       THEN Go(b, "started", "recorded") /\ UNCHANGED list
       ELSE Go(b, "started", "compiling") /\ SaveState(b, "running", finished)
    /\ UNCHANGED <<at, running, cancelled, starter, canceller, exits, early>>

Compile(b) ==
    /\ Go(b, "started", "compiling")
    /\ SaveState(b, "running", finished)
    /\ UNCHANGED <<at, running, cancelled, starter, canceller, exits, early>>

(* BUG: the final state is set and not saved.                              *)
ConcludeUnsavedBug(b, verdict) ==
    /\ Go(b, "compiling", "recorded")
    /\ state' = [state EXCEPT ![b] = IF b \in cancelled THEN "cancelled" ELSE verdict]
    /\ UNCHANGED <<finished, disk, at, running, cancelled, starter, canceller, exits, early>>

(* BUG: what javac said counts even after a cancel.                        *)
ConcludeBug(b, verdict) ==
    /\ Go(b, "compiling", "recorded")
    /\ SaveState(b, verdict, finished)
    /\ UNCHANGED <<at, running, cancelled, starter, canceller, exits, early>>

(* Compile returns: javac ended, was cancelled or ran out of time.  Whether*)
(* the context is cancelled is looked up under the lock.                   *)
Conclude(b, verdict) ==
    /\ Go(b, "compiling", "recorded")
    /\ SaveState(b, IF b \in cancelled THEN "cancelled" ELSE verdict, finished)
    /\ UNCHANGED <<at, running, cancelled, starter, canceller, exits, early>>

(* The deferred function: leave the table, then close done.  One step: a   *)
(* Cancel between the two finds what it finds after both, and one that     *)
(* waits is woken at any later time.                                       *)
Leave(b) ==
    /\ Go(b, "recorded", "over")
    /\ running' = running \ {b}
    /\ UNCHANGED <<list, at, cancelled, starter, canceller, exits, early>>

-----------------------------------------------------------------------------
(* Cancel's critical section when the build is listed and in the table.    *)
CancelContext(b) ==
    /\ b \in finished \cap running
    /\ cancelled' = cancelled \cup {b}
    /\ early' = IF pc[b] \in {"started", "compiling"} THEN early \cup {b} ELSE early

(* What Get finds.                                                         *)
Found(b) == IF b \in finished THEN state[b] ELSE "not found"

(* BUG: the end of the build is not waited for.                            *)
CancelBug(c, b) ==
    /\ canceller[c].build = None
    /\ \/ /\ CancelContext(b)
          /\ canceller' = [canceller EXCEPT ![c] = [build |-> b, reply |-> "cancelled"]]
       \/ /\ b \notin finished \cap running
          /\ canceller' = [canceller EXCEPT ![c] = [build |-> b, reply |-> Found(b)]]
          /\ UNCHANGED <<cancelled, early>>
    /\ UNCHANGED <<list, at, running, pc, starter, exits>>

(* Cancel: an unknown build, one that is not in the table, or one to       *)
(* cancel and wait for.                                                    *)
Cancel(c, b) ==
    /\ canceller[c].build = None
    /\ \/ /\ CancelContext(b)
          /\ canceller' = [canceller EXCEPT ![c] = [build |-> b, reply |-> "waiting"]]
       \/ /\ b \notin finished \cap running
          /\ canceller' = [canceller EXCEPT ![c] = [build |-> b, reply |-> Found(b)]]
          /\ UNCHANGED <<cancelled, early>>
    /\ UNCHANGED <<list, at, running, pc, starter, exits>>

(* done is closed and Cancel reads the build again, or its timer or its    *)
(* context ends first.                                                     *)
CancelReturns(c) ==
    LET b == canceller[c].build IN
    /\ canceller[c].reply = "waiting"
    /\ \E r \in {"error"} \cup (IF pc[b] = "over" THEN {Found(b)} ELSE {}) :
         canceller' = [canceller EXCEPT ![c].reply = r]
    /\ UNCHANGED <<list, at, work, starter, exits, early>>

(* waitForBuild: a tick of the poll; the end of the request's context,     *)
(* which cancels the build; and the return from that Cancel.               *)
Poll(b) ==
    /\ starter[b].reply = "polling"
    /\ \/ Found(b) = "success" /\ Reply(b, "launched")
       \/ Found(b) \in {"failure", "cancelled", "not found"} /\ Reply(b, "not launched")
    /\ UNCHANGED <<list, at, work, canceller, exits, early>>

Abort(b) ==
    /\ starter[b].reply = "polling"
    /\ \/ CancelContext(b) /\ Reply(b, "aborting")
       \/ b \notin finished \cap running /\ Reply(b, "not launched") /\ UNCHANGED <<cancelled, early>>
    /\ UNCHANGED <<list, at, running, pc, canceller, exits>>

AbortReturns(b) ==
    /\ starter[b].reply = "aborting"
    /\ Reply(b, "not launched")
    /\ UNCHANGED <<list, at, work, canceller, exits, early>>

-----------------------------------------------------------------------------
(* The agent dies or restarts; loadFinished takes the file as it is.       *)
AgentExit ==
    /\ exits < MaxExits
    /\ exits' = exits + 1
    /\ finished' = {b \in Builds : disk[b] # "absent"}
    /\ state' = [b \in Builds |-> IF disk[b] # "absent" THEN disk[b] ELSE "none"]
    /\ running' = {}
    /\ cancelled' = {}
    /\ pc' = [b \in Builds |-> CASE pc[b] = "new" -> "new"
                               [] pc[b] \in {"made", "lost"} -> "lost"
                               [] OTHER -> "dead"]
    /\ starter' = [b \in Builds |->
         IF pc[b] # "new" /\ starter[b].reply \in {"none", "polling", "aborting"}
         THEN [starter[b] EXCEPT !.reply = "dropped"] ELSE starter[b]]
    /\ canceller' = [c \in Cancellers |->
         IF canceller[c].reply = "waiting"
         THEN [canceller[c] EXCEPT !.reply = "dropped"] ELSE canceller[c]]
    /\ UNCHANGED <<disk, at, early>>

-----------------------------------------------------------------------------
Start(b) == List(b) \/ Register(b) \/ Snapshot(b)
Goroutine(b) ==
    \/ Compile(b)
    \/ \E verdict \in {"success", "failure"} : Conclude(b, verdict)
    \/ Leave(b)
Wait(b) == Poll(b) \/ AbortReturns(b)

Next ==
    \/ \E b \in Builds : \/ \E kind \in Kinds : Make(b, kind)
                         \/ Start(b) \/ Goroutine(b) \/ Wait(b) \/ Abort(b)
    \/ \E c \in Cancellers : (\E b \in Builds : Cancel(c, b)) \/ CancelReturns(c)
    \/ AgentExit

Spec == Init /\ [][Next]_vars

(* Handlers and goroutines are scheduled, the ticker ticks, and Compile    *)
(* returns: it gives up on javac after five minutes.  No client is assumed *)
(* to cancel or to drop its request.                                       *)
FairEngine ==
    /\ Spec
    /\ \A b \in Builds : WF_vars(Start(b)) /\ WF_vars(Goroutine(b)) /\ WF_vars(Wait(b))

-----------------------------------------------------------------------------
(* PROPERTIES                                                              *)

(* Types of the list, the file and the requests; the list never holds more *)
(* than Keep builds (asyncBuildEngine, saveFinished).                      *)
TypeOK ==
    /\ state \in [Builds -> {"none"} \cup States]
    /\ at \in [Builds -> 0..MaxAt]
    /\ finished \subseteq Builds /\ Cardinality(finished) <= Keep
    /\ disk \in [Builds -> {"absent"} \cup States]
    /\ running \subseteq Builds
    /\ cancelled \subseteq Builds
    /\ pc \in [Builds -> {"new", "made", "lost", "listed", "dead"} \cup Goroutines]
    /\ starter \in [Builds -> Starter]
    /\ canceller \in [Cancellers -> Canceller]
    /\ \A c \in Cancellers : canceller[c].reply # "none" => canceller[c].build # None
    /\ exits \in 0..MaxExits
    /\ early \subseteq Builds

(* What a reader finds under an id, and the engine as a refinement of the  *)
(* ledger: for Get and List a build only moves forward, whatever Start,    *)
(* run, Cancel, the trimming of the list and restarts do to each other.    *)
Visible(b) ==
    IF b \in finished THEN state[b]
    ELSE IF pc[b] \in {"new", "made", "lost"} THEN "unknown" ELSE "forgotten"

Ledger == INSTANCE BuildLedger WITH seen <- [b \in Builds |-> Visible(b)]

ImplementsLedger == Ledger!Spec

(* An answer of Cancel that names a final state can be relied upon: the    *)
(* build is in that state, and if it is still listed a restart will find   *)
(* it in that state too.                                                   *)
CancelAnswerHolds ==
    \A c \in Cancellers : canceller[c].reply \in Final =>
        LET b == canceller[c].build IN
        b \in finished => state[b] = canceller[c].reply /\ disk[b] = canceller[c].reply

(* Once a cancel reached a build that had not concluded, no launch deploys *)
(* and starts what that build produced, whoever raced whom (waitForBuild). *)
NoLaunchOfCancelled == \A b \in early : starter[b].reply # "launched"

(* A launch comes to an end: its build reaches a final state or leaves the *)
(* list, and the poll notices either (waitForBuild has no timeout).        *)
LaunchReturns ==
    \A b \in Builds : starter[b].reply = "polling" ~> starter[b].reply \notin {"polling", "aborting"}
=============================================================================
