------------------------- MODULE BuildEngineProofs -------------------------
(* Theorems about BuildEngine, for every choice of its constants: the type  *)
(* invariant, the two promises of Cancel, and that the engine implements    *)
(* the ledger of builds.                                                    *)
EXTENDS BuildEngine, FiniteSetTheorems, TLAPS

(* What is saved is what is listed.                                         *)
DiskAgrees ==
    \A b \in Builds : disk[b] = IF b \in finished THEN state[b] ELSE "absent"

(* The state of a build is where its goroutine is, and a build is listed    *)
(* only from List on.                                                       *)
Phases ==
    \A b \in Builds :
        /\ pc[b] \in {"new", "made", "lost"} => b \notin finished
        /\ pc[b] \in {"listed", "started"} => state[b] = "queued"
        /\ pc[b] = "compiling" => state[b] = "running"
        /\ pc[b] \in {"recorded", "over"} => state[b] \in Final
        /\ b \in finished => state[b] \in States

(* Builds that have concluded, or whose goroutine died with the agent.      *)
Past == {"recorded", "over", "dead"}

(* A launch polls a build whose goroutine exists, and one that went ahead   *)
(* saw it conclude.                                                         *)
LaunchPhases ==
    \A b \in Builds :
        /\ starter[b].reply \in {"polling", "aborting"} => pc[b] \in Goroutines
        /\ starter[b].reply = "launched" => pc[b] \in Past

(* A build that was cancelled in time never succeeds.                       *)
EarlyInv ==
    \A b \in early :
        /\ pc[b] \in Goroutines \cup {"dead"}
        /\ pc[b] \in {"started", "compiling"} => b \in cancelled
        /\ state[b] # "success"
        /\ starter[b].reply # "launched"

(* The final state that Cancel has answered does not change any more.       *)
AnswerInv ==
    \A c \in Cancellers : canceller[c].reply \in Final =>
        LET b == canceller[c].build IN
        pc[b] \in Past /\ (b \in finished => state[b] = canceller[c].reply)

IndInv == TypeOK /\ DiskAgrees /\ Phases /\ LaunchPhases /\ EarlyInv /\ AnswerInv

-----------------------------------------------------------------------------
(* Sets of builds are finite and have a size.                               *)
LEMMA FiniteBuilds ==
    ASSUME NEW S, S \subseteq Builds
    PROVE  IsFiniteSet(S) /\ Cardinality(S) \in Nat
  BY EngineConstants, FS_Subset, FS_CardinalityType

(* saveFinished: one state is set, the list is trimmed only when it is too  *)
(* long, and the file holds what the list holds.                            *)
LEMMA SaveOK ==
    ASSUME TypeOK, NEW b \in Builds, NEW s \in States, NEW bs, bs \subseteq Builds,
           SaveState(b, s, bs)
    PROVE  /\ state' \in [Builds -> {"none"} \cup States]
           /\ state'[b] = s
           /\ \A x \in Builds : x # b => state'[x] = state[x]
           /\ finished' \subseteq bs
           /\ Cardinality(finished') <= Keep
           /\ Cardinality(bs) <= Keep => finished' = bs
           /\ disk' = [x \in Builds |-> IF x \in finished' THEN state'[x] ELSE "absent"]
  <1>1. state' = [state EXCEPT ![b] = s] /\ state \in [Builds -> {"none"} \cup States]
    BY DEF SaveState, TypeOK
  <1>2. PICK kept \in Recent(bs) :
           /\ finished' = kept
           /\ disk' = [x \in Builds |-> IF x \in kept THEN state'[x] ELSE "absent"]
    BY DEF SaveState
  <1>3. state' \in [Builds -> {"none"} \cup States] /\ state'[b] = s
        /\ \A x \in Builds : x # b => state'[x] = state[x]
    BY <1>1
  <1>4. CASE Cardinality(bs) <= Keep
    <2>1. finished' = bs
      BY <1>2, <1>4 DEF Recent
    <2> QED BY <1>2, <1>3, <1>4, <2>1
  <1>5. CASE ~(Cardinality(bs) <= Keep)
    <2>1. finished' \subseteq bs /\ Cardinality(finished') = Keep
      BY <1>2, <1>5 DEF Recent
    <2> QED BY <1>2, <1>3, <1>5, <2>1, EngineConstants
  <1> QED BY <1>4, <1>5

(* The engine starts with an empty list.                                    *)
LEMMA InitOK == Init => IndInv
  <1> SUFFICES ASSUME Init PROVE IndInv
    OBVIOUS
  <1>1. Cardinality({}) = 0
    BY FS_EmptySet
  <1>2. TypeOK
    BY <1>1, EngineConstants DEF Init, TypeOK, Starter, Canceller
  <1>3. DiskAgrees /\ Phases /\ LaunchPhases /\ EarlyInv /\ AnswerInv
    BY DEF Init, DiskAgrees, Phases, LaunchPhases, EarlyInv, AnswerInv, Final
  <1> QED BY <1>2, <1>3 DEF IndInv

-----------------------------------------------------------------------------
(* A request's record with one field changed.                               *)
LEMMA StarterOK ==
    ASSUME TypeOK, NEW b \in Builds
    PROVE  /\ \A r : /\ r \in {"none", "polling", "aborting", "dropped", "compiled", "launched",
                               "not launched"} \cup States
                     /\ Reply(b, r)
                     => /\ starter' \in [Builds -> Starter]
                        /\ starter'[b].reply = r
                        /\ \A x \in Builds : x # b => starter'[x] = starter[x]
           /\ \A k \in Kinds : starter' = [starter EXCEPT ![b].kind = k]
                     => /\ starter' \in [Builds -> Starter]
                        /\ \A x \in Builds : starter'[x].reply = starter[x].reply
  <1>1. starter \in [Builds -> Starter] /\ starter[b] \in Starter
    BY DEF TypeOK
  <1>2. ASSUME NEW r \in {"none", "polling", "aborting", "dropped", "compiled", "launched",
                          "not launched"} \cup States,
               Reply(b, r)
        PROVE  /\ starter' \in [Builds -> Starter]
               /\ starter'[b].reply = r
               /\ \A x \in Builds : x # b => starter'[x] = starter[x]
    <2> DEFINE rec == [starter[b] EXCEPT !.reply = r]
    <2>1. rec \in Starter /\ rec.reply = r
      BY <1>1 DEF Starter
    <2>2. starter' = [starter EXCEPT ![b] = rec]
      BY <1>2 DEF Reply
    <2> HIDE DEF rec
    <2> QED BY <1>1, <2>1, <2>2
  <1>3. ASSUME NEW k \in Kinds, starter' = [starter EXCEPT ![b].kind = k]
        PROVE  /\ starter' \in [Builds -> Starter]
               /\ \A x \in Builds : starter'[x].reply = starter[x].reply
    <2> DEFINE rec == [starter[b] EXCEPT !.kind = k]
    <2>1. rec \in Starter /\ rec.reply = starter[b].reply
      BY <1>1 DEF Starter
    <2>2. starter' = [starter EXCEPT ![b] = rec]
      BY <1>3
    <2> HIDE DEF rec
    <2> QED BY <1>1, <2>1, <2>2
  <1> QED BY <1>2, <1>3

(* Start makes a result that nobody can see yet.                            *)
LEMMA MakeOK ==
    ASSUME IndInv, NEW b \in Builds, NEW kind \in Kinds, Make(b, kind) PROVE IndInv'
  <1>1. /\ pc[b] = "new" /\ pc' = [pc EXCEPT ![b] = "made"]
        /\ UNCHANGED <<state, finished, disk, running, cancelled, canceller, exits, early>>
        /\ starter' \in [Builds -> Starter]
        /\ \A x \in Builds : starter'[x].reply = starter[x].reply
        /\ at' \in [Builds -> 0..MaxAt]
    <2>1. starter' = [starter EXCEPT ![b].kind = kind] /\ TypeOK
      BY DEF Make, IndInv
    <2>2. /\ starter' \in [Builds -> Starter]
          /\ \A x \in Builds : starter'[x].reply = starter[x].reply
      BY <2>1, StarterOK
    <2>3. at' \in [Builds -> 0..MaxAt]
      BY <2>1 DEF Make, TypeOK
    <2> QED BY <2>2, <2>3 DEF Make, Go, list
  <1>2. TypeOK'
    BY <1>1 DEF IndInv, TypeOK
  <1>3. DiskAgrees' /\ Phases' /\ LaunchPhases' /\ EarlyInv' /\ AnswerInv'
    BY <1>1 DEF IndInv, TypeOK, DiskAgrees, Phases, LaunchPhases, EarlyInv, AnswerInv, Past,
                Goroutines
  <1> QED BY <1>2, <1>3 DEF IndInv
(* The three steps that save: a build is listed, compiled and concluded.    *)
SavingStep(b, s, to, bs) ==
    \/ pc[b] = "made" /\ s = "queued" /\ to = "listed" /\ bs = finished \cup {b}
    \/ pc[b] = "started" /\ s = "running" /\ to = "compiling" /\ bs = finished
    \/ /\ pc[b] = "compiling" /\ s \in Final /\ to = "recorded" /\ bs = finished
       /\ b \in cancelled => s = "cancelled"

(* Each of the three keeps the invariant, the trimming and the write of    *)
(* the file included.                                                      *)
LEMMA SavingOK ==
    ASSUME IndInv, NEW b \in Builds, NEW s, NEW to, NEW bs,
           SavingStep(b, s, to, bs), SaveState(b, s, bs), pc' = [pc EXCEPT ![b] = to],
           UNCHANGED <<at, running, cancelled, starter, canceller, exits, early>>
    PROVE  IndInv'
  <1>1. s \in States /\ bs \subseteq Builds /\ bs \in {finished, finished \cup {b}} /\ TypeOK
    BY DEF SavingStep, States, Final, IndInv, TypeOK
  <1>2. /\ state' \in [Builds -> {"none"} \cup States]
        /\ state'[b] = s
        /\ \A x \in Builds : x # b => state'[x] = state[x]
        /\ finished' \subseteq bs
        /\ Cardinality(finished') <= Keep
        /\ disk' = [x \in Builds |-> IF x \in finished' THEN state'[x] ELSE "absent"]
    BY <1>1, SaveOK
  <1>3. \A x \in finished' : state'[x] \in States
    BY <1>1, <1>2 DEF IndInv, Phases, TypeOK
  <1>4. disk' \in [Builds -> {"absent"} \cup States]
    BY <1>2, <1>3
  <1>5. pc' \in [Builds -> {"new", "made", "lost", "listed", "dead"} \cup Goroutines]
    BY <1>1 DEF TypeOK, SavingStep, Goroutines
  <1>6. TypeOK'
    BY <1>1, <1>2, <1>4, <1>5 DEF TypeOK
  <1>7. DiskAgrees'
    BY <1>2 DEF DiskAgrees
  <1>8. Phases'
    <2> SUFFICES ASSUME NEW x \in Builds
                 PROVE  /\ pc'[x] \in {"new", "made", "lost"} => x \notin finished'
                        /\ pc'[x] \in {"listed", "started"} => state'[x] = "queued"
                        /\ pc'[x] = "compiling" => state'[x] = "running"
                        /\ pc'[x] \in {"recorded", "over"} => state'[x] \in Final
                        /\ x \in finished' => state'[x] \in States
      BY DEF Phases
    <2>1. CASE x # b
      BY <1>1, <1>2, <1>3, <2>1 DEF IndInv, Phases, TypeOK
    <2>2. CASE x = b
      BY <1>1, <1>2, <1>3, <2>2 DEF SavingStep, TypeOK
    <2> QED BY <2>1, <2>2
  <1>9. LaunchPhases'
    BY <1>1 DEF IndInv, LaunchPhases, SavingStep, TypeOK, Goroutines, Past
  <1>10. EarlyInv'
    <2> SUFFICES ASSUME NEW x \in early
                 PROVE  /\ pc'[x] \in Goroutines \cup {"dead"}
                        /\ pc'[x] \in {"started", "compiling"} => x \in cancelled
                        /\ state'[x] # "success"
                        /\ starter[x].reply # "launched"
      BY DEF EarlyInv
    <2>1. CASE x # b
      BY <1>1, <1>2, <2>1 DEF IndInv, EarlyInv, TypeOK
    <2>2. CASE x = b
      BY <1>1, <1>2, <2>2 DEF IndInv, EarlyInv, TypeOK, SavingStep, Goroutines
    <2> QED BY <2>1, <2>2
  <1>11. AnswerInv'
    <2> SUFFICES ASSUME NEW c \in Cancellers, canceller[c].reply \in Final
                 PROVE  /\ pc'[canceller[c].build] \in Past
                        /\ canceller[c].build \in finished' =>
                              state'[canceller[c].build] = canceller[c].reply
      BY DEF AnswerInv
    <2>1. pc[canceller[c].build] \in Past /\ canceller[c].build \in Builds
      BY <1>1 DEF IndInv, AnswerInv, TypeOK, Final, Canceller
    <2>2. canceller[c].build # b
      BY <2>1 DEF SavingStep, Past
    <2> QED BY <1>1, <1>2, <2>1, <2>2 DEF IndInv, AnswerInv, TypeOK
  <1> QED BY <1>6, <1>7, <1>8, <1>9, <1>10, <1>11 DEF IndInv

(* A new build is put on the list and saved as queued.                     *)
LEMMA ListOK ==
    ASSUME IndInv, NEW b \in Builds, List(b) PROVE IndInv'
  <1>1. SavingStep(b, "queued", "listed", finished \cup {b})
    BY DEF List, Go, SavingStep
  <1> QED BY <1>1, SavingOK DEF List, Go

(* A listed build is saved as running.                                     *)
LEMMA CompileOK ==
    ASSUME IndInv, NEW b \in Builds, Compile(b) PROVE IndInv'
  <1>1. SavingStep(b, "running", "compiling", finished)
    BY DEF Compile, Go, SavingStep
  <1> QED BY <1>1, SavingOK DEF Compile, Go

(* The verdict, or the cancellation found instead of it, is recorded and   *)
(* saved.                                                                  *)
LEMMA ConcludeOK ==
    ASSUME IndInv, NEW b \in Builds, NEW verdict \in {"success", "failure"}, Conclude(b, verdict)
    PROVE  IndInv'
  <1>1. SavingStep(b, IF b \in cancelled THEN "cancelled" ELSE verdict, "recorded", finished)
    BY DEF Conclude, Go, SavingStep, Final
  <1> QED BY <1>1, SavingOK DEF Conclude, Go

(* Entering the table and leaving it.                                       *)
LEMMA RegisterLeaveOK ==
    ASSUME IndInv, NEW b \in Builds, Register(b) \/ Leave(b) PROVE IndInv'
  <1>1. /\ \/ pc[b] = "listed" /\ pc' = [pc EXCEPT ![b] = "started"]
           \/ pc[b] = "recorded" /\ pc' = [pc EXCEPT ![b] = "over"]
        /\ UNCHANGED <<state, finished, disk, at, cancelled, starter, canceller, exits, early>>
        /\ running' \subseteq Builds
    BY DEF Register, Leave, Go, list, IndInv, TypeOK
  <1>2. TypeOK'
    BY <1>1 DEF IndInv, TypeOK, Goroutines
  <1>3. DiskAgrees' /\ Phases' /\ LaunchPhases' /\ EarlyInv'
    BY <1>1 DEF IndInv, TypeOK, DiskAgrees, Phases, LaunchPhases, EarlyInv, Past, Goroutines
  <1>4. AnswerInv'
    BY <1>1 DEF IndInv, TypeOK, AnswerInv, Past, Canceller, Final
  <1> QED BY <1>2, <1>3, <1>4 DEF IndInv
-----------------------------------------------------------------------------
(* Steps of requests leave the builds alone, except that they may cancel a  *)
(* context.                                                                 *)
LEMMA RequestsOK ==
    ASSUME IndInv, UNCHANGED <<list, at, running, pc, exits>>,
           UNCHANGED <<cancelled, early>> \/ \E b \in Builds : CancelContext(b),
           starter' \in [Builds -> Starter], canceller' \in [Cancellers -> Canceller],
           \A x \in Builds : starter'[x].reply \in {"polling", "aborting"} => pc[x] \in Goroutines,
           \A x \in Builds : starter'[x].reply = "launched" =>
               starter[x].reply = "launched" \/ (x \in finished /\ state[x] = "success"),
           \A c \in Cancellers :
               \/ canceller'[c] = canceller[c]
               \/ /\ canceller'[c].build \in Builds
                  /\ canceller'[c].reply \in Final =>
                        /\ canceller'[c].build \in finished
                        /\ state[canceller'[c].build] = canceller'[c].reply
    PROVE  IndInv'
  <1>1. TypeOK /\ cancelled' \subseteq Builds /\ early' \subseteq Builds
    BY DEF IndInv, TypeOK, CancelContext
  <1>2. /\ cancelled \subseteq cancelled'
        /\ \A b \in early' : b \in early \/ (b \in cancelled' /\ pc[b] \in {"started", "compiling"})
    BY DEF CancelContext
  <1>3. \A x \in finished : state[x] \in Final => pc[x] \in Past
    BY <1>1 DEF IndInv, Phases, TypeOK, Past, Final, Goroutines
  <1>4. TypeOK'
    <2>1. \A c \in Cancellers : canceller'[c].reply # "none" => canceller'[c].build # None
      BY <1>1, EngineConstants DEF TypeOK
    <2> QED BY <1>1, <2>1 DEF TypeOK, list
  <1>5. DiskAgrees' /\ Phases'
    BY DEF IndInv, DiskAgrees, Phases, list
  <1>6. LaunchPhases'
    BY <1>3 DEF IndInv, LaunchPhases, list, Final
  <1>7. EarlyInv'
    <2> SUFFICES ASSUME NEW b \in early'
                 PROVE  /\ pc[b] \in Goroutines \cup {"dead"}
                        /\ pc[b] \in {"started", "compiling"} => b \in cancelled'
                        /\ state[b] # "success"
                        /\ starter'[b].reply # "launched"
      BY DEF EarlyInv, list
    <2>1. CASE b \in early
      BY <1>1, <1>2, <2>1 DEF IndInv, EarlyInv, TypeOK
    <2>2. CASE b \notin early
      <3>1. b \in Builds /\ b \in cancelled' /\ pc[b] \in {"started", "compiling"}
        BY <1>1, <1>2, <2>2
      <3>2. state[b] # "success"
        BY <3>1 DEF IndInv, Phases
      <3>3. starter[b].reply # "launched"
        BY <3>1 DEF IndInv, LaunchPhases, Past
      <3> QED BY <3>1, <3>2, <3>3 DEF Goroutines
    <2> QED BY <2>1, <2>2
  <1>8. AnswerInv'
    <2> SUFFICES ASSUME NEW c \in Cancellers, canceller'[c].reply \in Final
                 PROVE  /\ pc[canceller'[c].build] \in Past
                        /\ canceller'[c].build \in finished =>
                              state[canceller'[c].build] = canceller'[c].reply
      BY DEF AnswerInv, list
    <2>1. CASE canceller'[c] = canceller[c]
      BY <2>1 DEF IndInv, AnswerInv
    <2>2. CASE canceller'[c] # canceller[c]
      BY <1>3, <2>2
    <2> QED BY <2>1, <2>2
  <1> QED BY <1>4, <1>5, <1>6, <1>7, <1>8 DEF IndInv

(* The replies to the request that started a build.                         *)
LEMMA StarterStepsOK ==
    ASSUME IndInv, NEW b \in Builds,
           Snapshot(b) \/ Poll(b) \/ Abort(b) \/ AbortReturns(b)
    PROVE  IndInv'
  <1>1. TypeOK
    BY DEF IndInv
  <1> DEFINE Fits(r) ==
        /\ r \in {"polling", "aborting", "compiled", "launched", "not launched"} \cup States
        /\ r \in {"polling", "aborting"} => pc[b] \in Goroutines
        /\ r = "launched" => b \in finished /\ state[b] = "success"
  <1>2. \E r : Reply(b, r) /\ Fits(r)
    <2>1. CASE Snapshot(b)
      <3> DEFINE r == SnapshotReply(starter[b].kind, state[b])
      <3>1. state[b] \in States /\ pc[b] \in Goroutines
        BY <2>1 DEF Snapshot, Goroutines, IndInv, Phases, States, Final
      <3>2. r \in {"polling", "compiled"} \cup States
        BY <3>1 DEF SnapshotReply
      <3>3. Reply(b, r)
        BY <2>1 DEF Snapshot
      <3>4. Fits(r)
        BY <3>1, <3>2 DEF States, Final
      <3> QED BY <3>3, <3>4
    <2>2. CASE Poll(b)
      <3>1. \/ Reply(b, "launched") /\ Fits("launched")
            \/ Reply(b, "not launched") /\ Fits("not launched")
        BY <2>2 DEF Poll, Found
      <3> QED BY <3>1
    <2>3. CASE Abort(b)
      <3>1. pc[b] \in Goroutines
        BY <2>3 DEF Abort, IndInv, LaunchPhases
      <3>2. \/ Reply(b, "aborting") /\ Fits("aborting")
            \/ Reply(b, "not launched") /\ Fits("not launched")
        BY <2>3, <3>1 DEF Abort
      <3> QED BY <3>2
    <2>4. CASE AbortReturns(b)
      <3>1. Reply(b, "not launched") /\ Fits("not launched")
        BY <2>4 DEF AbortReturns
      <3> QED BY <3>1
    <2> QED BY <2>1, <2>2, <2>3, <2>4
  <1>3a. PICK r : Reply(b, r) /\ Fits(r)
    BY <1>2
  <1>3. /\ starter' \in [Builds -> Starter] /\ starter'[b].reply = r
        /\ \A x \in Builds : x # b => starter'[x] = starter[x]
    BY <1>1, <1>3a, StarterOK
  <1>4. UNCHANGED <<list, at, running, pc, exits, canceller>>
    BY DEF Snapshot, Poll, Abort, AbortReturns, work
  <1>5. UNCHANGED <<cancelled, early>> \/ CancelContext(b)
    BY DEF Snapshot, Poll, Abort, AbortReturns, work
  <1>6. \A x \in Builds : starter'[x].reply \in {"polling", "aborting"} => pc[x] \in Goroutines
    BY <1>3a, <1>3 DEF IndInv, LaunchPhases
  <1>7. \A x \in Builds : starter'[x].reply = "launched" =>
               starter[x].reply = "launched" \/ (x \in finished /\ state[x] = "success")
    BY <1>3a, <1>3
  <1>8. canceller' \in [Cancellers -> Canceller]
    BY <1>1, <1>4 DEF TypeOK
  <1> QED BY <1>3, <1>4, <1>5, <1>6, <1>7, <1>8, RequestsOK

(* A Cancel that answers at once or begins to wait.                         *)
LEMMA CancelOK ==
    ASSUME IndInv, NEW c \in Cancellers, NEW b \in Builds, Cancel(c, b) PROVE IndInv'
  <1>1. TypeOK
    BY DEF IndInv
  <1> DEFINE r == IF b \in finished \cap running THEN "waiting" ELSE Found(b)
  <1>2. /\ canceller' = [canceller EXCEPT ![c] = [build |-> b, reply |-> r]]
        /\ r \in {"waiting", "not found"} \cup States
        /\ r \in Final => b \in finished /\ state[b] = r
    <2>1. canceller' = [canceller EXCEPT ![c] = [build |-> b, reply |-> r]]
      BY DEF Cancel, CancelContext
    <2>2. b \in finished => state[b] \in States
      BY DEF IndInv, Phases
    <2> QED BY <2>1, <2>2 DEF Found, Final
  <1> HIDE DEF r
  <1>3. [build |-> b, reply |-> r] \in Canceller
    BY <1>2 DEF Canceller
  <1>4. canceller' \in [Cancellers -> Canceller] /\ starter' \in [Builds -> Starter]
    BY <1>1, <1>2, <1>3 DEF TypeOK, Cancel
  <1>5. \A x \in Cancellers :
               \/ canceller'[x] = canceller[x]
               \/ /\ canceller'[x].build \in Builds
                  /\ canceller'[x].reply \in Final =>
                        /\ canceller'[x].build \in finished
                        /\ state[canceller'[x].build] = canceller'[x].reply
    BY <1>1, <1>2 DEF TypeOK
  <1>6. UNCHANGED <<list, at, running, pc, exits, starter>>
        /\ (UNCHANGED <<cancelled, early>> \/ CancelContext(b))
    BY DEF Cancel
  <1>7. \A x \in Builds : starter'[x].reply \in {"polling", "aborting"} => pc[x] \in Goroutines
    BY <1>6 DEF IndInv, LaunchPhases
  <1> QED BY <1>4, <1>5, <1>6, <1>7, RequestsOK

(* A Cancel that has waited.                                                *)
LEMMA CancelReturnsOK ==
    ASSUME IndInv, NEW c \in Cancellers, CancelReturns(c) PROVE IndInv'
  <1> DEFINE b == canceller[c].build
  <1>1. TypeOK /\ b \in Builds
    BY DEF IndInv, TypeOK, CancelReturns, Canceller
  <1>2. PICK r : /\ canceller' = [canceller EXCEPT ![c].reply = r]
                 /\ r \in {"error", "not found"} \cup States
                 /\ r \in Final => b \in finished /\ state[b] = r
    BY <1>1 DEF CancelReturns, Found, IndInv, Phases, Final
  <1> DEFINE rec == [canceller[c] EXCEPT !.reply = r]
  <1>3. rec \in Canceller /\ rec.reply = r /\ rec.build = b
    BY <1>1, <1>2 DEF TypeOK, Canceller
  <1>4. canceller' = [canceller EXCEPT ![c] = rec]
    BY <1>2
  <1> HIDE DEF rec, b
  <1>5. canceller' \in [Cancellers -> Canceller] /\ starter' \in [Builds -> Starter]
    BY <1>1, <1>3, <1>4 DEF TypeOK, CancelReturns
  <1>6. \A x \in Cancellers :
               \/ canceller'[x] = canceller[x]
               \/ /\ canceller'[x].build \in Builds
                  /\ canceller'[x].reply \in Final =>
                        /\ canceller'[x].build \in finished
                        /\ state[canceller'[x].build] = canceller'[x].reply
    BY <1>1, <1>2, <1>3, <1>4 DEF TypeOK
  <1>7. UNCHANGED <<list, at, running, pc, exits, starter, cancelled, early>>
    BY DEF CancelReturns, work
  <1>8. \A x \in Builds : starter'[x].reply \in {"polling", "aborting"} => pc[x] \in Goroutines
    BY <1>7 DEF IndInv, LaunchPhases
  <1> QED BY <1>5, <1>6, <1>7, <1>8, RequestsOK
(* A restart finds in the file what the list held.                          *)
LEMMA ExitLoads ==
    ASSUME TypeOK, DiskAgrees, Phases, AgentExit
    PROVE  /\ finished' = finished
           /\ \A b \in finished : state'[b] = state[b]
           /\ \A b \in Builds : b \notin finished => state'[b] = "none"
  <1>1. \A b \in Builds : disk[b] # "absent" <=> b \in finished
    BY DEF DiskAgrees, Phases, States, Final
  <1>2. finished' = {b \in Builds : disk[b] # "absent"}
        /\ state' = [b \in Builds |-> IF disk[b] # "absent" THEN disk[b] ELSE "none"]
    BY DEF AgentExit
  <1>3. finished \subseteq Builds
    BY DEF TypeOK
  <1> QED BY <1>1, <1>2, <1>3 DEF DiskAgrees

(* The agent dies and loads its list from the file.                        *)
LEMMA AgentExitOK == ASSUME IndInv, AgentExit PROVE IndInv'
  <1>1. TypeOK /\ DiskAgrees /\ Phases
    BY DEF IndInv
  <1>2. /\ finished' = finished
        /\ \A b \in finished : state'[b] = state[b]
        /\ \A b \in Builds : b \notin finished => state'[b] = "none"
    BY <1>1, ExitLoads
  <1>3. \A b \in Builds : /\ pc'[b] = "new" <=> pc[b] = "new"
                          /\ pc'[b] = "lost" <=> pc[b] \in {"made", "lost"}
                          /\ pc'[b] \in {"new", "lost", "dead"}
    BY DEF AgentExit
  <1>4. starter' \in [Builds -> Starter]
        /\ \A b \in Builds : \/ pc[b] = "new" /\ starter'[b] = starter[b]
                             \/ starter'[b].reply = "dropped"
                             \/ /\ starter'[b] = starter[b]
                                /\ starter[b].reply \notin {"polling", "aborting"}
    <2> SUFFICES ASSUME NEW b \in Builds
                 PROVE  /\ starter'[b] \in Starter
                        /\ \/ pc[b] = "new" /\ starter'[b] = starter[b]
                           \/ starter'[b].reply = "dropped"
                           \/ /\ starter'[b] = starter[b]
                              /\ starter[b].reply \notin {"polling", "aborting"}
      BY DEF AgentExit
    <2> DEFINE rec == [starter[b] EXCEPT !.reply = "dropped"]
    <2>1. starter[b] \in Starter
      BY <1>1 DEF TypeOK
    <2>2. rec \in Starter /\ rec.reply = "dropped"
      BY <2>1 DEF Starter
    <2>3. \/ pc[b] = "new" /\ starter'[b] = starter[b]
          \/ starter'[b] = rec
          \/ starter'[b] = starter[b] /\ starter[b].reply \notin {"polling", "aborting"}
      BY DEF AgentExit
    <2> HIDE DEF rec
    <2> QED BY <2>1, <2>2, <2>3
  <1>5. canceller' \in [Cancellers -> Canceller]
        /\ \A c \in Cancellers : \/ canceller'[c].reply = "dropped" /\ canceller[c].reply = "waiting"
                                    /\ canceller'[c].build = canceller[c].build
                                 \/ canceller'[c] = canceller[c]
    <2> SUFFICES ASSUME NEW c \in Cancellers
                 PROVE  /\ canceller'[c] \in Canceller
                        /\ \/ canceller'[c].reply = "dropped" /\ canceller[c].reply = "waiting"
                              /\ canceller'[c].build = canceller[c].build
                           \/ canceller'[c] = canceller[c]
      BY DEF AgentExit
    <2> DEFINE rec == [canceller[c] EXCEPT !.reply = "dropped"]
    <2>1. canceller[c] \in Canceller
      BY <1>1 DEF TypeOK
    <2>2. rec \in Canceller /\ rec.reply = "dropped" /\ rec.build = canceller[c].build
      BY <2>1 DEF Canceller
    <2>3. \/ canceller'[c] = rec /\ canceller[c].reply = "waiting"
          \/ canceller'[c] = canceller[c]
      BY DEF AgentExit
    <2> HIDE DEF rec
    <2> QED BY <2>1, <2>2, <2>3
  <1>6. TypeOK'
    <2>1. state' \in [Builds -> {"none"} \cup States]
      BY <1>1, <1>2 DEF AgentExit, TypeOK, Phases
    <2>2. pc' \in [Builds -> {"new", "made", "lost", "listed", "dead"} \cup Goroutines]
      BY DEF AgentExit
    <2>3. exits' \in 0..MaxExits /\ running' = {} /\ cancelled' = {} /\ early' = early
          /\ disk' = disk /\ at' = at
      BY <1>1, EngineConstants DEF AgentExit, TypeOK
    <2>4. \A c \in Cancellers : canceller'[c].reply # "none" => canceller'[c].build # None
      BY <1>1, <1>5 DEF TypeOK
    <2> QED BY <1>1, <1>2, <1>4, <1>5, <2>1, <2>2, <2>3, <2>4 DEF TypeOK
  <1>7. DiskAgrees'
    BY <1>1, <1>2 DEF DiskAgrees, AgentExit
  <1>8. Phases'
    BY <1>1, <1>2, <1>3 DEF Phases
  <1>9. LaunchPhases'
    BY <1>1, <1>3, <1>4 DEF IndInv, LaunchPhases, Past, Goroutines, Phases
  <1>10. EarlyInv'
    <2>1. early' = early /\ early \subseteq Builds
      BY <1>1 DEF AgentExit, TypeOK
    <2> QED BY <1>2, <1>3, <1>4, <2>1 DEF IndInv, EarlyInv, Goroutines
  <1>11. AnswerInv'
    <2> SUFFICES ASSUME NEW c \in Cancellers, canceller'[c].reply \in Final
                 PROVE  /\ pc'[canceller'[c].build] \in Past
                        /\ canceller'[c].build \in finished' =>
                              state'[canceller'[c].build] = canceller'[c].reply
      BY DEF AnswerInv
    <2>1. canceller'[c] = canceller[c]
      BY <1>5 DEF Final
    <2>2. canceller[c].build \in Builds
      BY <1>1, <2>1 DEF TypeOK, Canceller, Final
    <2> QED BY <1>2, <1>3, <2>1, <2>2 DEF IndInv, AnswerInv, Past
  <1> QED BY <1>6, <1>7, <1>8, <1>9, <1>10, <1>11 DEF IndInv

(* Every step preserves the invariant.                                      *)
LEMMA Step == IndInv /\ [Next]_vars => IndInv'
  <1> SUFFICES ASSUME IndInv, [Next]_vars PROVE IndInv'
    OBVIOUS
  <1>1. ASSUME NEW b \in Builds, NEW kind \in Kinds, Make(b, kind) PROVE IndInv'
    BY <1>1, MakeOK
  <1>2. ASSUME NEW b \in Builds, Start(b) PROVE IndInv'
    BY <1>2, ListOK, RegisterLeaveOK, StarterStepsOK DEF Start
  <1>3. ASSUME NEW b \in Builds, Goroutine(b) PROVE IndInv'
    BY <1>3, CompileOK, ConcludeOK, RegisterLeaveOK DEF Goroutine
  <1>4. ASSUME NEW b \in Builds, Wait(b) \/ Abort(b) PROVE IndInv'
    BY <1>4, StarterStepsOK DEF Wait
  <1>5. ASSUME NEW c \in Cancellers, NEW b \in Builds, Cancel(c, b) PROVE IndInv'
    BY <1>5, CancelOK
  <1>6. ASSUME NEW c \in Cancellers, CancelReturns(c) PROVE IndInv'
    BY <1>6, CancelReturnsOK
  <1>7. CASE AgentExit
    BY <1>7, AgentExitOK
  <1>8. CASE UNCHANGED vars
    BY <1>8 DEF vars, list, work, IndInv, TypeOK, DiskAgrees, Phases, LaunchPhases, EarlyInv,
                AnswerInv
  <1> QED BY <1>1, <1>2, <1>3, <1>4, <1>5, <1>6, <1>7, <1>8 DEF Next

(* The invariant holds in every reachable state.                           *)
LEMMA Inductive == Spec => []IndInv
  <1> QED BY InitOK, Step, PTL DEF Spec

-----------------------------------------------------------------------------
(* The list, the file and the requests keep their types, and the list never *)
(* outgrows its bound (asyncBuildEngine, saveFinished).                     *)
THEOREM TypeCorrect == Spec => []TypeOK
  <1>1. IndInv => TypeOK
    BY DEF IndInv
  <1> QED BY <1>1, Inductive, PTL

(* A final state answered by Cancel holds in memory and, as long as the     *)
(* build is listed, in the file (Cancel, run, loadFinished).                *)
THEOREM AnswerHolds == Spec => []CancelAnswerHolds
  <1>1. IndInv => CancelAnswerHolds
    <2> SUFFICES ASSUME IndInv, NEW c \in Cancellers, canceller[c].reply \in Final,
                        canceller[c].build \in finished
                 PROVE  /\ state[canceller[c].build] = canceller[c].reply
                        /\ disk[canceller[c].build] = canceller[c].reply
      BY DEF CancelAnswerHolds
    <2> QED BY DEF IndInv, TypeOK, AnswerInv, DiskAgrees
  <1> QED BY <1>1, Inductive, PTL

(* No launch goes ahead with a build that was cancelled in time             *)
(* (waitForBuild).                                                          *)
THEOREM NoCancelledLaunch == Spec => []NoLaunchOfCancelled
  <1>1. IndInv => NoLaunchOfCancelled
    BY DEF IndInv, EarlyInv, NoLaunchOfCancelled
  <1> QED BY <1>1, Inductive, PTL
-----------------------------------------------------------------------------
(* The ledger's view of the engine.                                         *)
Seen == [b \in Builds |-> Visible(b)]

(* The ledger counts with the same operator as the engine.                 *)
LEMMA SameSize == \A S : Ledger!Cardinality(S) = Cardinality(S)
  BY DEF Ledger!Cardinality, Cardinality, Ledger!IsFiniteSet, IsFiniteSet

(* The list as the ledger sees it is the list.                              *)
LEMMA ListedIsFinished ==
    ASSUME TypeOK, Phases PROVE Ledger!Listed(Seen) = finished
  <1>1. \A b \in Builds : Visible(b) \in States <=> b \in finished
    BY DEF Phases, Visible, States, Final
  <1> QED BY <1>1 DEF Ledger!Listed, Ledger!Listable, Ledger!Final, Seen, TypeOK, States, Final

(* A step that keeps list, states and who was ever listed does not show.    *)
LEMMA Invisible ==
    ASSUME finished' = finished,
           \A b \in finished : state'[b] = state[b],
           \A b \in Builds : pc'[b] \in {"new", "made", "lost"} <=> pc[b] \in {"new", "made", "lost"}
    PROVE  Seen' = Seen
  BY DEF Seen, Visible

(* A saving step is a move of the ledger, or does not show because the list *)
(* has dropped the build already.                                           *)
LEMMA SavingMoves ==
    ASSUME IndInv, NEW b \in Builds, NEW s, NEW to, NEW bs,
           SavingStep(b, s, to, bs), SaveState(b, s, bs), pc' = [pc EXCEPT ![b] = to], IndInv'
    PROVE  Ledger!Next \/ Seen' = Seen
  <1>1. s \in States /\ bs \subseteq Builds /\ TypeOK /\ Phases /\ TypeOK' /\ Phases'
    BY DEF SavingStep, States, Final, IndInv, TypeOK
  <1>2. /\ state'[b] = s
        /\ \A x \in Builds : x # b => state'[x] = state[x]
        /\ finished' \subseteq bs
        /\ Cardinality(finished') <= Keep
        /\ Cardinality(bs) <= Keep => finished' = bs
    BY <1>1, SaveOK
  <1>3. Ledger!Listed(Seen) = finished
    BY <1>1, ListedIsFinished
  <1>4. Ledger!Listed(Seen') = finished'
    <2>1. \A x \in Builds : Visible(x)' \in States <=> x \in finished'
      BY <1>1 DEF Phases, Visible, States, Final
    <2> QED BY <1>1, <2>1 DEF Ledger!Listed, Ledger!Listable, Ledger!Final, Seen, TypeOK, States, Final
  <1>5. /\ Ledger!Cardinality(Ledger!Listed(Seen) \cup {b}) = Cardinality(finished \cup {b})
        /\ Ledger!Cardinality(Ledger!Listed(Seen')) <= Keep
    BY <1>2, <1>3, <1>4, SameSize
  <1>6. CASE pc[b] = "made"
    <2>1. s = "queued" /\ to = "listed" /\ bs = finished \cup {b} /\ b \notin finished
      BY <1>1, <1>6 DEF SavingStep, Phases
    <2> DEFINE gone == (finished \cup {b}) \ finished'
    <2>2. Seen[b] = "unknown"
      BY <1>6, <2>1 DEF Seen, Visible
    <2>3. gone # {} => ~(Cardinality(finished \cup {b}) <= Keep)
      BY <1>2, <2>1
    <2>4. Cardinality(finished \cup {b}) \in Nat
      BY <1>1, <2>1, FiniteBuilds
    <2>5. gone # {} => Cardinality(finished \cup {b}) > Keep
      BY <2>3, <2>4, EngineConstants
    <2>6. Seen' = [x \in Builds |->
                    IF x \in gone THEN "forgotten" ELSE IF x = b THEN s ELSE Seen[x]]
      <3> SUFFICES ASSUME NEW x \in Builds
                   PROVE  Visible(x)' = IF x \in gone THEN "forgotten"
                                        ELSE IF x = b THEN s ELSE Visible(x)
        BY DEF Seen
      <3>1. CASE x = b
        <4>1. pc'[x] = "listed"
          BY <1>1, <2>1, <3>1 DEF TypeOK
        <4> QED BY <1>2, <2>1, <3>1, <4>1 DEF Visible
      <3>2. CASE x # b
        <4>1. pc'[x] = pc[x] /\ state'[x] = state[x]
          BY <1>1, <1>2, <3>2 DEF TypeOK
        <4>2. x \in finished => pc[x] \notin {"new", "made", "lost"}
          BY <1>1 DEF Phases
        <4> QED BY <1>2, <2>1, <3>2, <4>1, <4>2 DEF Visible
      <3> QED BY <3>1, <3>2
    <2>7. Ledger!Follows(Seen[b], s)
      BY <2>1, <2>2 DEF Ledger!Follows
    <2>8. Ledger!Move(b, s, gone)
      <3>1. gone \subseteq Ledger!Listed(Seen) \cup {b}
        BY <1>3
      <3>2. gone # {} => /\ Seen[b] = "unknown"
                         /\ Ledger!Cardinality(Ledger!Listed(Seen) \cup {b}) > Keep
        BY <1>5, <2>2, <2>5
      <3> QED BY <1>5, <2>6, <2>7, <3>1, <3>2 DEF Ledger!Move, Seen
    <2>9. s \in Ledger!Listable /\ gone \in SUBSET Builds
      BY <1>1, <2>1 DEF Ledger!Listable, TypeOK
    <2> QED BY <2>8, <2>9 DEF Ledger!Next
  <1>7. CASE pc[b] # "made"
    <2>1. /\ bs = finished /\ finished' = finished
          /\ pc[b] \in {"started", "compiling"} /\ to \in {"compiling", "recorded"}
          /\ s \in {"running"} \cup Final
      BY <1>1, <1>2, <1>7 DEF SavingStep, TypeOK, Final
    <2>2. \A x \in Builds : pc'[x] \in {"new", "made", "lost"} <=> pc[x] \in {"new", "made", "lost"}
      BY <1>1, <2>1 DEF TypeOK
    <2>3. CASE b \notin finished
      BY <1>1, <1>2, <2>1, <2>2, <2>3, Invisible DEF TypeOK
    <2>4. CASE b \in finished
      <3>1. Seen' = [x \in Builds |->
                      IF x \in {} THEN "forgotten" ELSE IF x = b THEN s ELSE Seen[x]]
        BY <1>1, <1>2, <2>1, <2>2, <2>4 DEF Seen, Visible, TypeOK
      <3>2. Ledger!Follows(Seen[b], s)
        BY <1>1, <1>7, <2>4 DEF Ledger!Follows, Ledger!Final, Seen, Visible, SavingStep, Phases, Final
      <3>3. Ledger!Move(b, s, {})
        BY <1>5, <3>1, <3>2 DEF Ledger!Move, Seen
      <3>4. s \in Ledger!Listable
        BY <2>1 DEF Ledger!Listable, Ledger!Final, Final
      <3> QED BY <3>3, <3>4 DEF Ledger!Next
    <2> QED BY <2>3, <2>4
  <1> QED BY <1>6, <1>7
(* Every step of the engine is a step of the ledger or does not show.       *)
LEMMA StepMoves == IndInv /\ IndInv' /\ [Next]_vars => Ledger!Next \/ Seen' = Seen
  <1> SUFFICES ASSUME IndInv, IndInv', [Next]_vars PROVE Ledger!Next \/ Seen' = Seen
    OBVIOUS
  <1>1. TypeOK /\ DiskAgrees /\ Phases
    BY DEF IndInv
  <1>2. ASSUME NEW b \in Builds, List(b) PROVE Ledger!Next \/ Seen' = Seen
    <2>1. SavingStep(b, "queued", "listed", finished \cup {b})
      BY <1>2 DEF List, Go, SavingStep
    <2> QED BY <1>2, <2>1, SavingMoves DEF List, Go
  <1>3. ASSUME NEW b \in Builds, Compile(b) PROVE Ledger!Next \/ Seen' = Seen
    <2>1. SavingStep(b, "running", "compiling", finished)
      BY <1>3 DEF Compile, Go, SavingStep
    <2> QED BY <1>3, <2>1, SavingMoves DEF Compile, Go
  <1>4. ASSUME NEW b \in Builds, NEW verdict \in {"success", "failure"}, Conclude(b, verdict)
        PROVE  Ledger!Next \/ Seen' = Seen
    <2>1. SavingStep(b, IF b \in cancelled THEN "cancelled" ELSE verdict, "recorded", finished)
      BY <1>4 DEF Conclude, Go, SavingStep, Final
    <2> QED BY <1>4, <2>1, SavingMoves DEF Conclude, Go
  <1>5. ASSUME NEW b \in Builds, NEW from, NEW to, Go(b, from, to), UNCHANGED list,
               from \in {"new", "made", "lost"} <=> to \in {"new", "made", "lost"}
        PROVE  Seen' = Seen
    <2>1. \A x \in Builds : pc'[x] \in {"new", "made", "lost"} <=> pc[x] \in {"new", "made", "lost"}
      BY <1>1, <1>5 DEF Go, TypeOK
    <2> QED BY <1>5, <2>1, Invisible DEF list
  <1>6. ASSUME NEW b \in Builds, (\E kind \in Kinds : Make(b, kind)) \/ Register(b) \/ Leave(b)
        PROVE  Seen' = Seen
    <2>1. UNCHANGED list
      BY <1>6 DEF Make, Register, Leave, list
    <2> QED BY <1>5, <1>6, <2>1 DEF Make, Register, Leave
  <1>7. UNCHANGED <<list, pc>> => Seen' = Seen
    BY Invisible DEF list
  <1>8. ASSUME NEW b \in Builds, Snapshot(b) \/ Poll(b) \/ Abort(b) \/ AbortReturns(b)
        PROVE  Seen' = Seen
    <2>1. UNCHANGED <<list, pc>>
      BY <1>8 DEF Snapshot, Poll, Abort, AbortReturns, work
    <2> QED BY <1>7, <2>1
  <1>9. ASSUME NEW c \in Cancellers, CancelReturns(c) \/ \E b \in Builds : Cancel(c, b)
        PROVE  Seen' = Seen
    <2>1. UNCHANGED <<list, pc>>
      BY <1>9 DEF Cancel, CancelReturns, work
    <2> QED BY <1>7, <2>1
  <1>10. CASE AgentExit
    <2>1. /\ finished' = finished
          /\ \A b \in finished : state'[b] = state[b]
      BY <1>1, <1>10, ExitLoads
    <2>2. \A x \in Builds : pc'[x] \in {"new", "made", "lost"} <=> pc[x] \in {"new", "made", "lost"}
      BY <1>10 DEF AgentExit
    <2> QED BY <2>1, <2>2, Invisible
  <1>11. CASE UNCHANGED vars
    <2>1. UNCHANGED <<list, pc>>
      BY <1>11 DEF vars, work
    <2> QED BY <1>7, <2>1
  <1> QED
    BY <1>2, <1>3, <1>4, <1>6, <1>8, <1>9, <1>10, <1>11 DEF Next, Start, Goroutine, Wait

(* The engine implements the ledger: for those who read the list, a build   *)
(* moves forward only and leaves the list only for want of room, whatever   *)
(* the requests, the goroutines and restarts do to each other.              *)
THEOREM Implements == Spec => ImplementsLedger
  <1>1. Init => Ledger!Init
    BY DEF Init, Ledger!Init, Visible
  <1>2. IndInv /\ IndInv' /\ [Next]_vars =>
          [Ledger!Next]_([b \in Builds |-> Visible(b)])
    BY StepMoves DEF Seen
  <1> QED BY <1>1, <1>2, Inductive, PTL DEF Spec, ImplementsLedger, Ledger!Spec
=============================================================================
