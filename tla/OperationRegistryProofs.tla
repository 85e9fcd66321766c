---------------------- MODULE OperationRegistryProofs ----------------------
(* Theorems about OperationRegistry, for every choice of its constants: the *)
(* type invariant, that a key has one worker at a time, that an operation   *)
(* runs once while its record is kept, that nobody waits in vain, and that  *)
(* the map stays within its capacity.                                       *)
EXTENDS OperationRegistry, FiniteSetTheorems, TLAPS

(* A request that has not arrived has left no trace.                        *)
Untouched ==
    \A r \in Requests : pc[r] = "new" =>
        /\ r \notin ran /\ r \notin forgotten /\ key[r] = NoId
        /\ \A k \in Keys : records[k] # r

(* The map holds real records, each under the key of the request that made  *)
(* it; the worker of a key is the one whose record is there.                *)
MapInv ==
    /\ \A k \in Keys : records[k] # None =>
          key[records[k]] = k /\ heap[records[k]].state # "absent"
    /\ \A r \in Requests : Working(r) => records[key[r]] = r /\ heap[r].state = "executing"

(* Whoever ran the side effect of a key is still in the map, or its record  *)
(* has been dropped.                                                        *)
RanIsKept ==
    \A r \in ran : key[r] # NoId => r \in forgotten \/ records[key[r]] = r

(* Only requests with an id ever wait.                                      *)
WaiterKey == \A r \in Requests : pc[r] \in {"waiting", "woken"} => key[r] \in Keys

IndInv == TypeOK /\ Untouched /\ MapInv /\ RanIsKept /\ WaiterKey

-----------------------------------------------------------------------------
(* Eviction touches finished records only.                                  *)
LEMMA EvictsFinished ==
    ASSUME NEW drop \in EvictChoices
    PROVE  drop \subseteq FinishedKeys
  BY DEF EvictChoices, OldestOf

(* Any set of keys has a size, so the map's fullness is decided.           *)
LEMMA CardinalityOfKeys ==
    ASSUME NEW S, S \subseteq Keys PROVE Cardinality(S) \in Nat
  BY RegistryConstants, FS_Subset, FS_CardinalityType

(* The empty registry satisfies the invariant.                             *)
LEMMA InitOK == Init => IndInv
  <1> SUFFICES ASSUME Init PROVE IndInv
    OBVIOUS
  <1>1. TypeOK
    BY RegistryConstants DEF Init, TypeOK, Records, Absent
  <1>2. Untouched /\ MapInv /\ RanIsKept /\ WaiterKey
    BY RegistryConstants DEF Init, Untouched, MapInv, RanIsKept, WaiterKey, Working
  <1> QED BY <1>1, <1>2 DEF IndInv

(* Dropping a set of finished keys keeps what the map promises.             *)
LEMMA DropOK ==
    ASSUME IndInv, NEW drop \in EvictChoices
    PROVE  LET m == Without(records, drop)
               f == forgotten \cup {records[j] : j \in drop}
           IN  /\ m \in [Keys -> Records]
               /\ f \subseteq Requests
               /\ \A k \in Keys : m[k] # None => m[k] = records[k]
               /\ \A r \in Requests : pc[r] = "new" => r \notin f /\ \A k \in Keys : m[k] # r
               /\ \A r \in Requests : Working(r) => m[key[r]] = r
               /\ \A r \in ran : key[r] # NoId => r \in f \/ m[key[r]] = r
  <1> DEFINE m == Without(records, drop)
             f == forgotten \cup {records[j] : j \in drop}
  <1>1. drop \subseteq FinishedKeys
    BY EvictsFinished
  <1>2. \A k \in drop : k \in Keys /\ records[k] \in Requests /\ heap[records[k]].state \in Finished
    BY <1>1 DEF FinishedKeys, Present, IndInv, TypeOK, Records
  <1>3. m \in [Keys -> Records] /\ f \subseteq Requests
        /\ \A k \in Keys : m[k] = IF k \in drop THEN None ELSE records[k]
    BY <1>2 DEF Without, IndInv, TypeOK, Records
  <1>4. \A r \in Requests : pc[r] = "new" => r \notin f /\ \A k \in Keys : m[k] # r
    BY <1>2, <1>3, RegistryConstants DEF IndInv, Untouched
  <1>5. \A r \in Requests : Working(r) => m[key[r]] = r
    BY <1>2, <1>3 DEF IndInv, MapInv, Working, Finished, TypeOK
  <1>6. \A r \in ran : key[r] # NoId => r \in f \/ m[key[r]] = r
    BY <1>2, <1>3 DEF IndInv, RanIsKept, TypeOK
  <1> QED BY <1>3, <1>4, <1>5, <1>6

(* A claim keeps the invariant, whichever of its four outcomes it has.     *)
LEMMA ClaimStep ==
    ASSUME IndInv, NEW r \in Requests, NEW k \in Keys, NEW h \in Payloads, Claim(r, k, h)
    PROVE  IndInv'
  <1>1. PICK drop \in EvictChoices :
          LET m == Without(records, drop) IN
          /\ forgotten' = forgotten \cup {records[j] : j \in drop}
          /\ Win(r, k, h, m) \/ Conflict(r, k, h, m) \/ Replay(r, k, h, m) \/ Wait(r, k, h, m)
    BY DEF Claim
  <1> DEFINE m == Without(records, drop)
             f == forgotten \cup {records[j] : j \in drop}
  <1>2. /\ m \in [Keys -> Records]
        /\ f \subseteq Requests
        /\ \A j \in Keys : m[j] # None => m[j] = records[j]
        /\ \A q \in Requests : pc[q] = "new" => q \notin f /\ \A j \in Keys : m[j] # q
        /\ \A q \in Requests : Working(q) => m[key[q]] = q
        /\ \A q \in ran : key[q] # NoId => q \in f \/ m[key[q]] = q
    BY DropOK
  <1>3. /\ forgotten' = f
        /\ Win(r, k, h, m) \/ Conflict(r, k, h, m) \/ Replay(r, k, h, m) \/ Wait(r, k, h, m)
    BY <1>1
  <1> HIDE DEF m, f
  <1>4. /\ pc[r] = "new"
        /\ key' = [key EXCEPT ![r] = k] /\ payload' = [payload EXCEPT ![r] = h]
        /\ UNCHANGED <<clock, restarts, ran>>
    BY DEF Claim, Arrive
  <1>5. r \notin ran /\ k # NoId /\ m[k] \in Records
    BY <1>2, <1>4, RegistryConstants DEF IndInv, Untouched
  <1>6. CASE Win(r, k, h, m)
    <2>1. /\ records' = [m EXCEPT ![k] = r]
          /\ heap' = [heap EXCEPT ![r] = [payload |-> h, state |-> "executing", at |-> 0]]
          /\ holds' = [holds EXCEPT ![r] = r]
          /\ pc' = [pc EXCEPT ![r] = "executing"]
          /\ answer' = answer /\ m[k] = None
          /\ peak' = Larger(peak, Cardinality(Executing(m)) + 1)
      BY <1>6 DEF Win
    <2>2. Executing(m) \subseteq Keys
      BY DEF Executing, Present
    <2>3. peak' \in Nat
      BY <2>1, <2>2, CardinalityOfKeys DEF Larger, IndInv, TypeOK
    <2>4. TypeOK'
      BY <1>2, <1>3, <1>4, <2>1, <2>3, RegistryConstants DEF IndInv, TypeOK, Records
    <2>5. Untouched'
      BY <1>2, <1>3, <1>4, <2>1 DEF IndInv, TypeOK, Untouched
    <2>6. /\ \A j \in Keys \ {k} : records'[j] = m[j]
          /\ records'[k] = r /\ key'[r] = k /\ heap'[r].state = "executing"
          /\ \A q \in Requests \ {r} : key'[q] = key[q] /\ pc'[q] = pc[q] /\ heap'[q] = heap[q]
      BY <1>2, <1>4, <2>1 DEF IndInv, TypeOK
    <2>7. \A q \in Requests \ {r} : Working(q)' = Working(q)
      BY <2>6 DEF Working
    <2>8. \A q \in Requests : Working(q) => key[q] # k
      BY <1>2, <2>1, RegistryConstants
    <2>9. MapInv'
      <3>1. \A j \in Keys : records'[j] # None =>
              key'[records'[j]] = j /\ heap'[records'[j]].state # "absent"
        <4> SUFFICES ASSUME NEW j \in Keys, records'[j] # None
                     PROVE  key'[records'[j]] = j /\ heap'[records'[j]].state # "absent"
          OBVIOUS
        <4>1. CASE j = k
          BY <4>1, <2>6
        <4>2. CASE j # k
          <5>1. records'[j] = records[j] /\ records[j] \in Requests /\ records[j] # r
            BY <4>2, <1>2, <1>4, <2>6 DEF IndInv, TypeOK, Records
          <5> QED BY <5>1, <2>6 DEF IndInv, MapInv
        <4> QED BY <4>1, <4>2
      <3>2. \A q \in Requests : Working(q)' => records'[key'[q]] = q /\ heap'[q].state = "executing"
        <4> SUFFICES ASSUME NEW q \in Requests, Working(q)'
                     PROVE  records'[key'[q]] = q /\ heap'[q].state = "executing"
          OBVIOUS
        <4>1. CASE q = r
          BY <4>1, <2>6
        <4>2. CASE q # r
          <5>1. Working(q) /\ key'[q] = key[q] /\ key[q] \in Keys /\ key[q] # k
            BY <4>2, <2>6, <2>7, <2>8 DEF Working, IndInv, TypeOK
          <5> QED BY <5>1, <4>2, <1>2, <2>6 DEF IndInv, MapInv
        <4> QED BY <4>1, <4>2
      <3> QED BY <3>1, <3>2 DEF MapInv
    <2>10. RanIsKept'
      <3> SUFFICES ASSUME NEW q \in ran, key'[q] # NoId
                   PROVE  q \in f \/ records'[key'[q]] = q
        BY <1>3, <1>4 DEF RanIsKept
      <3>1. q \in Requests /\ q # r
        BY <1>5 DEF IndInv, TypeOK
      <3>2. key'[q] = key[q] /\ key[q] \in Keys
        BY <3>1, <2>6 DEF IndInv, TypeOK
      <3>3. q \in f \/ m[key[q]] = q
        BY <1>2, <3>2
      <3>4. m[key[q]] = q => key[q] # k
        BY <2>1, <3>1, RegistryConstants
      <3> QED BY <3>2, <3>3, <3>4, <2>6
    <2>11. WaiterKey'
      BY <2>1, <2>6 DEF IndInv, TypeOK, WaiterKey
    <2> QED BY <2>4, <2>5, <2>9, <2>10, <2>11 DEF IndInv
  <1>7. CASE Conflict(r, k, h, m) \/ Replay(r, k, h, m) \/ Wait(r, k, h, m)
    <2>1. /\ records' = m /\ heap' = heap /\ peak' = peak /\ m[k] # None
          /\ \/ pc' = [pc EXCEPT ![r] = "done"] /\ answer' = [answer EXCEPT ![r] = "conflict"]
                /\ holds' = holds
             \/ /\ \/ pc' = [pc EXCEPT ![r] = "replaying"] \/ pc' = [pc EXCEPT ![r] = "waiting"]
                /\ answer' = answer /\ holds' = [holds EXCEPT ![r] = m[k]]
      BY <1>7 DEF Conflict, Replay, Wait
    <2>2. /\ pc' \in [Requests -> {"new", "executing", "ran", "waiting", "woken", "replaying", "done"}]
          /\ pc'[r] \in {"done", "replaying", "waiting"}
          /\ \A q \in Requests \ {r} : pc'[q] = pc[q] /\ key'[q] = key[q] /\ holds'[q] = holds[q]
          /\ key'[r] = k
          /\ holds' \in [Requests -> Records]
          /\ pc'[r] # "done" => holds'[r] = m[k]
          /\ answer' \in [Requests -> {"none", "ok", "failed", "conflict", "dropped"}]
      BY <2>1, <1>4, <1>5 DEF IndInv, TypeOK
    <2>3. m[k] = records[k] /\ heap[m[k]].state # "absent"
      BY <1>2, <2>1 DEF IndInv, MapInv
    <2>4. \A q \in Requests : pc'[q] \in {"waiting", "woken", "replaying"} =>
            holds'[q] # None /\ heap'[holds'[q]].state # "absent"
      BY <2>1, <2>2, <2>3 DEF IndInv, TypeOK
    <2>5. TypeOK'
      BY <1>2, <1>3, <1>4, <2>1, <2>2, <2>4 DEF IndInv, TypeOK
    <2>6. Untouched'
      BY <1>2, <1>3, <1>4, <2>1, <2>2 DEF IndInv, Untouched
    <2>7. \A q \in Requests : Working(q)' => Working(q) /\ q # r
      BY <2>2 DEF Working
    <2>8. MapInv'
      <3>1. \A j \in Keys : m[j] # None => m[j] \in Requests /\ m[j] # r
        BY <1>2, <1>4 DEF Records
      <3> QED BY <1>2, <2>1, <2>2, <2>7, <3>1 DEF IndInv, MapInv
    <2>9. RanIsKept'
      <3>1. \A q \in ran : q \in Requests /\ q # r
        BY <1>5 DEF IndInv, TypeOK
      <3> QED BY <1>2, <1>3, <1>4, <2>1, <2>2, <3>1 DEF RanIsKept
    <2>10. WaiterKey'
      BY <2>2 DEF IndInv, WaiterKey
    <2> QED BY <2>5, <2>6, <2>8, <2>9, <2>10 DEF IndInv
  <1> QED BY <1>3, <1>6, <1>7

(* A request without id touches no record.                                 *)
LEMMA UnkeyedStep ==
    ASSUME IndInv, NEW r \in Requests, ClaimUnkeyed(r)
    PROVE  IndInv'
  <1>1. /\ pc[r] = "new"
        /\ key' = [key EXCEPT ![r] = NoId] /\ payload' = [payload EXCEPT ![r] = None]
        /\ pc' = [pc EXCEPT ![r] = "executing"]
        /\ UNCHANGED <<records, heap, holds, answer, clock, restarts, ran, forgotten, peak>>
    BY DEF ClaimUnkeyed, Arrive
  <1>2. key' = key /\ \A q \in Requests \ {r} : pc'[q] = pc[q]
    BY <1>1 DEF IndInv, TypeOK, Untouched
  <1>3. pc'[r] = "executing" /\ key[r] = NoId
    BY <1>1 DEF IndInv, TypeOK, Untouched
  <1>4. TypeOK'
    BY <1>1, <1>2, <1>3 DEF IndInv, TypeOK
  <1>5. Untouched' /\ MapInv' /\ RanIsKept' /\ WaiterKey'
    BY <1>1, <1>2, <1>3 DEF IndInv, Untouched, MapInv, RanIsKept, WaiterKey, Working
  <1> QED BY <1>4, <1>5 DEF IndInv

(* The winner's Finish finds its own record: the map is left alone and only *)
(* the contents of the record change.                                       *)
LEMMA FinishStep ==
    ASSUME IndInv, NEW r \in Requests, NEW result \in Finished, Finish(r, result)
    PROVE  IndInv'
  <1>1. /\ pc[r] \in {"executing", "ran"}
        /\ pc' = [pc EXCEPT ![r] = "done"]
        /\ answer' = [answer EXCEPT ![r] = IF result = "completed" THEN "ok" ELSE "failed"]
        /\ UNCHANGED <<key, payload, holds, clock, restarts, ran, forgotten, peak>>
    BY DEF Finish, req
  <1>2. /\ records' = records
        /\ heap' = heap \/ heap' = [heap EXCEPT ![r] = [heap[r] EXCEPT !.state = result, !.at = clock]]
    <2>1. CASE key[r] = NoId
      BY <2>1 DEF Finish
    <2>2. CASE key[r] # NoId
      <3>1. records[key[r]] = r /\ r # None /\ key[r] \in Keys
        BY <1>1, <2>2, RegistryConstants DEF IndInv, MapInv, Working, TypeOK
      <3>2. /\ records' = [records EXCEPT ![key[r]] = r]
            /\ heap' = [heap EXCEPT ![r] = [heap[r] EXCEPT !.state = result, !.at = clock]]
        BY <2>2, <3>1 DEF Finish
      <3>3. records' = records
        BY <3>1, <3>2 DEF IndInv, TypeOK
      <3> QED BY <3>2, <3>3
    <2> QED BY <2>1, <2>2
  <1>3. /\ heap' \in [Requests -> [payload : Payloads \cup {None},
                                   state : Finished \cup {"absent", "executing"},
                                   at : 0..MaxClock]]
        /\ \A q \in Requests \ {r} : heap'[q] = heap[q] /\ pc'[q] = pc[q]
        /\ pc'[r] = "done"
        /\ heap[r].state # "absent" => heap'[r].state # "absent"
    <2>1. heap[r] \in [payload : Payloads \cup {None},
                       state : Finished \cup {"absent", "executing"}, at : 0..MaxClock]
          /\ clock \in 0..MaxClock
      BY DEF IndInv, TypeOK
    <2>2. CASE heap' = heap
      BY <1>1, <2>2 DEF IndInv, TypeOK
    <2>3. CASE heap' = [heap EXCEPT ![r] = [heap[r] EXCEPT !.state = result, !.at = clock]]
      <3>1. [heap[r] EXCEPT !.state = result, !.at = clock]
              \in [payload : Payloads \cup {None},
                   state : Finished \cup {"absent", "executing"}, at : 0..MaxClock]
        BY <2>1
      <3>2. heap'[r].state = result
        BY <2>1, <2>3, <3>1 DEF IndInv, TypeOK
      <3>3. result # "absent"
        BY DEF Finished
      <3> QED BY <1>1, <2>3, <3>1, <3>2, <3>3 DEF IndInv, TypeOK
    <2> QED BY <1>2, <2>2, <2>3
  <1>4. answer' \in [Requests -> {"none", "ok", "failed", "conflict", "dropped"}]
        /\ pc' \in [Requests -> {"new", "executing", "ran", "waiting", "woken", "replaying", "done"}]
    BY <1>1 DEF IndInv, TypeOK
  <1>5. \A q \in Requests : pc'[q] \in {"waiting", "woken", "replaying"} =>
          holds'[q] # None /\ heap'[holds'[q]].state # "absent"
    <2> SUFFICES ASSUME NEW q \in Requests, pc'[q] \in {"waiting", "woken", "replaying"}
                 PROVE  holds[q] # None /\ heap'[holds[q]].state # "absent"
      BY <1>1
    <2>1. q # r /\ pc'[q] = pc[q]
      BY <1>3
    <2>2. holds[q] \in Requests /\ heap[holds[q]].state # "absent" /\ holds[q] # None
      BY <2>1 DEF IndInv, TypeOK, Records
    <2> QED BY <2>2, <1>3
  <1>6. TypeOK'
    BY <1>1, <1>2, <1>3, <1>4, <1>5 DEF IndInv, TypeOK
  <1>7. Untouched' /\ RanIsKept' /\ WaiterKey'
    BY <1>1, <1>2, <1>3 DEF IndInv, Untouched, RanIsKept, WaiterKey
  <1>8. MapInv'
    <2>1. \A k \in Keys : records[k] # None => records[k] \in Requests
      BY DEF IndInv, TypeOK, Records
    <2>2. \A q \in Requests : Working(q)' => Working(q) /\ q # r
      BY <1>1, <1>3 DEF Working
    <2>3. \A k \in Keys : records'[k] # None =>
            key'[records'[k]] = k /\ heap'[records'[k]].state # "absent"
      BY <1>1, <1>2, <1>3, <2>1 DEF IndInv, MapInv
    <2>4. \A q \in Requests : Working(q)' => records'[key'[q]] = q /\ heap'[q].state = "executing"
      BY <1>1, <1>2, <1>3, <2>2 DEF IndInv, MapInv
    <2> QED BY <2>3, <2>4 DEF MapInv
  <1> QED BY <1>6, <1>7, <1>8 DEF IndInv

(* A restart forgets every record and ends every handler.                  *)
LEMMA RestartStep == ASSUME IndInv, AgentRestart PROVE IndInv'
  <1>1. /\ records' = [k \in Keys |-> None]
        /\ forgotten' = forgotten \cup {records[k] : k \in Present(records)}
        /\ pc' = [r \in Requests |-> IF pc[r] = "new" THEN "new" ELSE "done"]
        /\ answer' = [r \in Requests |-> IF pc[r] \in {"new", "done"} THEN answer[r] ELSE "dropped"]
        /\ restarts' = restarts + 1 /\ restarts < MaxRestarts
        /\ UNCHANGED <<heap, key, payload, holds, clock, ran, peak>>
    BY DEF AgentRestart, req
  <1>2. \A k \in Present(records) : k \in Keys /\ records[k] \in Requests /\ pc[records[k]] # "new"
    BY DEF Present, IndInv, TypeOK, Records, Untouched
  <1>3. TypeOK'
    BY <1>1, <1>2, RegistryConstants DEF IndInv, TypeOK, Records
  <1>4. Untouched'
    BY <1>1, <1>2, RegistryConstants DEF IndInv, Untouched
  <1>5. MapInv' /\ WaiterKey'
    BY <1>1 DEF MapInv, WaiterKey, Working
  <1>6. RanIsKept'
    <2> SUFFICES ASSUME NEW q \in ran, key[q] # NoId PROVE q \in forgotten'
      BY <1>1 DEF RanIsKept
    <2>1. q \in Requests /\ key[q] \in Keys /\ q # None
      BY RegistryConstants DEF IndInv, TypeOK
    <2>2. q \in forgotten \/ records[key[q]] = q
      BY DEF IndInv, RanIsKept
    <2> QED BY <1>1, <2>1, <2>2 DEF Present
  <1> QED BY <1>3, <1>4, <1>5, <1>6 DEF IndInv

(* Every step keeps the invariant.                                         *)
LEMMA Step == IndInv /\ [Next]_vars => IndInv'
  <1> SUFFICES ASSUME IndInv, [Next]_vars PROVE IndInv'
    OBVIOUS
  <1>1. ASSUME NEW r \in Requests, Wake(r) \/ Cancel(r) \/ AnswerReplay(r) PROVE IndInv'
    <2>1. /\ pc[r] \in {"waiting", "replaying"}
          /\ \/ pc' = [pc EXCEPT ![r] = "woken"] /\ pc[r] = "waiting" /\ answer' = answer
             \/ /\ pc' = [pc EXCEPT ![r] = "done"]
                /\ answer' \in [Requests -> {"none", "ok", "failed", "conflict", "dropped"}]
          /\ UNCHANGED <<records, heap, key, payload, holds, clock, restarts, ran, forgotten, peak>>
      BY <1>1 DEF Wake, Cancel, AnswerReplay, req, IndInv, TypeOK
    <2>2. pc'[r] \in {"woken", "done"} /\ (pc'[r] = "woken" => pc[r] = "waiting")
          /\ \A q \in Requests \ {r} : pc'[q] = pc[q]
      BY <2>1 DEF IndInv, TypeOK
    <2>3. TypeOK'
      BY <2>1, <2>2 DEF IndInv, TypeOK
    <2>4. Untouched' /\ MapInv' /\ RanIsKept' /\ WaiterKey'
      BY <2>1, <2>2 DEF IndInv, Untouched, MapInv, RanIsKept, WaiterKey, Working
    <2> QED BY <2>3, <2>4 DEF IndInv
  <1>2. ASSUME NEW r \in Requests, Reread(r) PROVE IndInv'
    <2>1. /\ pc[r] = "woken" /\ pc' = [pc EXCEPT ![r] = "replaying"]
          /\ holds' = [holds EXCEPT ![r] = IF records[key[r]] # None THEN records[key[r]] ELSE @]
          /\ UNCHANGED <<records, heap, key, payload, answer, clock, restarts, ran, forgotten, peak>>
      BY <1>2 DEF Reread, req
    <2>2. key[r] \in Keys
      BY <2>1 DEF IndInv, WaiterKey
    <2>3. /\ holds'[r] \in Requests /\ heap[holds'[r]].state # "absent" /\ holds'[r] # None
          /\ \A q \in Requests \ {r} : holds'[q] = holds[q] /\ pc'[q] = pc[q]
          /\ pc'[r] = "replaying"
      BY <2>1, <2>2, RegistryConstants DEF IndInv, TypeOK, Records, MapInv
    <2>4. TypeOK'
      BY <2>1, <2>3 DEF IndInv, TypeOK, Records
    <2>5. Untouched' /\ MapInv' /\ RanIsKept' /\ WaiterKey'
      BY <2>1, <2>3 DEF IndInv, Untouched, MapInv, RanIsKept, WaiterKey, Working
    <2> QED BY <2>4, <2>5, <2>1, <2>3 DEF IndInv
  <1>3. ASSUME NEW r \in Requests, Run(r) PROVE IndInv'
    <2>1. /\ pc[r] = "executing" /\ pc' = [pc EXCEPT ![r] = "ran"] /\ ran' = ran \cup {r}
          /\ UNCHANGED <<records, heap, key, payload, holds, answer, clock, restarts, forgotten, peak>>
      BY <1>3 DEF Run, req
    <2>2. pc'[r] = "ran" /\ \A q \in Requests \ {r} : pc'[q] = pc[q]
      BY <2>1 DEF IndInv, TypeOK
    <2>3. key[r] # NoId => records[key[r]] = r
      BY <2>1 DEF IndInv, MapInv, Working
    <2>4. TypeOK'
      BY <2>1, <2>2 DEF IndInv, TypeOK
    <2>5. Untouched' /\ MapInv' /\ RanIsKept' /\ WaiterKey'
      BY <2>1, <2>2, <2>3 DEF IndInv, Untouched, MapInv, RanIsKept, WaiterKey, Working
    <2> QED BY <2>4, <2>5 DEF IndInv
  <1>4. CASE Tick
    <2>1. /\ clock' = clock + 1 /\ clock < MaxClock
          /\ UNCHANGED <<records, heap, pc, key, payload, holds, answer, restarts, ran, forgotten, peak>>
      BY <1>4 DEF Tick, req
    <2>2. TypeOK'
      BY <2>1, RegistryConstants DEF IndInv, TypeOK
    <2>3. Untouched' /\ MapInv' /\ RanIsKept' /\ WaiterKey'
      BY <2>1 DEF IndInv, Untouched, MapInv, RanIsKept, WaiterKey, Working
    <2> QED BY <2>2, <2>3 DEF IndInv
  <1>5. CASE UNCHANGED vars
    <2>1. TypeOK'
      BY <1>5 DEF IndInv, TypeOK, vars, req
    <2>2. Untouched' /\ MapInv' /\ RanIsKept' /\ WaiterKey'
      BY <1>5 DEF IndInv, Untouched, MapInv, RanIsKept, WaiterKey, Working, vars, req
    <2> QED BY <2>1, <2>2 DEF IndInv
  <1> QED
    BY <1>1, <1>2, <1>3, <1>4, <1>5, ClaimStep, UnkeyedStep, FinishStep, RestartStep
    DEF Next, HandlerStep

(* The types hold in every reachable state.                                 *)
THEOREM TypeCorrect == Spec => []TypeOK
  <1>1. IndInv => TypeOK
    BY DEF IndInv
  <1> QED BY <1>1, InitOK, Step, PTL DEF Spec

(* Eviction never takes the record of a working handler, so each key has    *)
(* one worker: two requests at work on one key are the same request.        *)
THEOREM OneWorker == Spec => []OneWorkerPerKey
  <1>1. IndInv => OneWorkerPerKey
    BY DEF IndInv, MapInv, OneWorkerPerKey
  <1> QED BY <1>1, InitOK, Step, PTL DEF Spec

(* While its record is kept, an operation is executed once.                 *)
THEOREM Once == Spec => []OnceWhileKept
  <1>1. IndInv => OnceWhileKept
    <2> SUFFICES ASSUME IndInv, NEW r \in ran, NEW q \in ran, r # q, key[r] = key[q], key[r] # NoId
                 PROVE  r \in forgotten \/ q \in forgotten
      BY DEF OnceWhileKept
    <2> QED BY DEF IndInv, RanIsKept
  <1> QED BY <1>1, InitOK, Step, PTL DEF Spec

(* The winner finds its own record when it finishes, so Finish never has    *)
(* to make one.                                                             *)
THEOREM WorkerKeeps == Spec => []WorkerKeepsRecord
  <1>1. IndInv => WorkerKeepsRecord
    BY DEF IndInv, MapInv, WorkerKeepsRecord
  <1> QED BY <1>1, InitOK, Step, PTL DEF Spec
-----------------------------------------------------------------------------
(* What waiters rely on: a record in the map that is executing has its      *)
(* worker, and the record of a request that has not arrived is blank, so    *)
(* nobody waits for it.                                                     *)
ExecutingIsWorked ==
    \A k \in Keys : records[k] # None /\ heap[records[k]].state = "executing"
                    => Working(records[k])

NewIsBlank == \A r \in Requests : pc[r] = "new" => heap[r].state = "absent"

Served == WaiterIsServed /\ ExecutingIsWorked /\ NewIsBlank

(* Whom a waiter waits for has arrived, and works or has finished.          *)
LEMMA HeldRecord ==
    ASSUME IndInv, Served, NEW x \in Requests, pc[x] = "waiting"
    PROVE  /\ holds[x] \in Requests
           /\ pc[holds[x]] # "new"
           /\ heap[holds[x]].state \in Finished
              \/ (Working(holds[x]) /\ records[key[holds[x]]] = holds[x])
  <1>1. holds[x] \in Requests /\ heap[holds[x]].state # "absent"
    BY DEF IndInv, TypeOK, Records
  <1>2. pc[holds[x]] # "new"
    BY <1>1 DEF Served, NewIsBlank
  <1>3. \/ heap[holds[x]].state \in Finished
        \/ (Working(holds[x]) /\ records[key[holds[x]]] = holds[x])
    BY DEF Served, WaiterIsServed
  <1> QED BY <1>1, <1>2, <1>3 DEF Working

(* A claim drops no record somebody works on, and waits only for one that   *)
(* has a worker.                                                            *)
LEMMA ClaimServes ==
    ASSUME IndInv, Served, NEW r \in Requests, NEW k \in Keys, NEW h \in Payloads, Claim(r, k, h)
    PROVE  Served'
  <1>1. PICK drop \in EvictChoices :
          LET m == Without(records, drop) IN
             Win(r, k, h, m) \/ Conflict(r, k, h, m) \/ Replay(r, k, h, m) \/ Wait(r, k, h, m)
    BY DEF Claim
  <1> DEFINE m == Without(records, drop)
  <1>2. /\ m \in [Keys -> Records]
        /\ \A j \in Keys : m[j] # None => m[j] = records[j]
        /\ \A q \in Requests : Working(q) => m[key[q]] = q
    BY DropOK
  <1>3. Win(r, k, h, m) \/ Conflict(r, k, h, m) \/ Replay(r, k, h, m) \/ Wait(r, k, h, m)
    BY <1>1
  <1> HIDE DEF m
  <1>4. pc[r] = "new" /\ key' = [key EXCEPT ![r] = k]
    BY DEF Claim, Arrive
  <1>5. \A q \in Requests \ {r} : key'[q] = key[q]
    BY <1>4 DEF IndInv, TypeOK
  <1>6. \A q \in Requests : Working(q) => q # r /\ key[q] \in Keys
    BY <1>4 DEF Working, IndInv, TypeOK
  <1>7. CASE Win(r, k, h, m)
    <2>1. /\ records' = [m EXCEPT ![k] = r] /\ m[k] = None
          /\ heap' = [heap EXCEPT ![r] = [payload |-> h, state |-> "executing", at |-> 0]]
          /\ pc' = [pc EXCEPT ![r] = "executing"] /\ holds' = [holds EXCEPT ![r] = r]
      BY <1>7 DEF Win
    <2>2. /\ \A j \in Keys \ {k} : records'[j] = m[j]
          /\ records'[k] = r /\ key'[r] = k /\ pc'[r] = "executing"
          /\ \A q \in Requests \ {r} : pc'[q] = pc[q] /\ heap'[q] = heap[q] /\ holds'[q] = holds[q]
      BY <1>2, <1>4, <2>1 DEF IndInv, TypeOK
    <2>3. \A q \in Requests : Working(q) => Working(q)' /\ records'[key'[q]] = q
      BY <1>2, <1>5, <1>6, <2>1, <2>2, RegistryConstants DEF Working
    <2>4. WaiterIsServed'
      <3> SUFFICES ASSUME NEW x \in Requests, pc'[x] = "waiting"
                   PROVE  /\ holds'[x] = holds[x]
                          /\ \/ heap'[holds'[x]].state \in Finished
                             \/ /\ Working(holds[x])'
                                /\ records'[key'[holds[x]]] = holds[x]
        BY DEF WaiterIsServed, Working
      <3>1. x # r /\ pc[x] = "waiting" /\ holds'[x] = holds[x]
        BY <2>2
      <3>2. holds[x] \in Requests /\ holds[x] # r
        BY <3>1, <1>4, HeldRecord
      <3> QED BY <3>1, <3>2, <2>2, <2>3, HeldRecord
    <2>5. ExecutingIsWorked'
      <3> SUFFICES ASSUME NEW j \in Keys, NEW q, q = records'[j], q # None, heap'[q].state = "executing"
                   PROVE  Working(q)'
        BY DEF ExecutingIsWorked, Working
      <3>1. CASE j = k
        BY <3>1, <2>2, RegistryConstants DEF Working
      <3>2. CASE j # k
        <4>1. q = records[j] /\ q \in Requests /\ q # r
          BY <3>2, <1>2, <1>4, <2>2 DEF IndInv, TypeOK, Records, Untouched
        <4>2. Working(q)
          BY <4>1, <2>2 DEF Served, ExecutingIsWorked
        <4> QED BY <4>1, <4>2, <1>5, <2>2 DEF Working
      <3> QED BY <3>1, <3>2
    <2>6. NewIsBlank'
      BY <2>2 DEF Served, NewIsBlank
    <2> QED BY <2>4, <2>5, <2>6 DEF Served
  <1>8. CASE Conflict(r, k, h, m) \/ Replay(r, k, h, m) \/ Wait(r, k, h, m)
    <2>1. /\ records' = m /\ heap' = heap /\ m[k] # None
          /\ \/ /\ pc' = [pc EXCEPT ![r] = "done"] \/ pc' = [pc EXCEPT ![r] = "replaying"]
                /\ holds' = holds \/ holds' = [holds EXCEPT ![r] = m[k]]
             \/ /\ pc' = [pc EXCEPT ![r] = "waiting"] /\ heap[m[k]].state = "executing"
                /\ holds' = [holds EXCEPT ![r] = m[k]]
      BY <1>8 DEF Conflict, Replay, Wait
    <2>2. /\ \A q \in Requests \ {r} : pc'[q] = pc[q] /\ holds'[q] = holds[q]
          /\ pc'[r] # "new"
          /\ pc'[r] = "waiting" => holds'[r] = m[k] /\ heap[m[k]].state = "executing"
      BY <2>1 DEF IndInv, TypeOK
    <2>3. \A q \in Requests : Working(q) => Working(q)' /\ records'[key'[q]] = q
      BY <1>2, <1>5, <1>6, <2>1, <2>2 DEF Working
    <2>4. WaiterIsServed'
      <3> SUFFICES ASSUME NEW x \in Requests, pc'[x] = "waiting"
                   PROVE  heap[holds'[x]].state \in Finished
                          \/ \E q \in Requests : q = holds'[x] /\ Working(q)
        <4>1. \A q \in Requests : Working(q) => Working(q)' /\ records'[key'[q]] = q
          BY <2>3
        <4> QED BY <4>1, <2>1 DEF WaiterIsServed, Working
      <3>1. CASE x = r
        <4>1. holds'[x] = records[k] /\ records[k] # None /\ heap[records[k]].state = "executing"
          BY <3>1, <1>2, <2>1, <2>2
        <4>2. Working(records[k]) /\ records[k] \in Requests
          BY <4>1 DEF Served, ExecutingIsWorked, IndInv, TypeOK, Records
        <4> QED BY <4>1, <4>2
      <3>2. CASE x # r
        BY <3>2, <2>2, HeldRecord
      <3> QED BY <3>1, <3>2
    <2>5. ExecutingIsWorked'
      <3> SUFFICES ASSUME NEW j \in Keys, NEW q, q = records'[j], q # None, heap'[q].state = "executing"
                   PROVE  Working(q)'
        BY DEF ExecutingIsWorked, Working
      <3>1. q = records[j] /\ q \in Requests /\ q # r
        BY <1>2, <1>4, <2>1 DEF IndInv, TypeOK, Records, Untouched
      <3>2. Working(q)
        BY <3>1, <2>1 DEF Served, ExecutingIsWorked
      <3> QED BY <3>1, <3>2, <1>5, <2>2 DEF Working
    <2>6. NewIsBlank'
      BY <2>1, <2>2 DEF Served, NewIsBlank
    <2> QED BY <2>4, <2>5, <2>6 DEF Served
  <1> QED BY <1>3, <1>7, <1>8

(* A finished record serves its waiters, and nobody else's record changes.  *)
LEMMA FinishServes ==
    ASSUME IndInv, Served, NEW r \in Requests, NEW result \in Finished, Finish(r, result)
    PROVE  Served'
  <1>1. /\ pc[r] \in {"executing", "ran"}
        /\ pc' = [pc EXCEPT ![r] = "done"]
        /\ UNCHANGED <<key, holds>>
    BY DEF Finish, req
  <1>2. /\ records' = records
        /\ \/ key[r] = NoId /\ heap' = heap
           \/ Working(r) /\ heap' = [heap EXCEPT ![r] = [heap[r] EXCEPT !.state = result, !.at = clock]]
    <2>1. CASE key[r] = NoId
      BY <2>1 DEF Finish
    <2>2. CASE key[r] # NoId
      <3>1. Working(r) /\ records[key[r]] = r /\ r # None /\ key[r] \in Keys
        BY <1>1, <2>2, RegistryConstants DEF IndInv, MapInv, Working, TypeOK
      <3>2. /\ records' = [records EXCEPT ![key[r]] = r]
            /\ heap' = [heap EXCEPT ![r] = [heap[r] EXCEPT !.state = result, !.at = clock]]
        BY <2>2, <3>1 DEF Finish
      <3>3. records' = records
        BY <3>1, <3>2 DEF IndInv, TypeOK
      <3> QED BY <3>1, <3>2, <3>3
    <2> QED BY <2>1, <2>2
  <1>3. /\ \A q \in Requests \ {r} : heap'[q] = heap[q] /\ pc'[q] = pc[q]
        /\ pc'[r] = "done"
        /\ Working(r) => heap'[r].state = result
        /\ ~Working(r) => heap' = heap
    <2> DEFINE rec == [heap[r] EXCEPT !.state = result, !.at = clock]
    <2>1. rec.state = result
      <3>1. heap[r] \in [payload : Payloads \cup {None},
                         state : Finished \cup {"absent", "executing"}, at : 0..MaxClock]
        BY DEF IndInv, TypeOK
      <3> QED BY <3>1
    <2>2. (heap' = heap /\ key[r] = NoId) \/ (Working(r) /\ heap' = [heap EXCEPT ![r] = rec])
      BY <1>2
    <2> HIDE DEF rec
    <2> QED BY <1>1, <2>1, <2>2 DEF IndInv, TypeOK, Working
  <1>4. \A q \in Requests \ {r} : Working(q) => Working(q)'
    BY <1>1, <1>3 DEF Working
  <1>5. WaiterIsServed'
    <2> SUFFICES ASSUME NEW x \in Requests, pc[x] = "waiting", NEW q, q = holds[x]
                 PROVE  heap'[q].state \in Finished \/ (Working(q)' /\ records[key[q]] = q)
      BY <1>1, <1>2, <1>3 DEF WaiterIsServed, Working
    <2>1. q \in Requests /\ (heap[q].state \in Finished \/ (Working(q) /\ records[key[q]] = q))
      BY HeldRecord
    <2> QED BY <2>1, <1>3, <1>4
  <1>6. ExecutingIsWorked'
    <2> SUFFICES ASSUME NEW k \in Keys, NEW q, q = records[k], q # None, heap'[q].state = "executing"
                 PROVE  Working(q)'
      BY <1>2 DEF ExecutingIsWorked, Working
    <2>1. q \in Requests /\ key[q] = k /\ k # NoId
      BY RegistryConstants DEF IndInv, TypeOK, Records, MapInv
    <2>2. q # r
      BY <2>1, <1>1, <1>3 DEF Working, Finished
    <2> QED BY <2>1, <2>2, <1>3, <1>4 DEF Served, ExecutingIsWorked
  <1>7. NewIsBlank'
    BY <1>1, <1>3 DEF Served, NewIsBlank
  <1> QED BY <1>5, <1>6, <1>7 DEF Served

(* A step of a handler that is not at work, or goes on working, and leaves  *)
(* map and records alone, serves the waiters as before.                     *)
LEMMA QuietServes ==
    ASSUME IndInv, Served, NEW r \in Requests, UNCHANGED <<records, heap, key>>,
           \A q \in Requests \ {r} : pc'[q] = pc[q] /\ holds'[q] = holds[q],
           pc'[r] \notin {"new", "waiting"}, Working(r) => Working(r)'
    PROVE  Served'
  <1>1. \A q \in Requests : Working(q) => Working(q)'
    BY DEF Working
  <1>2. WaiterIsServed'
    <2> SUFFICES ASSUME NEW x \in Requests, x # r, pc[x] = "waiting", NEW q, q = holds[x]
                 PROVE  heap[q].state \in Finished \/ (Working(q)' /\ records[key[q]] = q)
      BY DEF WaiterIsServed, Working
    <2> QED BY <1>1, HeldRecord
  <1>3. ExecutingIsWorked'
    <2> SUFFICES ASSUME NEW k \in Keys, NEW q, q = records[k], q # None, heap[q].state = "executing"
                 PROVE  Working(q)'
      BY DEF ExecutingIsWorked, Working
    <2> QED BY <1>1 DEF Served, ExecutingIsWorked, IndInv, TypeOK, Records
  <1>4. NewIsBlank'
    BY DEF Served, NewIsBlank
  <1> QED BY <1>2, <1>3, <1>4 DEF Served

(* Every step serves the waiters.                                          *)
LEMMA StepServes == IndInv /\ Served /\ [Next]_vars => Served'
  <1> SUFFICES ASSUME IndInv, Served, [Next]_vars PROVE Served'
    OBVIOUS
  <1>1. ASSUME NEW r \in Requests, ClaimUnkeyed(r) PROVE Served'
    <2>1. /\ pc[r] = "new" /\ key[r] = NoId
          /\ pc' = [pc EXCEPT ![r] = "executing"] /\ key' = [key EXCEPT ![r] = NoId]
          /\ UNCHANGED <<records, heap, holds>>
      BY <1>1 DEF ClaimUnkeyed, Arrive, IndInv, Untouched
    <2>2. key' = key /\ pc'[r] = "executing" /\ \A q \in Requests \ {r} : pc'[q] = pc[q]
      BY <2>1 DEF IndInv, TypeOK
    <2>3. ~Working(r)
      BY <2>1 DEF Working
    <2> QED BY <2>1, <2>2, <2>3, QuietServes
  <1>2. ASSUME NEW r \in Requests, Wake(r) \/ Cancel(r) \/ Reread(r) \/ AnswerReplay(r) PROVE Served'
    <2>1. /\ pc[r] \in {"waiting", "woken", "replaying"}
          /\ \E next \in {"woken", "done", "replaying"} : pc' = [pc EXCEPT ![r] = next]
          /\ UNCHANGED <<records, heap, key>>
          /\ \A q \in Requests \ {r} : holds'[q] = holds[q]
      BY <1>2 DEF Wake, Cancel, Reread, AnswerReplay, req, IndInv, TypeOK
    <2>2. pc'[r] \notin {"new", "waiting"} /\ \A q \in Requests \ {r} : pc'[q] = pc[q]
      BY <2>1 DEF IndInv, TypeOK
    <2>3. ~Working(r)
      BY <2>1 DEF Working
    <2> QED BY <2>1, <2>2, <2>3, QuietServes
  <1>3. ASSUME NEW r \in Requests, Run(r) PROVE Served'
    <2>1. /\ pc[r] = "executing" /\ pc' = [pc EXCEPT ![r] = "ran"]
          /\ UNCHANGED <<records, heap, key, holds>>
      BY <1>3 DEF Run, req
    <2>2. pc'[r] = "ran" /\ \A q \in Requests \ {r} : pc'[q] = pc[q]
      BY <2>1 DEF IndInv, TypeOK
    <2>3. Working(r) => Working(r)'
      BY <2>1, <2>2 DEF Working
    <2> QED BY <2>1, <2>2, <2>3, QuietServes
  <1>4. CASE AgentRestart
    <2>1. /\ records' = [k \in Keys |-> None] /\ heap' = heap
          /\ pc' = [r \in Requests |-> IF pc[r] = "new" THEN "new" ELSE "done"]
      BY <1>4 DEF AgentRestart
    <2> QED BY <2>1 DEF Served, WaiterIsServed, ExecutingIsWorked, NewIsBlank
  <1>5. CASE Tick \/ UNCHANGED vars
    <2>1. UNCHANGED <<records, heap, pc, key, holds>>
      BY <1>5 DEF Tick, vars, req
    <2> QED BY <2>1 DEF Served, WaiterIsServed, ExecutingIsWorked, NewIsBlank, Working
  <1> QED
    BY <1>1, <1>2, <1>3, <1>4, <1>5, ClaimServes, FinishServes DEF Next, HandlerStep

(* Nobody waits in vain, for any number of requests and keys and any        *)
(* capacity: whom a request waits for has finished or will.                 *)
THEOREM NobodyWaitsInVain == Spec => []WaiterIsServed
  <1>1. Init => Served
    BY DEF Init, Served, WaiterIsServed, ExecutingIsWorked, NewIsBlank, Absent
  <1>2. Served => WaiterIsServed
    BY DEF Served
  <1> QED BY <1>1, <1>2, InitOK, Step, StepServes, PTL DEF Spec

-----------------------------------------------------------------------------
(* Finish finds the worker's own record under its key: the map it writes    *)
(* back is the map it read.                                                 *)
LEMMA FinishKeepsMap ==
    ASSUME IndInv, NEW r \in Requests, NEW result, Finish(r, result)
    PROVE  records' = records
  <1>1. pc[r] \in {"executing", "ran"}
    BY DEF Finish
  <1>2. CASE key[r] = NoId
    BY <1>2 DEF Finish
  <1>3. CASE key[r] # NoId
    <2>1. records[key[r]] = r /\ r # None
      BY <1>1, <1>3, RegistryConstants DEF IndInv, MapInv, Working
    <2>2. records' = [records EXCEPT ![key[r]] = r]
      BY <1>3, <2>1 DEF Finish
    <2> QED BY <2>1, <2>2 DEF IndInv, TypeOK
  <1> QED BY <1>2, <1>3

(* Eviction makes room for one more record, unless every record left is     *)
(* executing; it never leaves more than there were.                         *)
LEMMA EvictionMakesRoom ==
    ASSUME IndInv, MapBounded, NEW drop \in EvictChoices
    PROVE  LET m == Without(records, drop) IN
           /\ Present(m) \subseteq Present(records)
           /\ \/ Cardinality(Present(m)) + 1 <= Larger(MaxEntries, peak)
              \/ Present(m) = Executing(m)
  <1> DEFINE m == Without(records, drop)
             expired == {k \in FinishedKeys : clock - heap[records[k]].at > TTL}
             left == FinishedKeys \ expired
  <1>1. Present(m) = Present(records) \ drop
    BY DEF Present, Without
  <1>2. /\ IsFiniteSet(Present(records)) /\ Cardinality(Present(records)) \in Nat
        /\ Cardinality(Present(records) \ drop) \in Nat
    <2>1. Present(records) \subseteq Keys /\ Present(records) \ drop \subseteq Keys
      BY DEF Present
    <2> QED BY <2>1, CardinalityOfKeys, RegistryConstants, FS_Subset
  <1>3. /\ MaxEntries \in Nat /\ peak \in Nat
        /\ MaxEntries <= Larger(MaxEntries, peak) /\ Larger(MaxEntries, peak) \in Nat
    BY RegistryConstants DEF IndInv, TypeOK, Larger
  <1>4. CASE Cardinality(Present(records)) < MaxEntries
    <2>1. drop = {}
      BY <1>4 DEF EvictChoices
    <2>2. Present(m) = Present(records)
      BY <1>1, <2>1
    <2> HIDE DEF m
    <2> QED BY <2>2, <1>2, <1>3, <1>4 DEF m
  <1>5. CASE /\ ~(Cardinality(Present(records)) < MaxEntries)
             /\ Cardinality(Present(records) \ expired) < MaxEntries \/ left = {}
    <2>1. drop = expired
      BY <1>5 DEF EvictChoices
    <2>2. CASE Cardinality(Present(records) \ expired) < MaxEntries
      <3>1. Cardinality(Present(m)) < MaxEntries /\ Cardinality(Present(m)) \in Nat
        BY <1>1, <1>2, <2>1, <2>2
      <3>2. Cardinality(Present(m)) + 1 <= Larger(MaxEntries, peak)
        <4> HIDE DEF m
        <4> QED BY <3>1, <1>3
      <3> QED BY <3>2, <1>1
    <2>3. CASE left = {}
      <3>1. ASSUME NEW k \in Present(m) PROVE heap[m[k]].state = "executing"
        <4>1. k \in Keys /\ k \in Present(records) /\ k \notin drop /\ m[k] = records[k]
          BY <1>1, <3>1 DEF Present, Without
        <4>2. k \notin FinishedKeys
          BY <4>1, <2>1, <2>3
        <4>3. heap[records[k]].state \notin Finished
          BY <4>1, <4>2 DEF FinishedKeys
        <4>4. records[k] \in Requests /\ heap[records[k]].state # "absent"
          BY <4>1 DEF Present, IndInv, TypeOK, Records, MapInv
        <4>5. heap[records[k]].state \in Finished \cup {"absent", "executing"}
          BY <4>4 DEF IndInv, TypeOK
        <4> QED BY <4>1, <4>3, <4>4, <4>5
      <3>2. Present(m) = Executing(m)
        <4> HIDE DEF m
        <4> QED BY <3>1 DEF Executing
      <3> QED BY <3>2, <1>1
    <2> QED BY <1>5, <2>2, <2>3
  <1>6. CASE /\ ~(Cardinality(Present(records)) < MaxEntries)
             /\ ~(Cardinality(Present(records) \ expired) < MaxEntries \/ left = {})
    <2>1. PICK k \in OldestOf(left) : drop = expired \cup {k}
      BY <1>6 DEF EvictChoices
    <2>2. k \in Present(records) /\ k \in drop
      BY <2>1 DEF OldestOf, FinishedKeys
    <2>3. Present(m) \subseteq Present(records) \ {k}
      BY <1>1, <2>2
    <2>4. /\ IsFiniteSet(Present(records) \ {k})
          /\ Cardinality(Present(records) \ {k}) = Cardinality(Present(records)) - 1
      BY <1>2, <2>2, FS_RemoveElement
    <2>5. Cardinality(Present(m)) <= Cardinality(Present(records)) - 1
      BY <2>3, <2>4, FS_Subset
    <2>6. Cardinality(Present(m)) \in Nat
      BY <1>1, <1>2
    <2>7. Cardinality(Present(m)) + 1 <= Larger(MaxEntries, peak)
      <3> DEFINE a == Cardinality(Present(m))
                 b == Cardinality(Present(records))
                 c == Larger(MaxEntries, peak)
      <3>1. a \in Nat /\ b \in Nat /\ c \in Nat /\ a <= b - 1 /\ b <= c
        BY <1>2, <1>3, <2>5, <2>6 DEF MapBounded
      <3> HIDE DEF a, b, c, m
      <3>2. a + 1 <= c
        BY <3>1
      <3> QED BY <3>2 DEF a, c
    <2> QED BY <2>7, <1>1
  <1> QED BY <1>4, <1>5, <1>6

(* A claim keeps the bound: what it adds, eviction made room for, or it     *)
(* counts in the peak.                                                      *)
LEMMA ClaimBounded ==
    ASSUME IndInv, MapBounded, NEW r \in Requests, NEW k \in Keys, NEW h \in Payloads,
           Claim(r, k, h)
    PROVE  MapBounded'
  <1>1. PICK drop \in EvictChoices :
          LET m == Without(records, drop) IN
          Win(r, k, h, m) \/ Conflict(r, k, h, m) \/ Replay(r, k, h, m) \/ Wait(r, k, h, m)
    BY DEF Claim
  <1> DEFINE m == Without(records, drop)
             n == Cardinality(Present(m))
             c == Larger(MaxEntries, peak)
  <1>2. /\ Present(m) \subseteq Present(records)
        /\ n + 1 <= c \/ Present(m) = Executing(m)
    BY EvictionMakesRoom
  <1>3. Win(r, k, h, m) \/ Conflict(r, k, h, m) \/ Replay(r, k, h, m) \/ Wait(r, k, h, m)
    BY <1>1
  <1>4. m \in [Keys -> Records]
    BY DropOK
  <1> HIDE DEF m
  <1>5. /\ Present(m) \subseteq Keys /\ Present(records) \subseteq Keys
        /\ IsFiniteSet(Present(m)) /\ IsFiniteSet(Present(records))
    <2>1. Present(m) \subseteq Keys /\ Present(records) \subseteq Keys
      BY DEF Present
    <2> QED BY <2>1, RegistryConstants, FS_Subset
  <1>6. n \in Nat /\ Cardinality(Present(records)) \in Nat /\ c \in Nat
        /\ n <= Cardinality(Present(records)) /\ MaxEntries \in Nat /\ peak \in Nat
    BY <1>2, <1>5, FS_Subset, CardinalityOfKeys, RegistryConstants DEF IndInv, TypeOK, Larger
  <1>7. CASE Win(r, k, h, m)
    <2>1. m[k] = None /\ records' = [m EXCEPT ![k] = r]
          /\ peak' = Larger(peak, Cardinality(Executing(m)) + 1)
      BY <1>7 DEF Win
    <2>2. Present(records') = Present(m) \cup {k} /\ k \notin Present(m)
      BY <1>4, <2>1, RegistryConstants DEF Present
    <2>3. Cardinality(Present(records')) = n + 1
      BY <2>2, <1>5, FS_AddElement
    <2>4. Cardinality(Executing(m)) \in Nat
      <3>1. Executing(m) \subseteq Keys
        BY DEF Executing, Present
      <3> QED BY <3>1, CardinalityOfKeys
    <2>5. n + 1 <= c \/ n = Cardinality(Executing(m))
      BY <1>2
    <2> DEFINE x == Cardinality(Executing(m))
    <2> HIDE DEF n, c, x
    <2>6. n + 1 <= Larger(MaxEntries, peak')
      <3>1. peak' = Larger(peak, x + 1) /\ x \in Nat
        BY <2>1, <2>4 DEF x
      <3>2. CASE n + 1 <= c
        BY <3>1, <3>2, <1>6 DEF Larger, c
      <3>3. CASE n = x
        BY <3>1, <3>3, <1>6 DEF Larger
      <3> QED BY <2>5, <3>2, <3>3 DEF x
    <2> QED BY <2>3, <2>6 DEF MapBounded, Present
  <1>8. CASE Conflict(r, k, h, m) \/ Replay(r, k, h, m) \/ Wait(r, k, h, m)
    <2>1. records' = m /\ peak' = peak
      BY <1>8 DEF Conflict, Replay, Wait
    <2>2. n <= Larger(MaxEntries, peak)
      <3> DEFINE b == Cardinality(Present(records))
      <3>1. n <= b /\ b <= c /\ b \in Nat
        BY <1>6 DEF MapBounded
      <3> HIDE DEF n, b, c
      <3>2. n <= c
        BY <3>1, <1>6
      <3> QED BY <3>2 DEF c
    <2> QED BY <2>1, <2>2 DEF MapBounded, Present
  <1> QED BY <1>3, <1>7, <1>8

(* The map outgrows its capacity only by records that were all executing at *)
(* once, for every capacity: eviction makes room for each new record or     *)
(* nothing could be evicted.                                                *)
THEOREM MapStaysBounded == Spec => []MapBounded
  <1>1. Init => MapBounded
    <2> SUFFICES ASSUME Init PROVE MapBounded
      OBVIOUS
    <2>1. Present(records) = {}
      BY DEF Init, Present
    <2>2. Cardinality(Present(records)) = 0
      BY <2>1, FS_EmptySet
    <2> QED BY <2>2, RegistryConstants DEF Init, MapBounded, Larger
  <1>2. IndInv /\ MapBounded /\ [Next]_vars => MapBounded'
    <2> SUFFICES ASSUME IndInv, MapBounded, [Next]_vars PROVE MapBounded'
      OBVIOUS
    <2>1. ASSUME UNCHANGED <<records, peak>> PROVE MapBounded'
      BY <2>1 DEF MapBounded, Present
    <2>2. ASSUME NEW r \in Requests, NEW result \in Finished, Finish(r, result) PROVE MapBounded'
      BY <2>1, <2>2, FinishKeepsMap DEF Finish
    <2>3. ASSUME NEW r \in Requests,
                 \/ ClaimUnkeyed(r) \/ Wake(r) \/ Cancel(r) \/ Reread(r) \/ AnswerReplay(r) \/ Run(r)
          PROVE  MapBounded'
      BY <2>1, <2>3 DEF ClaimUnkeyed, Wake, Cancel, Reread, AnswerReplay, Run
    <2>4. CASE AgentRestart
      <3>1. records' = [k \in Keys |-> None] /\ peak' = peak
        BY <2>4 DEF AgentRestart
      <3>2. Present(records') = {}
        BY <3>1 DEF Present
      <3>3. Cardinality(Present(records')) = 0
        BY <3>2, FS_EmptySet
      <3> QED BY <3>1, <3>3, RegistryConstants DEF MapBounded, Larger, IndInv, TypeOK, Present
    <2>5. CASE Tick \/ UNCHANGED vars
      BY <2>1, <2>5 DEF Tick, vars
    <2> QED BY <2>2, <2>3, <2>4, <2>5, ClaimBounded DEF Next, HandlerStep
  <1> QED BY <1>1, <1>2, InitOK, Step, PTL DEF Spec
=============================================================================
