------------------------- MODULE OperationRegistry -------------------------
(***************************************************************************)
(* The idempotency registry of the HTTP API (internal/api): a handler of a *)
(* state-changing request (build, custom build, deploy, server start)      *)
(* claims its operation key, runs the side effect if it wins the claim,    *)
(* finishes the record and answers; a retry of the same request waits for  *)
(* the winner or replays its record.                                       *)
(*                                                                         *)
(* A record is named by the request that created it, so the map records    *)
(* goes from keys to requests and heap from requests to record contents.   *)
(* A handler that was given a record keeps using that record after it has  *)
(* left the map, as the pointer does in the code.                          *)
(***************************************************************************)
EXTENDS Integers, FiniteSets

CONSTANTS
    Requests,    \* HTTP requests, first attempts and retries alike
    Keys,        \* operation keys (scope, kind and a non-empty request id)
    NoId,        \* the key of a request without request id
    Payloads,    \* payload fingerprints
    MaxEntries,  \* capacity of the map
    TTL,         \* retention, in clock ticks
    MaxClock,    \* bound of the model: clock ticks
    MaxRestarts, \* bound of the model: restarts of the agent
    None

ASSUME RegistryConstants == /\ NoId \notin Keys
                            /\ IsFiniteSet(Keys)
                            /\ None \notin Requests
                            /\ MaxEntries \in Nat \ {0}
                            /\ TTL \in Nat
                            /\ MaxClock \in Nat
                            /\ MaxRestarts \in Nat

VARIABLES
    records,   \* the map: key -> record or None
    heap,      \* record -> payload, state, completion time
    pc,        \* new, executing, ran, waiting, woken, replaying, done
    key, payload,   \* what the request asks for
    holds,     \* the record the handler was given
    answer,    \* what the client was sent
    clock, restarts,
    ran,       \* history variable: requests whose side effect happened
    forgotten, \* history variable: records dropped from the map
    peak       \* history variable: most records executing at once

req == <<key, payload>>
vars == <<records, heap, pc, req, holds, answer, clock, restarts, ran, forgotten, peak>>

Finished == {"completed", "failed"}
Absent == [payload |-> None, state |-> "absent", at |-> 0]

-----------------------------------------------------------------------------
Present(m) == {k \in Keys : m[k] # None}
FinishedKeys == {k \in Present(records) : heap[records[k]].state \in Finished}
Without(m, drop) == [k \in Keys |-> IF k \in drop THEN None ELSE m[k]]
Executing(m) == {k \in Present(m) : heap[m[k]].state = "executing"}
Larger(a, b) == IF a < b THEN b ELSE a

(* The operators named ...Bug are plausible slips in the code that follows *)
(* them; the properties are checked to notice them.                        *)

(* Records finished at one clock tick tie for the oldest.                  *)
OldestOf(ks) == {k \in ks : \A j \in ks : heap[records[k]].at <= heap[records[j]].at}

(* BUG: the oldest record goes whether or not it is still executing.       *)
EvictAnyBug ==
    IF Cardinality(Present(records)) < MaxEntries THEN {{}}
    ELSE {{k} : k \in OldestOf(Present(records))}

(* BUG: only expired records are dropped, a full map of fresh ones grows.  *)
EvictExpiredBug ==
    IF Cardinality(Present(records)) < MaxEntries THEN {{}}
    ELSE {{k \in FinishedKeys : clock - heap[records[k]].at > TTL}}

(* evictExpiredLocked: the sets of keys it may drop.  Only a full map is   *)
(* swept; if the sweep of expired records does not make room, the oldest   *)
(* finished record goes too.  An executing record is never dropped.        *)
EvictChoices ==
    LET expired == {k \in FinishedKeys : clock - heap[records[k]].at > TTL}
        left    == FinishedKeys \ expired
    IN  IF Cardinality(Present(records)) < MaxEntries THEN {{}}
        ELSE IF Cardinality(Present(records) \ expired) < MaxEntries \/ left = {} THEN {expired}
        ELSE {expired \cup {k} : k \in OldestOf(left)}

Init ==
    /\ records = [k \in Keys |-> None]
    /\ heap = [r \in Requests |-> Absent]
    /\ pc = [r \in Requests |-> "new"]
    /\ key = [r \in Requests |-> NoId]
    /\ payload = [r \in Requests |-> None]
    /\ holds = [r \in Requests |-> None]
    /\ answer = [r \in Requests |-> "none"]
    /\ clock = 0
    /\ restarts = 0
    /\ ran = {}
    /\ forgotten = {}
    /\ peak = 0

-----------------------------------------------------------------------------
Arrive(r, k, h) ==
    /\ pc[r] = "new"
    /\ key' = [key EXCEPT ![r] = k]
    /\ payload' = [payload EXCEPT ![r] = h]

(* A request without id executes directly, its payload unread; its Finish  *)
(* does nothing.                                                           *)
ClaimUnkeyed(r) ==
    /\ Arrive(r, NoId, None)
    /\ pc' = [pc EXCEPT ![r] = "executing"]
    /\ UNCHANGED <<records, heap, holds, answer, clock, restarts, ran, forgotten, peak>>

(* BUG: a failed operation may be claimed again.                           *)
WinBug(r, k, h, m) ==
    /\ m[k] # None => heap[m[k]].state = "failed"
    /\ records' = [m EXCEPT ![k] = r]
    /\ heap' = [heap EXCEPT ![r] = [payload |-> h, state |-> "executing", at |-> 0]]
    /\ holds' = [holds EXCEPT ![r] = r]
    /\ pc' = [pc EXCEPT ![r] = "executing"]
    /\ peak' = Larger(peak, Cardinality(Executing(m)) + 1)
    /\ UNCHANGED answer

(* ClaimOrWait up to its unlock: evict, then one of four outcomes.         *)
Win(r, k, h, m) ==
    /\ m[k] = None
    /\ records' = [m EXCEPT ![k] = r]
    /\ heap' = [heap EXCEPT ![r] = [payload |-> h, state |-> "executing", at |-> 0]]
    /\ holds' = [holds EXCEPT ![r] = r]
    /\ pc' = [pc EXCEPT ![r] = "executing"]
    /\ peak' = Larger(peak, Cardinality(Executing(m)) + 1)
    /\ UNCHANGED answer

Conflict(r, k, h, m) ==
    /\ m[k] # None
    /\ heap[m[k]].payload # h
    /\ records' = m
    /\ answer' = [answer EXCEPT ![r] = "conflict"]
    /\ pc' = [pc EXCEPT ![r] = "done"]
    /\ UNCHANGED <<heap, holds, peak>>

Replay(r, k, h, m) ==
    /\ m[k] # None
    /\ heap[m[k]].payload = h
    /\ heap[m[k]].state \in Finished
    /\ records' = m
    /\ holds' = [holds EXCEPT ![r] = m[k]]
    /\ pc' = [pc EXCEPT ![r] = "replaying"]
    /\ UNCHANGED <<heap, answer, peak>>

Wait(r, k, h, m) ==
    /\ m[k] # None
    /\ heap[m[k]].payload = h
    /\ heap[m[k]].state = "executing"
    /\ records' = m
    /\ holds' = [holds EXCEPT ![r] = m[k]]
    /\ pc' = [pc EXCEPT ![r] = "waiting"]
    /\ UNCHANGED <<heap, answer, peak>>

Claim(r, k, h) ==
    /\ Arrive(r, k, h)
    /\ \E drop \in EvictChoices :
         LET m == Without(records, drop) IN
         /\ forgotten' = forgotten \cup {records[j] : j \in drop}
         /\ Win(r, k, h, m) \/ Conflict(r, k, h, m) \/ Replay(r, k, h, m) \/ Wait(r, k, h, m)
    /\ UNCHANGED <<clock, restarts, ran>>

(* ClaimOrWait after the unlock: done is closed and the waiter wakes, or   *)
(* its request context ends first.                                         *)
Wake(r) ==
    /\ pc[r] = "waiting"
    /\ heap[holds[r]].state \in Finished
    /\ pc' = [pc EXCEPT ![r] = "woken"]
    /\ UNCHANGED <<records, heap, req, holds, answer, clock, restarts, ran, forgotten, peak>>

Cancel(r) ==
    /\ pc[r] = "waiting"
    /\ pc' = [pc EXCEPT ![r] = "done"]
    /\ answer' = [answer EXCEPT ![r] = "dropped"]
    /\ UNCHANGED <<records, heap, req, holds, clock, restarts, ran, forgotten, peak>>

(* The woken waiter locks again and prefers the record now under its key.  *)
Reread(r) ==
    /\ pc[r] = "woken"
    /\ holds' = [holds EXCEPT ![r] = IF records[key[r]] # None THEN records[key[r]] ELSE @]
    /\ pc' = [pc EXCEPT ![r] = "replaying"]
    /\ UNCHANGED <<records, heap, req, answer, clock, restarts, ran, forgotten, peak>>

(* The handler's switch on the record it was given: any state but          *)
(* completed is answered as an error.                                      *)
AnswerReplay(r) ==
    /\ pc[r] = "replaying"
    /\ answer' = [answer EXCEPT ![r] =
                    IF heap[holds[r]].state = "completed" THEN "ok" ELSE "failed"]
    /\ pc' = [pc EXCEPT ![r] = "done"]
    /\ UNCHANGED <<records, heap, req, holds, clock, restarts, ran, forgotten, peak>>

(* The winner's side effect.                                               *)
Run(r) ==
    /\ pc[r] = "executing"
    /\ ran' = ran \cup {r}
    /\ pc' = [pc EXCEPT ![r] = "ran"]
    /\ UNCHANGED <<records, heap, req, holds, answer, clock, restarts, forgotten, peak>>

(* BUG: the record is filled in but its state is left executing.           *)
FinishSilentBug(r, result) ==
    /\ pc[r] = "ran" \/ (pc[r] = "executing" /\ result = "failed")
    /\ heap' = IF key[r] = NoId THEN heap ELSE [heap EXCEPT ![holds[r]].at = clock]
    /\ pc' = [pc EXCEPT ![r] = "done"]
    /\ answer' = [answer EXCEPT ![r] = "ok"]
    /\ UNCHANGED <<records, req, holds, clock, restarts, ran, forgotten, peak>>

(* Finish, then the answer.  An error path that rejects the request before *)
(* any side effect finishes as failed too.  Finish looks the record up by  *)
(* key and makes one if there is none.                                     *)
Finish(r, result) ==
    /\ pc[r] = "ran" \/ (pc[r] = "executing" /\ result = "failed")
    /\ LET rec == IF records[key[r]] # None THEN records[key[r]] ELSE r
           old == IF records[key[r]] # None THEN heap[rec] ELSE Absent
       IN  IF key[r] = NoId THEN UNCHANGED <<records, heap>>
           ELSE /\ records' = [records EXCEPT ![key[r]] = rec]
                /\ heap' = [heap EXCEPT ![rec] = [old EXCEPT !.state = result, !.at = clock]]
    /\ pc' = [pc EXCEPT ![r] = "done"]
    /\ answer' = [answer EXCEPT ![r] = IF result = "completed" THEN "ok" ELSE "failed"]
    /\ UNCHANGED <<req, holds, clock, restarts, ran, forgotten, peak>>

Tick ==
    /\ clock < MaxClock
    /\ clock' = clock + 1
    /\ UNCHANGED <<records, heap, pc, req, holds, answer, restarts, ran, forgotten, peak>>

(* The registry lives in memory: a restart of the agent drops it and every *)
(* request in flight.                                                      *)
AgentRestart ==
    /\ restarts < MaxRestarts
    /\ restarts' = restarts + 1
    /\ records' = [k \in Keys |-> None]
    /\ forgotten' = forgotten \cup {records[k] : k \in Present(records)}
    /\ answer' = [r \in Requests |-> IF pc[r] \in {"new", "done"} THEN answer[r] ELSE "dropped"]
    /\ pc' = [r \in Requests |-> IF pc[r] = "new" THEN "new" ELSE "done"]
    /\ UNCHANGED <<heap, req, holds, clock, ran, peak>>

-----------------------------------------------------------------------------
HandlerStep(r) ==
    \/ ClaimUnkeyed(r)
    \/ \E k \in Keys, h \in Payloads : Claim(r, k, h)
    \/ Wake(r) \/ Cancel(r) \/ Reread(r) \/ AnswerReplay(r)
    \/ Run(r)
    \/ \E result \in Finished : Finish(r, result)

Next == (\E r \in Requests : HandlerStep(r)) \/ Tick \/ AgentRestart

Spec == Init /\ [][Next]_vars

-----------------------------------------------------------------------------
(* PROPERTIES                                                              *)

Records == Requests \cup {None}

(* The shape of the map, of the records and of the handlers' local state.  *)
TypeOK ==
    /\ records \in [Keys -> Records]
    /\ heap \in [Requests -> [payload : Payloads \cup {None},
                              state : Finished \cup {"absent", "executing"},
                              at : 0..MaxClock]]
    /\ pc \in [Requests -> {"new", "executing", "ran", "waiting", "woken", "replaying", "done"}]
    /\ key \in [Requests -> Keys \cup {NoId}]
    /\ payload \in [Requests -> Payloads \cup {None}]
    /\ holds \in [Requests -> Records]
    /\ \A r \in Requests : pc[r] \in {"waiting", "woken", "replaying"} =>
          holds[r] # None /\ heap[holds[r]].state # "absent"
    /\ answer \in [Requests -> {"none", "ok", "failed", "conflict", "dropped"}]
    /\ clock \in 0..MaxClock
    /\ restarts \in 0..MaxRestarts
    /\ ran \subseteq Requests
    /\ forgotten \subseteq Requests
    /\ peak \in Nat

Working(r) == pc[r] \in {"executing", "ran"} /\ key[r] # NoId

(* Two handlers never work on one key at a time, whatever is evicted       *)
(* meanwhile (operation_registry.go, ClaimOrWait: first caller wins).      *)
OneWorkerPerKey ==
    \A r, q \in Requests : Working(r) /\ Working(q) /\ key[r] = key[q] => r = q

(* If the side effect of one key happened twice, the record of one of the  *)
(* two executions had been dropped: by eviction after it finished, or with *)
(* the whole map at a restart.  While a record is kept, no retry and no    *)
(* reuse of the id with another payload executes again.                    *)
OnceWhileKept ==
    \A r, q \in ran : r # q /\ key[r] = key[q] /\ key[r] # NoId
                      => r \in forgotten \/ q \in forgotten

(* A record leaves the map only when it is finished or the agent restarts, *)
(* so an executing winner always finds its own record at Finish.           *)
WorkerKeepsRecord == \A r \in Requests : Working(r) => records[key[r]] = r

(* The map never outgrows its capacity by more than concurrency forces:    *)
(* eviction makes room for each new record unless all are executing.       *)
MapBounded == Cardinality(Present(records)) <= Larger(MaxEntries, peak)

(* Nobody waits in vain: as long as a request waits, the record it waits   *)
(* for is finished, and done is closed, or a handler is at work that will  *)
(* finish that very record: no eviction comes between the two.             *)
WaiterIsServed ==
    \A r \in Requests : pc[r] = "waiting" =>
        \/ heap[holds[r]].state \in Finished
        \/ /\ Working(holds[r])
           /\ records[key[holds[r]]] = holds[r]
=============================================================================
