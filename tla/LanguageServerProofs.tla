------------------------ MODULE LanguageServerProofs ------------------------
(* Theorems about LanguageServer, for any projects, limits and numbers of   *)
(* changes, crashes and failures: the types, that no server runs unseen,    *)
(* and that a start is skipped for the right server only.                   *)
EXTENDS LanguageServer, TLAPS

(* Where the one call of the transition chain may be: on its way to the    *)
(* backend, or answered and on its way back.                               *)
Asked == {i \in DOMAIN toBackend : toBackend[i].by = "chain"}
Answered == {i \in DOMAIN toBrowser : toBrowser[i].to = "chain"}

(* Nothing is current once the workspace is closed.                        *)
Current ==
    prep # "no" \/ timer # None \/ (\E i \in DOMAIN chain : chain[i].current)
        => desired \in Projects

(* Who may ask for what.                                                   *)
Askers ==
    \A i \in DOMAIN toBackend :
        /\ toBackend[i].call = "start" => toBackend[i].by = "chain" /\ toBackend[i].key \in Projects
        /\ toBackend[i].call = "stop" => toBackend[i].by \in {"chain", "close"}

(* The chain awaits one call at a time, and it is the one under way.       *)
OneCall ==
    /\ step # "idle" => chain # <<>>
    /\ \A i \in Asked : toBackend[i].call = step /\ Asked = {i}
    /\ \A i \in Answered : toBrowser[i].kind = step /\ Answered = {i}
    /\ Asked = {} \/ Answered = {}
    /\ starting.stage # "no" => step = "start" /\ starting.key \in Projects
    /\ "chain" \in waiters => step = "stop"
    /\ starting.stage # "no" \/ "chain" \in waiters => Asked = {} /\ Answered = {}

(* The manager: it has a living child exactly in the states that say so,   *)
(* a stop in progress is of that child, and a start in progress has it or  *)
(* is still free to spawn it.                                              *)
Managed ==
    /\ process # NoProcess <=> state \in Up \cup {"stopping"}
    /\ process # NoProcess => Alive(process)
    /\ state = "stopping" => stopping # AtRest
    /\ stopping # AtRest => /\ stopping.child \in Children
                            /\ process \in {NoProcess, stopping.child}
    /\ starting.stage = "resolving" => process = NoProcess /\ stopping = AtRest
    /\ starting.stage = "initializing" => process # NoProcess /\ starting.child = process
    /\ stopping.phase \in {"term", "kill"} => child[stopping.child].fate # "running"

(* Which project the running server is for: the one the operation in       *)
(* progress asked for, or else the one the lifecycle remembers.            *)
Remembered ==
    state \in Up =>
        IF step = "start" THEN child[process].key = Head(chain).key
        ELSE lastKey \in {None, child[process].key}

(* What the calls and answers under way say about it.                      *)
Truthful ==
    /\ \A i \in Asked : toBackend[i].call = "start" =>
          toBackend[i].key = Head(chain).key /\ state \notin Up
    /\ starting.stage # "no" => starting.key = Head(chain).key
    /\ starting.stage \in {"inspecting", "resolving"} => state \notin Up
    /\ starting.stage = "initializing" => child[process].key = starting.key
    /\ \A i \in Answered :
          \/ toBrowser[i].kind = "state" /\ toBrowser[i].value \in Up
          \/ toBrowser[i].kind = "start" /\ toBrowser[i].value = "ok"
          \/ state \notin Up

IndInv ==
    TypeOK /\ Current /\ Askers /\ OneCall /\ Managed /\ NoOrphan /\ Remembered /\ Truthful

-----------------------------------------------------------------------------
(* Calls and answers                                                       *)

(* At most one of the messages is for the chain, and it is r; or none is.  *)
Carries(m, r) ==
    /\ m \in Seq(Messages)
    /\ \A i \in DOMAIN m : m[i].to = "chain" =>
          m[i] = r /\ \A j \in DOMAIN m : m[j].to = "chain" => i = j
Silent(m) ==
    /\ m \in Seq(Messages)
    /\ \A i \in DOMAIN m : m[i].to # "chain"

(* The types by the variables that change together.                        *)
ActivationTypes ==
    /\ desired \in Projects \cup {None} /\ descriptor \in Projects \cup {None}
    /\ lastKey \in Projects \cup {None}
    /\ prep \in {"no", "preparing", "queued"} /\ retries \in 0..MaxRetries
RestartTypes ==
    /\ timer \in Projects \cup {None} /\ restartAttempts \in 0..MaxRestarts
    /\ restartExhausted \in BOOLEAN /\ restartInFlight \in BOOLEAN /\ closing \in BOOLEAN
ChainTypes == chain \in Seq(Operations) /\ step \in {"idle", "state", "stop", "start"}
WireTypes == toBackend \in Seq(Calls) /\ toBrowser \in Seq(Messages)
ManagerTypes ==
    /\ state \in States /\ process \in {NoProcess} \cup Children
    /\ starting \in [stage : {"no", "inspecting", "resolving", "initializing"},
                     key : Projects \cup {None}, child : {NoProcess} \cup Children]
    /\ stopping \in [phase : {"no", "shutdown", "term", "kill"},
                     child : {NoProcess} \cup Children]
    /\ waiters \in SUBSET {"chain", "close"}
    /\ child \in [Children -> [key : Projects, fate : Fates] \cup {Free}]
BudgetTypes ==
    /\ changes \in 0..MaxChanges /\ crashes \in 0..MaxCrashes
    /\ failures \in 0..MaxFailures /\ closed \in BOOLEAN

(* TypeOK is the conjunction of these groups,                              *)
LEMMA Types ==
    TypeOK <=> /\ ActivationTypes /\ RestartTypes /\ ChainTypes /\ WireTypes
               /\ ManagerTypes /\ BudgetTypes
  BY DEF TypeOK, ActivationTypes, RestartTypes, ChainTypes, WireTypes, ManagerTypes, BudgetTypes

(* ... also after a step.                                                  *)
LEMMA TypesNext ==
    TypeOK' <=> /\ ActivationTypes' /\ RestartTypes' /\ ChainTypes' /\ WireTypes'
                /\ ManagerTypes' /\ BudgetTypes'
  BY DEF TypeOK, ActivationTypes, RestartTypes, ChainTypes, WireTypes, ManagerTypes, BudgetTypes

(* The invariant holds at the start.                                       *)
LEMMA InitOK == Init => IndInv
  <1> SUFFICES ASSUME Init PROVE IndInv
    OBVIOUS
  <1> USE LanguageServerConstants DEF Init
  <1>1. /\ 0 \in 0..MaxRetries /\ 0 \in 0..MaxRestarts /\ 0 \in 0..MaxChanges
        /\ 0 \in 0..MaxCrashes /\ 0 \in 0..MaxFailures
    OBVIOUS
  <1>2. chain \in Seq(Operations) /\ toBackend \in Seq(Calls) /\ toBrowser \in Seq(Messages)
    OBVIOUS
  <1>3. starting \in [stage : {"no", "inspecting", "resolving", "initializing"},
                     key : Projects \cup {None}, child : {NoProcess} \cup Children]
        /\ stopping \in [phase : {"no", "shutdown", "term", "kill"},
                         child : {NoProcess} \cup Children]
        /\ state \in States
    BY DEF Idle, AtRest, States
  <1>4. TypeOK
    BY <1>1, <1>2, <1>3 DEF TypeOK
  <1>5. DOMAIN toBackend = {} /\ DOMAIN toBrowser = {} /\ state \notin Up \cup {"stopping"}
    BY DEF Up
  <1>6. Current /\ Askers /\ OneCall /\ Managed /\ NoOrphan /\ Remembered /\ Truthful
    BY <1>5 DEF Current, Askers, OneCall, Managed, NoOrphan, Remembered, Truthful, Asked, Answered,
       Idle, AtRest, Free
  <1> QED BY <1>4, <1>6 DEF IndInv

(* A call appended to the wire: what is on it is that call or was there,   *)
(* and a call of the chain stays the only one.                             *)
LEMMA MakeCall ==
    ASSUME IndInv, NEW c \in Calls, toBackend' = Append(toBackend, c)
    PROVE  /\ toBackend' \in Seq(Calls)
           /\ \A i \in DOMAIN toBackend' :
                 toBackend'[i] = c \/ \E j \in DOMAIN toBackend : toBackend'[i] = toBackend[j]
           /\ c.by # "chain" \/ Asked = {} =>
                 \A i \in Asked' : /\ Asked' = {i}
                                   /\ \/ toBackend'[i] = c /\ c.by = "chain"
                                      \/ \E j \in Asked : toBackend'[i] = toBackend[j]
           /\ c.by # "chain" /\ Asked = {} => Asked' = {}
  <1>1. toBackend \in Seq(Calls)
    BY DEF IndInv, TypeOK
  <1>2. /\ toBackend' \in Seq(Calls)
        /\ DOMAIN toBackend' = 1..Len(toBackend) + 1 /\ DOMAIN toBackend = 1..Len(toBackend)
        /\ Len(toBackend) \in Nat
        /\ \A i \in 1..Len(toBackend) : toBackend'[i] = toBackend[i]
        /\ toBackend'[Len(toBackend) + 1] = c
    BY <1>1
  <1>3. \A i \in Asked : Asked = {i}
    BY DEF IndInv, OneCall
  <1>4. Asked' = IF c.by = "chain" THEN Asked \cup {Len(toBackend) + 1} ELSE Asked
    BY <1>2 DEF Asked
  <1> QED BY <1>2, <1>3, <1>4 DEF Asked

(* A call taken off the wire: what is left was there, and no call of the   *)
(* chain is left if this was one.                                          *)
LEMMA TakeCall ==
    ASSUME IndInv, toBackend # <<>>, toBackend' = Tail(toBackend)
    PROVE  /\ toBackend' \in Seq(Calls) /\ Call1 \in Calls
           /\ \E j \in DOMAIN toBackend : Call1 = toBackend[j] /\ (Call1.by = "chain" => j \in Asked)
           /\ \A i \in DOMAIN toBackend' : \E j \in DOMAIN toBackend : toBackend'[i] = toBackend[j]
           /\ \A i \in Asked' : /\ Asked' = {i}
                                /\ \E j \in Asked : toBackend'[i] = toBackend[j]
           /\ Call1.by = "chain" \/ Asked = {} => Asked' = {}
  <1>1. toBackend \in Seq(Calls)
    BY DEF IndInv, TypeOK
  <1>2. /\ toBackend' \in Seq(Calls)
        /\ DOMAIN toBackend' = 1..Len(toBackend) - 1 /\ DOMAIN toBackend = 1..Len(toBackend)
        /\ Len(toBackend) \in Nat /\ Len(toBackend) # 0
        /\ \A i \in 1..Len(toBackend) - 1 : toBackend'[i] = toBackend[i + 1]
        /\ Call1 = toBackend[1]
    BY <1>1 DEF Call1
  <1>3. \A i \in Asked : Asked = {i}
    BY DEF IndInv, OneCall
  <1>4. \A i \in Asked' : i \in 1..Len(toBackend) - 1 /\ i + 1 \in Asked
    BY <1>2 DEF Asked
  <1>5. 1 \in DOMAIN toBackend /\ Call1 \in Calls /\ (Call1.by = "chain" => 1 \in Asked)
    BY <1>1, <1>2 DEF Asked
  <1>6. Call1.by = "chain" => Asked' = {}
    BY <1>2, <1>3, <1>4, <1>5
  <1>7. \A i \in Asked' : Asked' = {i}
    BY <1>3, <1>4
  <1>8. \A i \in DOMAIN toBackend' : i + 1 \in DOMAIN toBackend /\ toBackend'[i] = toBackend[i + 1]
    BY <1>2
  <1> QED BY <1>2, <1>4, <1>5, <1>6, <1>7, <1>8

(* The same of a message taken off the way back.                           *)
LEMMA TakeAnswer ==
    ASSUME IndInv, toBrowser # <<>>, toBrowser' = Tail(toBrowser)
    PROVE  /\ toBrowser' \in Seq(Messages) /\ Next1 \in Messages
           /\ Next1.to = "chain" => \E j \in Answered : Next1 = toBrowser[j]
           /\ \A i \in Answered' : /\ Answered' = {i}
                                   /\ \E j \in Answered : toBrowser'[i] = toBrowser[j]
           /\ Next1.to = "chain" \/ Answered = {} => Answered' = {}
  <1>1. toBrowser \in Seq(Messages)
    BY DEF IndInv, TypeOK
  <1>2. /\ toBrowser' \in Seq(Messages)
        /\ DOMAIN toBrowser' = 1..Len(toBrowser) - 1 /\ DOMAIN toBrowser = 1..Len(toBrowser)
        /\ Len(toBrowser) \in Nat /\ Len(toBrowser) # 0
        /\ \A i \in 1..Len(toBrowser) - 1 : toBrowser'[i] = toBrowser[i + 1]
        /\ Next1 = toBrowser[1]
    BY <1>1 DEF Next1
  <1>3. \A i \in Answered : Answered = {i}
    BY DEF IndInv, OneCall
  <1>4. \A i \in Answered' : i \in 1..Len(toBrowser) - 1 /\ i + 1 \in Answered
    BY <1>2 DEF Answered
  <1>5. 1 \in DOMAIN toBrowser /\ Next1 \in Messages /\ (Next1.to = "chain" => 1 \in Answered)
    BY <1>1, <1>2 DEF Answered
  <1>6. Next1.to = "chain" => Answered' = {}
    BY <1>2, <1>3, <1>4, <1>5
  <1>7. \A i \in Answered' : Answered' = {i}
    BY <1>3, <1>4
  <1>8. \A i \in Answered' : toBrowser'[i] = toBrowser[i + 1]
    BY <1>2, <1>4
  <1> QED BY <1>2, <1>4, <1>5, <1>6, <1>7, <1>8

(* Messages added on the way back carry at most the one answer to the      *)
(* chain.                                                                  *)
LEMMA MakeAnswer ==
    ASSUME IndInv, NEW m, NEW r, Carries(m, r), toBrowser' = toBrowser \o m
    PROVE  /\ toBrowser' \in Seq(Messages)
           /\ Silent(m) \/ Answered = {} =>
                 \A i \in Answered' :
                    /\ Answered' = {i}
                    /\ \/ \E j \in Answered : toBrowser'[i] = toBrowser[j]
                       \/ toBrowser'[i] = r /\ ~Silent(m)
           /\ Silent(m) /\ Answered = {} => Answered' = {}
  <1>1. toBrowser \in Seq(Messages) /\ m \in Seq(Messages)
    BY DEF IndInv, TypeOK, Carries
  <1>2. /\ toBrowser' \in Seq(Messages)
        /\ Len(toBrowser) \in Nat /\ Len(m) \in Nat
        /\ DOMAIN toBrowser' = 1..Len(toBrowser) + Len(m) /\ DOMAIN toBrowser = 1..Len(toBrowser)
        /\ DOMAIN m = 1..Len(m)
        /\ \A i \in 1..Len(toBrowser) : toBrowser'[i] = toBrowser[i]
        /\ \A i \in 1..Len(m) : toBrowser'[Len(toBrowser) + i] = m[i]
    BY <1>1
  <1>3. \A i \in Answered : Answered = {i}
    BY DEF IndInv, OneCall
  <1>4. \A i \in Answered' :
           \/ i \in Answered /\ toBrowser'[i] = toBrowser[i]
           \/ /\ i - Len(toBrowser) \in DOMAIN m
              /\ m[i - Len(toBrowser)].to = "chain" /\ toBrowser'[i] = m[i - Len(toBrowser)]
    <2> TAKE i \in Answered'
    <2>1. i \in 1..Len(toBrowser) + Len(m) /\ toBrowser'[i].to = "chain"
      BY <1>2 DEF Answered
    <2>2. CASE i \in 1..Len(toBrowser)
      BY <1>2, <2>1, <2>2 DEF Answered
    <2>3. CASE i \notin 1..Len(toBrowser)
      <3>1. i - Len(toBrowser) \in 1..Len(m) /\ Len(toBrowser) + (i - Len(toBrowser)) = i
        BY <1>2, <2>1, <2>3
      <3> QED BY <1>2, <2>1, <3>1
    <2> QED BY <2>2, <2>3
  <1>5. CASE Silent(m)
    <2>1. \A i \in Answered' : i \in Answered /\ toBrowser'[i] = toBrowser[i]
      BY <1>4, <1>5 DEF Silent
    <2> QED BY <1>2, <1>3, <2>1
  <1>6. CASE Answered = {} /\ ~Silent(m)
    <2>1. \A i, j \in Answered' : i = j
      <3> TAKE i, j \in Answered'
      <3>1. i \in Nat /\ j \in Nat
        BY <1>2 DEF Answered
      <3>2. i - Len(toBrowser) = j - Len(toBrowser)
        BY <1>4, <1>6 DEF Carries
      <3> QED BY <1>2, <3>1, <3>2
    <2>2. \A i \in Answered' : toBrowser'[i] = r
      BY <1>4, <1>6 DEF Carries
    <2> QED BY <1>2, <1>6, <2>1, <2>2
  <1> QED BY <1>2, <1>5, <1>6

Values == States \cup {"ok", "refused", "disposed"}

(* A reply carries its answer, and none to the chain when it is for        *)
(* another caller.                                                         *)
LEMMA ReplyCarries ==
    ASSUME NEW kind \in {"state", "stop", "start"}, NEW to \in {"chain", "restart", "close"},
           NEW v \in Values
    PROVE  /\ Carries(Reply(kind, to, v), [kind |-> kind, to |-> to, value |-> v])
           /\ to # "chain" => Silent(Reply(kind, to, v))
  <1> DEFINE r == [kind |-> kind, to |-> to, value |-> v]
  <1>1. r \in Messages /\ r.to = to
    BY DEF Messages, Values
  <1> HIDE DEF r
  <1>2. <<r>> \in Seq(Messages) /\ DOMAIN <<r>> = {1} /\ <<r>>[1] = r
    BY <1>1
  <1>3. Reply(kind, to, v) = <<r>>
    BY DEF Reply, r
  <1>4. Carries(<<r>>, r) /\ (to # "chain" => Silent(<<r>>))
    BY <1>1, <1>2 DEF Carries, Silent
  <1> QED BY <1>3, <1>4 DEF r

(* State events answer nobody.                                             *)
LEMMA ToldIsSilent ==
    ASSUME NEW s \in Seq(States) PROVE Silent(Told(s))
  <1>1. DOMAIN s = 1..Len(s) /\ Len(s) \in Nat /\ \A i \in 1..Len(s) : s[i] \in States
    OBVIOUS
  <1>2. Told(s) = [i \in 1..Len(s) |-> [kind |-> "event", to |-> "all", value |-> s[i]]]
    BY <1>1 DEF Told
  <1>3. \A i \in 1..Len(s) : [kind |-> "event", to |-> "all", value |-> s[i]] \in Messages
    BY <1>1 DEF Messages
  <1>4. Told(s) \in [1..Len(s) -> Messages]
    BY <1>2, <1>3
  <1>5. Told(s) \in Seq(Messages) /\ DOMAIN Told(s) = 1..Len(s)
    BY <1>1, <1>4
  <1>6. \A i \in 1..Len(s) : Told(s)[i].to = "all"
    BY <1>2
  <1> QED BY <1>5, <1>6 DEF Silent

(* Nor does saying nothing.                                                *)
LEMMA EmptyIsSilent == Silent(<<>>)
  BY DEF Silent

(* Messages that do not answer the chain carry any answer at most once.    *)
LEMMA SilentCarries == ASSUME NEW m, Silent(m), NEW r PROVE Carries(m, r)
  BY DEF Silent, Carries

(* One answer with silence before or after it is one answer.               *)
LEMMA JoinCarries ==
    ASSUME NEW a, NEW b, NEW r
    PROVE  /\ Silent(a) /\ Carries(b, r) => Carries(a \o b, r)
           /\ Carries(a, r) /\ Silent(b) => Carries(a \o b, r)
           /\ Silent(a) /\ Silent(b) => Silent(a \o b)
  <1> SUFFICES ASSUME a \in Seq(Messages), b \in Seq(Messages)
               PROVE  /\ Silent(a) /\ Carries(b, r) => Carries(a \o b, r)
                      /\ Carries(a, r) /\ Silent(b) => Carries(a \o b, r)
                      /\ Silent(a) /\ Silent(b) => Silent(a \o b)
    BY DEF Silent, Carries
  <1> DEFINE c == a \o b
  <1>1. /\ c \in Seq(Messages) /\ Len(a) \in Nat /\ Len(b) \in Nat
        /\ DOMAIN a = 1..Len(a) /\ DOMAIN b = 1..Len(b) /\ DOMAIN c = 1..Len(a) + Len(b)
        /\ \A i \in DOMAIN c : c[i] = IF i \in 1..Len(a) THEN a[i] ELSE b[i - Len(a)]
    OBVIOUS
  <1>2. \A i \in DOMAIN c : i \in DOMAIN a \/ (i - Len(a) \in DOMAIN b /\ i \notin 1..Len(a))
    BY <1>1
  <1>3. \A i \in DOMAIN c, j \in DOMAIN c : i - Len(a) = j - Len(a) => i = j
    BY <1>1
  <1> HIDE DEF c
  <1>4. Silent(a) /\ Carries(b, r) => Carries(c, r)
    BY <1>1, <1>2, <1>3 DEF Silent, Carries
  <1>5. Carries(a, r) /\ Silent(b) => Carries(c, r)
    BY <1>1, <1>2, <1>3 DEF Silent, Carries
  <1>6. Silent(a) /\ Silent(b) => Silent(c)
    BY <1>1, <1>2 DEF Silent
  <1> QED BY <1>4, <1>5, <1>6 DEF c

(* The answers to those who wait for a stop, and to the start it cuts off. *)
StopOf == [kind |-> "stop", to |-> "chain", value |-> "ok"]
DisposedOf == [kind |-> "start", to |-> "chain", value |-> "disposed"]

(* The end of a stop answers the chain once if it waits, and else not at   *)
(* all.                                                                    *)
LEMMA StoppedCarries ==
    ASSUME NEW ws PROVE Carries(Stopped(ws), StopOf) /\ ("chain" \notin ws => Silent(Stopped(ws)))
  <1> DEFINE x == IF "chain" \in ws THEN Reply("stop", "chain", "ok") ELSE <<>>
             y == IF "close" \in ws THEN Reply("stop", "close", "ok") ELSE <<>>
  <1>1. Carries(x, StopOf) /\ ("chain" \notin ws => Silent(x))
    BY ReplyCarries, EmptyIsSilent, SilentCarries DEF Values, StopOf
  <1>2. Silent(y)
    BY ReplyCarries, EmptyIsSilent DEF Values
  <1>3. Stopped(ws) = x \o y
    BY DEF Stopped
  <1> HIDE DEF x, y
  <1> QED BY <1>1, <1>2, <1>3, JoinCarries

(* The end of a child answers the chain with a disposed connection only    *)
(* when it interrupts a start.                                             *)
LEMMA DisposedCarries ==
    ASSUME NEW c PROVE /\ Carries(Disposed(c), DisposedOf)
                       /\ ~Interrupted(c) => Silent(Disposed(c)) /\ StartingWithout(c) = starting
  BY ReplyCarries, EmptyIsSilent, SilentCarries DEF Values, DisposedOf, Disposed, StartingWithout

-----------------------------------------------------------------------------
(* The browser                                                             *)

(* The operation at the head of the chain stays, with its project.         *)
HeadStays == step # "idle" => chain' # <<>> /\ Head(chain').key = Head(chain).key

(* An activation outdates the queued operations and leaves the first one   *)
(* where it is.                                                            *)
LEMMA OutdateOK ==
    ASSUME IndInv, Outdate
    PROVE  /\ chain' \in Seq(Operations) /\ HeadStays
           /\ \A i \in DOMAIN chain' : ~chain'[i].current
  <1> DEFINE o(i) == [chain[i] EXCEPT !.current = FALSE]
  <1>1. chain \in Seq(Operations) /\ Len(chain) \in Nat /\ DOMAIN chain = 1..Len(chain)
        /\ \A i \in 1..Len(chain) : chain[i] \in Operations
    BY DEF IndInv, TypeOK
  <1>2. \A i \in 1..Len(chain) : /\ o(i) \in Operations /\ o(i).key = chain[i].key
                                 /\ o(i).current = FALSE
    BY <1>1 DEF Operations
  <1>3. chain' = [i \in 1..Len(chain) |-> o(i)]
    BY <1>1 DEF Outdate
  <1> HIDE DEF o
  <1>4. chain' \in [1..Len(chain) -> Operations]
    BY <1>2, <1>3
  <1>5. chain' \in Seq(Operations) /\ Len(chain') = Len(chain)
    BY <1>1, <1>4
  <1>6. chain # <<>> => chain' # <<>> /\ Head(chain').key = Head(chain).key
    <2> SUFFICES ASSUME chain # <<>> PROVE chain' # <<>> /\ Head(chain').key = Head(chain).key
      OBVIOUS
    <2>1. 1 \in 1..Len(chain)
      BY <1>1
    <2>2. Head(chain') = chain'[1] /\ Head(chain) = chain[1] /\ chain' # <<>>
      BY <1>1, <1>5, <2>1
    <2> QED BY <1>2, <1>3, <2>1, <2>2
  <1>7. \A i \in DOMAIN chain' : ~chain'[i].current
    BY <1>2, <1>3
  <1> QED BY <1>5, <1>6, <1>7 DEF HeadStays, IndInv, OneCall

(* An operation appended to the chain: the others stay.                    *)
LEMMA AppendOK ==
    ASSUME IndInv, NEW op \in Operations, chain' = Append(chain, op)
    PROVE  /\ chain' \in Seq(Operations) /\ HeadStays
           /\ \A i \in DOMAIN chain' : (i \in DOMAIN chain /\ chain'[i] = chain[i]) \/ chain'[i] = op
  <1>1. chain \in Seq(Operations)
    BY DEF IndInv, TypeOK
  <1>2. chain' \in Seq(Operations) /\ (chain # <<>> => chain' # <<>> /\ Head(chain') = Head(chain))
    BY <1>1
  <1>3. \A i \in DOMAIN chain' : (i \in DOMAIN chain /\ chain'[i] = chain[i]) \/ chain'[i] = op
    BY <1>1
  <1> QED BY <1>2, <1>3 DEF HeadStays, IndInv, OneCall

(* The manager and the wires stay, and so does the head of the chain.      *)
LEMMA QuietOK ==
    ASSUME IndInv, TypeOK', Current', UNCHANGED <<wires, manager, step>>, HeadStays,
           lastKey' \in {lastKey, None}
    PROVE  IndInv'
  <1> USE DEF wires, manager
  <1>1. Asked' = Asked /\ Answered' = Answered
    BY DEF Asked, Answered
  <1>2. step = "idle" => Asked = {} /\ Answered = {} /\ starting.stage = "no"
    <2>1. \A i \in Asked : toBackend[i] \in Calls /\ toBackend[i].call = step
      BY DEF IndInv, OneCall, TypeOK, Asked
    <2>2. \A i \in Answered : toBrowser[i] \in Messages /\ toBrowser[i].kind = step
      BY DEF IndInv, OneCall, TypeOK, Answered
    <2> QED BY <2>1, <2>2 DEF IndInv, OneCall, Calls, Messages
  <1>3. (Askers /\ Managed /\ NoOrphan)'
    BY DEF IndInv, Askers, Managed, NoOrphan, Alive
  <1>4. OneCall'
    BY <1>1 DEF IndInv, OneCall, HeadStays
  <1>5. Remembered'
    BY <1>1 DEF IndInv, Remembered, HeadStays
  <1>6. Truthful'
    BY <1>1, <1>2 DEF IndInv, Truthful, HeadStays
  <1> QED BY <1>3, <1>4, <1>5, <1>6 DEF IndInv

(* Activation, its preparation and the restart timer.                      *)
LEMMA UserOK ==
    ASSUME IndInv, (\E p \in Projects : Activate(p)) \/ Prepared \/ PrepareFails \/ TimerFires
    PROVE  IndInv'
  <1> USE DEF activation, restarts, transitions, budget, wires, manager
  <1>1. /\ changes' \in 0..MaxChanges /\ failures' \in 0..MaxFailures /\ retries' \in 0..MaxRetries
    <2>1. \/ changes' = changes
          \/ changes < MaxChanges /\ changes' = changes + 1
      BY DEF Activate, Prepared, PrepareFails, TimerFires
    <2>2. \/ failures' = failures
          \/ failures < MaxFailures /\ failures' = failures + 1
      BY DEF Activate, Prepared, PrepareFails, TimerFires, Fail
    <2>3. \/ retries' = retries \/ retries' = 0
          \/ retries < MaxRetries /\ retries' = retries + 1
      BY DEF Activate, Prepared, PrepareFails, TimerFires, Retry
    <2> QED BY <2>1, <2>2, <2>3, LanguageServerConstants DEF IndInv, TypeOK
  <1>2. chain' \in Seq(Operations) /\ HeadStays
    <2>1. CASE \E p \in Projects : Activate(p)
      BY <2>1, OutdateOK DEF Activate
    <2>2. CASE Prepared
      <3>1. [kind |-> "activation", key |-> desired, current |-> TRUE] \in Operations
        BY <2>2 DEF Prepared, Operations, IndInv, Current
      <3> QED BY <2>2, <3>1, AppendOK DEF Prepared
    <2>3. CASE PrepareFails
      BY <2>3 DEF PrepareFails, IndInv, TypeOK, OneCall, HeadStays
    <2>4. CASE TimerFires
      <3>1. [kind |-> "restart", key |-> timer, current |-> TRUE] \in Operations
        BY <2>4 DEF TimerFires, Operations, IndInv, TypeOK
      <3> QED BY <2>4, <3>1, AppendOK DEF TimerFires
    <2> QED BY <2>1, <2>2, <2>3, <2>4
  <1>3. UNCHANGED <<wires, manager, step>> /\ lastKey' = lastKey
    BY DEF Activate, Prepared, PrepareFails, TimerFires
  <1>4. /\ desired' \in Projects \cup {None} /\ descriptor' \in Projects \cup {None}
        /\ prep' \in {"no", "preparing", "queued"}
        /\ timer' \in Projects \cup {None}
        /\ restartExhausted' \in BOOLEAN /\ restartInFlight' \in BOOLEAN /\ closing' \in BOOLEAN
        /\ UNCHANGED <<crashes, closed>>
    BY DEF Activate, Prepared, PrepareFails, TimerFires, Retry, IndInv, TypeOK
  <1>5. restartAttempts' \in 0..MaxRestarts
    BY LanguageServerConstants DEF Activate, Prepared, PrepareFails, TimerFires, IndInv, TypeOK
  <1>6. TypeOK'
    BY <1>1, <1>2, <1>3, <1>4, <1>5 DEF IndInv, TypeOK
  <1>7. Current'
    <2>1. CASE \E p \in Projects : Activate(p)
      BY <2>1 DEF Activate, Current
    <2>2. CASE Prepared
      BY <2>2 DEF Prepared, IndInv, Current
    <2>3. CASE PrepareFails
      BY <2>3 DEF PrepareFails, IndInv, Current
    <2>4. CASE TimerFires
      BY <2>4 DEF TimerFires, IndInv, Current
    <2> QED BY <2>1, <2>2, <2>3, <2>4
  <1> QED BY <1>2, <1>3, <1>6, <1>7, QuietOK

(* A close outdates everything and asks for a stop, unless one is under    *)
(* way already.                                                            *)
LEMMA DeactivateOK == ASSUME IndInv, Deactivate PROVE IndInv'
  <1> USE DEF activation, restarts, transitions, budget, wires, manager
  <1>1. changes' \in 0..MaxChanges /\ 0 \in 0..MaxRestarts /\ 0 \in 0..MaxRetries
    BY LanguageServerConstants DEF IndInv, TypeOK, Deactivate
  <1>2. /\ chain' \in Seq(Operations) /\ HeadStays
        /\ \A i \in DOMAIN chain' : ~chain'[i].current
    BY OutdateOK DEF Deactivate
  <1> DEFINE c == [call |-> "stop", by |-> "close", key |-> None]
  <1>3. c \in Calls /\ c.call = "stop" /\ c.by = "close"
    BY DEF Calls
  <1>4. toBackend' = toBackend \/ toBackend' = Append(toBackend, c)
    BY DEF Deactivate, Call
  <1> HIDE DEF c
  <1>5. /\ toBackend' \in Seq(Calls)
        /\ \A i \in DOMAIN toBackend' :
              toBackend'[i] = c \/ \E j \in DOMAIN toBackend : toBackend'[i] = toBackend[j]
        /\ \A i \in Asked' : Asked' = {i} /\ \E j \in Asked : toBackend'[i] = toBackend[j]
        /\ Asked = {} => Asked' = {}
    <2>1. CASE toBackend' = toBackend
      BY <2>1 DEF Asked, IndInv, TypeOK, OneCall
    <2>2. CASE toBackend' = Append(toBackend, c)
      BY <1>3, <2>2, MakeCall
    <2> QED BY <1>4, <2>1, <2>2
  <1>6. /\ UNCHANGED <<step, restartInFlight, toBrowser, manager, crashes, failures>>
        /\ desired' = None /\ descriptor' = None /\ lastKey' = None /\ prep' = "no" /\ retries' = 0
        /\ restartAttempts' = 0 /\ restartExhausted' = FALSE /\ timer' = None
        /\ closing' = TRUE /\ closed' = TRUE
    BY DEF Deactivate
  <1>7. TypeOK'
    <2>1. ActivationTypes' /\ RestartTypes'
      BY <1>1, <1>6, Types DEF IndInv, ActivationTypes, RestartTypes
    <2>2. ChainTypes' /\ WireTypes'
      BY <1>2, <1>5, <1>6, Types DEF IndInv, ChainTypes, WireTypes
    <2>3. ManagerTypes' /\ BudgetTypes'
      BY <1>1, <1>6, Types DEF IndInv, ManagerTypes, BudgetTypes
    <2> QED BY <2>1, <2>2, <2>3, TypesNext
  <1>8. Answered' = Answered
    BY <1>6 DEF Answered
  <1>9. (Current /\ Askers /\ Managed /\ NoOrphan)'
    BY <1>2, <1>3, <1>5, <1>6 DEF IndInv, Current, Askers, Managed, NoOrphan, Alive
  <1>10. OneCall'
    BY <1>2, <1>5, <1>6, <1>8 DEF IndInv, OneCall, HeadStays
  <1>11. Remembered'
    BY <1>2, <1>6 DEF IndInv, Remembered, HeadStays
  <1>12. Truthful'
    <2>1. Asked # {} \/ starting.stage # "no" => step # "idle"
      <3>1. \A i \in Asked : toBackend[i] \in Calls /\ toBackend[i].call = step
        BY DEF IndInv, OneCall, TypeOK, Asked
      <3> QED BY <3>1 DEF IndInv, OneCall, Calls
    <2> QED BY <1>2, <1>5, <1>6, <1>8, <2>1 DEF IndInv, Truthful, HeadStays
  <1> QED BY <1>7, <1>9, <1>10, <1>11, <1>12 DEF IndInv

-----------------------------------------------------------------------------
(* The chain: calls and their answers                                      *)

Unasked == Asked = {} /\ Answered = {} /\ starting.stage = "no" /\ "chain" \notin waiters

(* While the chain is idle nothing it asked is under way.                  *)
LEMMA Resting == ASSUME IndInv, step = "idle" PROVE Unasked
  <1>1. \A i \in Asked : toBackend[i] \in Calls /\ toBackend[i].call = step
    BY DEF IndInv, OneCall, TypeOK, Asked
  <1>2. \A i \in Answered : toBrowser[i] \in Messages /\ toBrowser[i].kind = step
               /\ toBrowser[i].to = "chain"
    BY DEF IndInv, OneCall, TypeOK, Answered
  <1>3. Asked = {}
    BY <1>1 DEF Calls
  <1>4. Answered = {}
    BY <1>2 DEF Messages
  <1> QED BY <1>3, <1>4 DEF IndInv, OneCall, Unasked

(* An answer to the chain is the one it waits for, and says what it says.  *)
LEMMA Returned ==
    ASSUME IndInv, NEW kind, Answer(kind, "chain")
    PROVE  /\ step = kind /\ Asked = {} /\ starting.stage = "no" /\ "chain" \notin waiters
           /\ Answered' = {} /\ toBrowser' \in Seq(Messages)
           /\ \/ Next1.kind = "state" /\ Next1.value \in Up
              \/ Next1.kind = "start" /\ Next1.value = "ok"
              \/ state \notin Up
  <1>1. toBrowser # <<>> /\ toBrowser' = Tail(toBrowser) /\ Next1.to = "chain" /\ Next1.kind = kind
    BY DEF Answer
  <1>2. PICK j \in Answered : Next1 = toBrowser[j]
    BY <1>1, TakeAnswer
  <1>3. Answered' = {} /\ toBrowser' \in Seq(Messages)
    BY <1>1, TakeAnswer
  <1> QED BY <1>1, <1>2, <1>3 DEF IndInv, OneCall, Truthful

(* An operation leaves the chain: nobody waits for anything.               *)
LEMMA Settled ==
    ASSUME IndInv, TypeOK', Current', UNCHANGED manager,
           step' = "idle", Asked' = {}, Answered' = {},
           starting.stage = "no", "chain" \notin waiters,
           Askers', state \in Up => lastKey' \in {None, child[process].key}
    PROVE  IndInv'
  <1> USE DEF manager
  <1>1. OneCall'
    BY DEF OneCall
  <1>2. (Managed /\ NoOrphan)'
    BY DEF IndInv, Managed, NoOrphan, Alive
  <1>3. Remembered' /\ Truthful'
    BY DEF Remembered, Truthful
  <1> QED BY <1>1, <1>2, <1>3 DEF IndInv

(* It goes on to its next call.                                            *)
LEMMA Asks ==
    ASSUME IndInv, TypeOK', Current', UNCHANGED <<manager, chain, lastKey>>, chain # <<>>,
           NEW k, k \in Projects \cup {None}, NEW call \in {"state", "stop", "start"},
           Call(call, "chain", k), step' = call,
           Asked = {}, Answered' = {}, starting.stage = "no", "chain" \notin waiters,
           step # "start",
           call = "start" => state \notin Up /\ k = Head(chain).key /\ k \in Projects
    PROVE  IndInv'
  <1> USE DEF manager
  <1> DEFINE c == [call |-> call, by |-> "chain", key |-> k]
  <1>1. c \in Calls /\ c.by = "chain" /\ c.call = call /\ c.key = k /\ toBackend' = Append(toBackend, c)
    BY DEF Calls, Call
  <1> HIDE DEF c
  <1>2. /\ \A i \in DOMAIN toBackend' :
              toBackend'[i] = c \/ \E j \in DOMAIN toBackend : toBackend'[i] = toBackend[j]
        /\ \A i \in Asked' : Asked' = {i} /\ toBackend'[i] = c
    BY <1>1, MakeCall
  <1>3. Askers'
    BY <1>1, <1>2 DEF IndInv, Askers
  <1>4. OneCall'
    BY <1>1, <1>2 DEF OneCall
  <1>5. (Managed /\ NoOrphan)'
    BY DEF IndInv, Managed, NoOrphan, Alive
  <1>6. Remembered'
    BY DEF IndInv, Remembered
  <1>7. Truthful'
    BY <1>1, <1>2 DEF Truthful
  <1> QED BY <1>3, <1>4, <1>5, <1>6, <1>7 DEF IndInv

(* The chain turns to its next operation.                                  *)
LEMMA BeginOK == ASSUME IndInv, Begin PROVE IndInv'
  <1> USE DEF activation, restarts, transitions, budget, wires
  <1>1. /\ UNCHANGED <<activation, restarts, chain, closing, toBrowser, manager, budget>>
        /\ chain # <<>> /\ step = "idle" /\ step' = "state" /\ Call("state", "chain", None)
    BY DEF Begin
  <1>2. Unasked /\ Answered' = {}
    BY <1>1, Resting DEF Unasked, Answered
  <1> DEFINE c == [call |-> "state", by |-> "chain", key |-> None]
  <1>3. c \in Calls /\ toBackend' = Append(toBackend, c)
    BY <1>1 DEF Calls, Call
  <1>4. toBackend' \in Seq(Calls)
    BY <1>3, MakeCall
  <1> HIDE DEF c
  <1>5. TypeOK'
    <2>1. (ActivationTypes /\ RestartTypes /\ BudgetTypes)'
      BY <1>1, Types DEF IndInv, ActivationTypes, RestartTypes, BudgetTypes
    <2>2. (ChainTypes /\ WireTypes)'
      BY <1>1, <1>4, Types DEF IndInv, ChainTypes, WireTypes
    <2>3. ManagerTypes'
      BY <1>1, Types DEF IndInv, ManagerTypes, manager
    <2> QED BY <2>1, <2>2, <2>3, TypesNext
  <1>6. Current'
    BY <1>1 DEF IndInv, Current
  <1>7. UNCHANGED <<manager, chain, lastKey>>
    BY <1>1
  <1> QED BY <1>1, <1>2, <1>5, <1>6, <1>7, Asks DEF Unasked
(* An operation leaves the chain; after a restart the state is asked for,  *)
(* which is not a call of the chain.                                       *)
LEMMA LeavesOK ==
    ASSUME IndInv, chain # <<>>, Leaves, Asked = {}
    PROVE  /\ chain' \in Seq(Operations) /\ step' = "idle" /\ restartInFlight' \in BOOLEAN
           /\ \A i \in DOMAIN chain' : \E j \in DOMAIN chain : chain'[i] = chain[j]
           /\ toBackend' \in Seq(Calls) /\ Asked' = {} /\ Askers'
  <1>1. chain \in Seq(Operations) /\ chain' = Tail(chain) /\ step' = "idle"
    BY DEF Leaves, IndInv, TypeOK
  <1>2. /\ chain' \in Seq(Operations) /\ Len(chain) \in Nat /\ DOMAIN chain = 1..Len(chain)
        /\ DOMAIN chain' = 1..Len(chain) - 1
        /\ \A i \in 1..Len(chain) - 1 : chain'[i] = chain[i + 1]
    BY <1>1
  <1>3. \A i \in DOMAIN chain' : i + 1 \in DOMAIN chain /\ chain'[i] = chain[i + 1]
    BY <1>2
  <1>4. restartInFlight' \in BOOLEAN
    BY DEF Leaves, IndInv, TypeOK
  <1> DEFINE c == [call |-> "state", by |-> "restart", key |-> None]
  <1>5. c \in Calls /\ c.by = "restart" /\ c.call = "state"
    BY DEF Calls
  <1>6. toBackend' = toBackend \/ toBackend' = Append(toBackend, c)
    BY DEF Leaves, Call
  <1> HIDE DEF c
  <1>7. toBackend' \in Seq(Calls) /\ Asked' = {} /\ Askers'
    <2>1. CASE toBackend' = toBackend
      BY <2>1 DEF Asked, Askers, IndInv, TypeOK
    <2>2. CASE toBackend' = Append(toBackend, c)
      BY <1>5, <2>2, MakeCall DEF IndInv, Askers
    <2> QED BY <1>6, <2>1, <2>2
  <1> QED BY <1>1, <1>2, <1>3, <1>4, <1>7

(* The ways an operation comes to its end.                                 *)
LEMMA EndOK ==
    ASSUME IndInv, \/ Drop \/ SeesSame \/ Started \/ StartDisposed \/ StartRefused
                   \/ OldIsStopped /\ ~Head(chain).current
    PROVE  IndInv'
  <1> USE DEF activation, restarts, transitions, budget, wires, Ends
  <1>1. /\ Leaves /\ UNCHANGED <<desired, descriptor, closing, budget>> /\ UNCHANGED manager
        /\ lastKey' \in {lastKey, Head(chain).key}
    BY DEF Drop, SeesSame, Started, StartDisposed, StartRefused, OldIsStopped
  <1>2. \/ Drop \/ Answer("state", "chain") \/ Answer("stop", "chain") \/ Answer("start", "chain")
    BY DEF SeesSame, Started, StartDisposed, StartRefused, OldIsStopped
  <1>3. chain # <<>>
    <2>1. CASE Drop
      BY <2>1 DEF Drop
    <2>2. CASE step # "idle"
      BY <2>2 DEF IndInv, OneCall
    <2> QED BY <1>2, <2>1, <2>2, Returned
  <1>4. /\ Asked = {} /\ starting.stage = "no" /\ "chain" \notin waiters
        /\ Answered' = {} /\ toBrowser' \in Seq(Messages)
    <2>1. CASE Drop
      <3>1. Unasked /\ toBrowser' = toBrowser
        BY <2>1, Resting DEF Drop
      <3> QED BY <3>1 DEF Unasked, Answered, IndInv, TypeOK
    <2> QED BY <1>2, <2>1, Returned
  <1>5. /\ chain' \in Seq(Operations) /\ step' = "idle" /\ restartInFlight' \in BOOLEAN
        /\ \A i \in DOMAIN chain' : \E j \in DOMAIN chain : chain'[i] = chain[j]
        /\ toBackend' \in Seq(Calls) /\ Asked' = {} /\ Askers'
    BY <1>1, <1>3, <1>4, LeavesOK
  <1>6. Head(chain) \in Operations /\ \E i \in DOMAIN chain : Head(chain) = chain[i]
    <2>1. chain \in Seq(Operations)
      BY DEF IndInv, TypeOK
    <2>2. 1 \in DOMAIN chain /\ Head(chain) = chain[1]
      BY <1>3, <2>1
    <2> QED BY <2>1, <2>2
  <1>7. \/ retries' = retries
        \/ retries < MaxRetries /\ retries' = retries + 1
    BY DEF Drop, SeesSame, Started, StartDisposed, StartRefused, OldIsStopped, Retry
  <1>8. \/ restartAttempts' = restartAttempts
        \/ restartAttempts # MaxRestarts /\ restartAttempts' = restartAttempts + 1
    BY DEF Drop, SeesSame, Started, StartDisposed, StartRefused, OldIsStopped, ScheduleRestart
  <1>9. retries' \in 0..MaxRetries /\ restartAttempts' \in 0..MaxRestarts
    BY <1>7, <1>8, LanguageServerConstants DEF IndInv, TypeOK
  <1>10. /\ timer' \in {timer, None} \/ (timer' = descriptor /\ desired # None)
         /\ restartExhausted' \in {restartExhausted, TRUE}
    BY DEF Drop, SeesSame, Started, StartDisposed, StartRefused, OldIsStopped, Retry,
       ScheduleRestart, RestartBlocked
  <1>11. prep' \in {prep, "no"} \/ (prep' = "preparing" /\ Head(chain).current)
    BY DEF Drop, SeesSame, Started, StartDisposed, StartRefused, OldIsStopped, Retry, Done,
       OfActivation
  <1>12. TypeOK'
    <2>1. ActivationTypes'
      BY <1>1, <1>6, <1>9, <1>11 DEF IndInv, TypeOK, ActivationTypes, Operations
    <2>2. RestartTypes'
      BY <1>1, <1>5, <1>9, <1>10 DEF IndInv, TypeOK, RestartTypes
    <2>3. (ChainTypes /\ WireTypes)'
      BY <1>4, <1>5 DEF ChainTypes, WireTypes
    <2>4. ManagerTypes'
      BY <1>1, Types DEF IndInv, ManagerTypes, manager
    <2>5. BudgetTypes'
      BY <1>1, Types DEF IndInv, BudgetTypes
    <2> QED BY <2>1, <2>2, <2>3, <2>4, <2>5, TypesNext
  <1>13. Current'
    BY <1>1, <1>5, <1>6, <1>10, <1>11 DEF IndInv, Current, TypeOK
  <1>14. state \in Up => lastKey' \in {None, child[process].key}
    <2>1. CASE Drop
      BY <2>1 DEF Drop, IndInv, Remembered
    <2>2. CASE SeesSame
      <3>1. lastKey' = lastKey /\ step = "state"
        BY <2>2, Returned DEF SeesSame
      <3> QED BY <3>1 DEF IndInv, Remembered
    <2>3. CASE Started
      <3>1. lastKey' = Head(chain).key /\ step = "start"
        BY <2>3, Returned DEF Started
      <3> QED BY <3>1 DEF IndInv, Remembered
    <2>4. CASE StartDisposed \/ StartRefused
      <3>1. Answer("start", "chain") /\ Next1.value # "ok" /\ Next1.kind = "start"
        BY <2>4 DEF StartDisposed, StartRefused, Answer
      <3> QED BY <3>1, Returned
    <2>5. CASE OldIsStopped
      <3>1. Answer("stop", "chain") /\ Next1.kind = "stop"
        BY <2>5 DEF OldIsStopped, Answer
      <3> QED BY <3>1, Returned
    <2> QED BY <2>1, <2>2, <2>3, <2>4, <2>5
  <1> QED BY <1>1, <1>4, <1>5, <1>12, <1>13, <1>14, Settled
(* The ways it goes on.                                                    *)
LEMMA GoesOnOK ==
    ASSUME IndInv, SeesOther \/ (OldIsStopped /\ Head(chain).current)
    PROVE  IndInv'
  <1> USE DEF activation, restarts, transitions, budget, wires
  <1> DEFINE key == Head(chain).key
  <1>1. /\ UNCHANGED <<activation, restarts, chain, closing, budget>> /\ UNCHANGED manager
        /\ \/ Answer("state", "chain") /\ Next1.kind = "state"
           \/ Answer("stop", "chain") /\ Next1.kind = "stop"
    BY DEF SeesOther, OldIsStopped, Answer
  <1>2. /\ Asked = {} /\ starting.stage = "no" /\ "chain" \notin waiters
        /\ Answered' = {} /\ toBrowser' \in Seq(Messages) /\ step \in {"state", "stop"}
    BY <1>1, Returned
  <1>3. chain # <<>>
    BY <1>2 DEF IndInv, OneCall
  <1>4. key \in Projects
    <2>1. chain \in Seq(Operations)
      BY DEF IndInv, TypeOK
    <2>2. Head(chain) \in Operations
      BY <1>3, <2>1
    <2> QED BY <2>2 DEF Operations
  <1>5. \/ step' = "stop" /\ Call("stop", "chain", None)
        \/ step' = "start" /\ Call("start", "chain", key) /\ state \notin Up
    <2>1. CASE SeesOther /\ MustStop(Next1.value)
      BY <2>1 DEF SeesOther
    <2>2. CASE SeesOther /\ ~MustStop(Next1.value)
      <3>1. Answer("state", "chain") /\ Next1.kind = "state" /\ Next1.value \notin Up
        BY <2>2 DEF SeesOther, Answer, MustStop
      <3>2. state \notin Up
        BY <3>1, Returned
      <3> QED BY <2>2, <3>2 DEF SeesOther
    <2>3. CASE OldIsStopped /\ Head(chain).current
      <3>1. Answer("stop", "chain") /\ Next1.kind = "stop"
        BY <2>3 DEF OldIsStopped, Answer
      <3>2. state \notin Up
        BY <3>1, Returned
      <3> QED BY <2>3, <3>2 DEF OldIsStopped
    <2> QED BY <2>1, <2>2, <2>3
  <1> HIDE DEF key
  <1>6. toBackend' \in Seq(Calls)
    <2>1. /\ [call |-> "stop", by |-> "chain", key |-> None] \in Calls
          /\ [call |-> "start", by |-> "chain", key |-> key] \in Calls
      BY <1>4 DEF Calls
    <2> QED BY <1>5, <2>1, MakeCall DEF Call
  <1>7. TypeOK'
    <2>1. (ActivationTypes /\ RestartTypes /\ BudgetTypes)'
      BY <1>1, Types DEF IndInv, ActivationTypes, RestartTypes, BudgetTypes
    <2>2. (ChainTypes /\ WireTypes)'
      BY <1>1, <1>2, <1>5, <1>6, Types DEF IndInv, ChainTypes, WireTypes
    <2>3. ManagerTypes'
      BY <1>1, Types DEF IndInv, ManagerTypes, manager
    <2> QED BY <2>1, <2>2, <2>3, TypesNext
  <1>8. Current'
    BY <1>1 DEF IndInv, Current
  <1>9. UNCHANGED <<manager, chain, lastKey>> /\ step # "start"
    BY <1>1, <1>2
  <1>10. CASE step' = "stop" /\ Call("stop", "chain", None)
    BY <1>2, <1>3, <1>7, <1>8, <1>9, <1>10, Asks
  <1>11. CASE step' = "start" /\ Call("start", "chain", key) /\ state \notin Up
    BY <1>2, <1>3, <1>4, <1>7, <1>8, <1>9, <1>11, Asks DEF key
  <1> QED BY <1>5, <1>10, <1>11

(* Messages that are for somebody else.                                    *)
LEMMA PassedOK == ASSUME IndInv, SeesState \/ Closed PROVE IndInv'
  <1> USE DEF activation, restarts, transitions, budget, wires
  <1>1. /\ UNCHANGED <<activation, restartInFlight, transitions, toBackend, budget>>
        /\ UNCHANGED manager
        /\ toBrowser # <<>> /\ toBrowser' = Tail(toBrowser)
    BY DEF SeesState, Closed, Answer
  <1>2. /\ toBrowser' \in Seq(Messages) /\ (Answered = {} => Answered' = {})
        /\ \A i \in Answered' : Answered' = {i} /\ \E j \in Answered : toBrowser'[i] = toBrowser[j]
    BY <1>1, TakeAnswer
  <1>3. \/ restartAttempts' = restartAttempts
        \/ restartAttempts # MaxRestarts /\ restartAttempts' = restartAttempts + 1
    BY DEF SeesState, Closed, ScheduleRestart
  <1>4. restartAttempts' \in 0..MaxRestarts
    BY <1>3, LanguageServerConstants DEF IndInv, TypeOK
  <1>5. /\ timer' = timer \/ (timer' = descriptor /\ desired # None)
        /\ restartExhausted' \in {restartExhausted, TRUE} /\ closing' \in {closing, FALSE}
    BY DEF SeesState, Closed, ScheduleRestart, RestartBlocked
  <1>6. TypeOK'
    <2>1. (ActivationTypes /\ BudgetTypes)'
      BY <1>1, Types DEF IndInv, ActivationTypes, BudgetTypes
    <2>2. RestartTypes'
      BY <1>1, <1>4, <1>5 DEF IndInv, TypeOK, RestartTypes
    <2>3. (ChainTypes /\ WireTypes)'
      BY <1>1, <1>2, Types DEF IndInv, ChainTypes, WireTypes
    <2>4. ManagerTypes'
      BY <1>1, Types DEF IndInv, ManagerTypes, manager
    <2> QED BY <2>1, <2>2, <2>3, <2>4, TypesNext
  <1>7. Current'
    BY <1>1, <1>5 DEF IndInv, Current, TypeOK
  <1>8. Asked' = Asked
    BY <1>1 DEF Asked
  <1>9. (Askers /\ Managed /\ NoOrphan /\ Remembered)'
    BY <1>1 DEF IndInv, Askers, Managed, NoOrphan, Remembered, manager, Alive
  <1>10. OneCall'
    BY <1>1, <1>2, <1>8 DEF IndInv, OneCall, manager
  <1>11. Truthful'
    <2>1. \A i \in Answered' :
             \/ toBrowser'[i].kind = "state" /\ toBrowser'[i].value \in Up
             \/ toBrowser'[i].kind = "start" /\ toBrowser'[i].value = "ok"
             \/ state \notin Up
      BY <1>2 DEF IndInv, Truthful
    <2>2. UNCHANGED <<state, starting, process, child, chain, toBackend>>
      BY <1>1 DEF manager
    <2> QED BY <1>8, <2>1, <2>2 DEF IndInv, Truthful
  <1> QED BY <1>6, <1>7, <1>9, <1>10, <1>11 DEF IndInv

-----------------------------------------------------------------------------
(* The backend                                                             *)

(* What the browser keeps, while the backend works.                        *)
LEMMA BrowserStays ==
    ASSUME IndInv, UNCHANGED <<activation, restarts, transitions, closing>>
    PROVE  (ActivationTypes /\ RestartTypes /\ ChainTypes)' /\ Current'
  BY Types DEF IndInv, activation, restarts, transitions, ActivationTypes, RestartTypes, ChainTypes,
     Current

(* The manager answers with its state.                                     *)
LEMMA ServeStateOK == ASSUME IndInv, ServeState PROVE IndInv'
  <1> USE DEF transitions, wires, manager
  <1> DEFINE r == [kind |-> "state", to |-> Call1.by, value |-> state]
             m == Reply("state", Call1.by, state)
  <1>1. /\ UNCHANGED <<activation, restarts, transitions, closing>> /\ UNCHANGED <<manager, budget>>
        /\ toBackend # <<>> /\ toBackend' = Tail(toBackend) /\ Call1.call = "state"
        /\ toBrowser' = toBrowser \o m
    BY DEF ServeState, Takes, Say
  <1>2. /\ toBackend' \in Seq(Calls) /\ Call1 \in Calls
        /\ \E j \in DOMAIN toBackend : Call1 = toBackend[j] /\ (Call1.by = "chain" => j \in Asked)
        /\ \A i \in DOMAIN toBackend' : \E j \in DOMAIN toBackend : toBackend'[i] = toBackend[j]
        /\ \A i \in Asked' : /\ Asked' = {i}
                             /\ \E j \in Asked : toBackend'[i] = toBackend[j]
        /\ Call1.by = "chain" \/ Asked = {} => Asked' = {}
    BY <1>1, TakeCall
  <1>3. Call1.by \in {"chain", "restart", "close"} /\ state \in Values
    BY <1>2 DEF Calls, IndInv, TypeOK, Values
  <1>4. Carries(m, r) /\ (Call1.by # "chain" => Silent(m))
    BY <1>3, ReplyCarries
  <1>5. r.kind = "state" /\ r.value = state
    OBVIOUS
  <1> HIDE DEF m, r
  <1>6. Call1.by = "chain" => /\ Asked # {} /\ Answered = {} /\ step = "state"
                              /\ starting.stage = "no" /\ "chain" \notin waiters
    BY <1>1, <1>2 DEF IndInv, OneCall
  <1>7. /\ toBrowser' \in Seq(Messages)
        /\ \A i \in Answered' :
              /\ Answered' = {i}
              /\ \/ \E j \in Answered : toBrowser'[i] = toBrowser[j]
                 \/ toBrowser'[i] = r /\ Call1.by = "chain"
        /\ Call1.by # "chain" /\ Answered = {} => Answered' = {}
    BY <1>1, <1>4, <1>6, MakeAnswer
  <1>8. TypeOK'
    <2>1. (ManagerTypes /\ BudgetTypes)'
      BY <1>1, Types DEF IndInv, ManagerTypes, BudgetTypes, budget
    <2> QED BY <1>1, <1>2, <1>7, <2>1, BrowserStays, TypesNext DEF WireTypes
  <1>9. (Askers /\ Managed /\ NoOrphan /\ Remembered)'
    BY <1>1, <1>2 DEF IndInv, Askers, Managed, NoOrphan, Remembered, activation, Alive
  <1>10. OneCall'
    BY <1>1, <1>2, <1>5, <1>6, <1>7 DEF IndInv, OneCall
  <1>11. Truthful'
    <2>1. \A i \in Answered' :
             \/ toBrowser'[i].kind = "state" /\ toBrowser'[i].value \in Up
             \/ toBrowser'[i].kind = "start" /\ toBrowser'[i].value = "ok"
             \/ state \notin Up
      BY <1>5, <1>7 DEF IndInv, Truthful
    <2>2. \A i \in Asked' : toBackend'[i].call = "start" =>
             toBackend'[i].key = Head(chain).key /\ state \notin Up
      BY <1>2 DEF IndInv, Truthful
    <2>3. UNCHANGED <<state, starting, process, child, chain>>
      BY <1>1
    <2> QED BY <2>1, <2>2, <2>3 DEF IndInv, Truthful
  <1> QED BY <1>1, <1>8, <1>9, <1>10, <1>11, BrowserStays DEF IndInv

(* A start is taken up: the installation is to be inspected.               *)
LEMMA ServeStartOK == ASSUME IndInv, ServeStart PROVE IndInv'
  <1> USE DEF transitions, wires
  <1>1. /\ UNCHANGED <<activation, restarts, transitions, closing>> /\ UNCHANGED budget
        /\ UNCHANGED <<toBrowser, state, process, stopping, waiters, child>>
        /\ toBackend # <<>> /\ toBackend' = Tail(toBackend) /\ Call1.call = "start"
        /\ starting' = [stage |-> "inspecting", key |-> Call1.key, child |-> NoProcess]
    BY DEF ServeStart, Takes
  <1>2. /\ toBackend' \in Seq(Calls) /\ Call1 \in Calls
        /\ \E j \in DOMAIN toBackend : Call1 = toBackend[j] /\ (Call1.by = "chain" => j \in Asked)
        /\ \A i \in DOMAIN toBackend' : \E j \in DOMAIN toBackend : toBackend'[i] = toBackend[j]
        /\ Call1.by = "chain" => Asked' = {}
    BY <1>1, TakeCall
  <1>3. Call1.by = "chain" /\ Call1.key \in Projects
    BY <1>1, <1>2 DEF IndInv, Askers
  <1>4. PICK j \in Asked : Call1 = toBackend[j]
    BY <1>2, <1>3
  <1>5. /\ step = "start" /\ Answered = {} /\ starting.stage = "no" /\ "chain" \notin waiters
        /\ Call1.key = Head(chain).key /\ state \notin Up
    BY <1>1, <1>4 DEF IndInv, OneCall, Truthful
  <1>6. Answered' = {} /\ Asked' = {}
    BY <1>1, <1>2, <1>3, <1>5 DEF Answered
  <1>7. starting'.stage = "inspecting" /\ starting'.key = Call1.key
    BY <1>1
  <1>8. TypeOK'
    <2>1. (ManagerTypes /\ BudgetTypes)'
      BY <1>1, <1>3, Types DEF IndInv, ManagerTypes, BudgetTypes, budget
    <2>2. WireTypes'
      BY <1>1, <1>2, Types DEF IndInv, WireTypes
    <2> QED BY <1>1, <2>1, <2>2, BrowserStays, TypesNext
  <1>9. (Askers /\ NoOrphan /\ Remembered)'
    BY <1>1, <1>2, <1>5 DEF IndInv, Askers, NoOrphan, Remembered
  <1>10. Managed'
    BY <1>1, <1>7 DEF IndInv, Managed, Alive
  <1>11. OneCall'
    BY <1>1, <1>3, <1>5, <1>6, <1>7 DEF IndInv, OneCall
  <1>12. Truthful'
    BY <1>1, <1>5, <1>6, <1>7 DEF Truthful
  <1> QED BY <1>1, <1>8, <1>9, <1>10, <1>11, <1>12, BrowserStays DEF IndInv

(* Any other step of the backend: it starts a start of its own never, and  *)
(* answers the chain only what it waits for and what the state confirms.   *)
LEMMA BackendStep ==
    ASSUME IndInv, ManagerTypes', BudgetTypes', Managed', NoOrphan',
           UNCHANGED <<activation, restarts, transitions, closing>>,
           NEW m, NEW r, Carries(m, r), toBrowser' = toBrowser \o m,
           toBackend' \in Seq(Calls), Askers',
           \A i \in Asked' : Asked' = {i} /\ \E j \in Asked : toBackend'[i] = toBackend[j],
           starting'.stage # "no" => /\ starting.stage # "no" /\ starting'.key = starting.key
                                     /\ starting'.key \in Projects,
           starting'.stage \in {"inspecting", "resolving"} => state' \notin Up,
           starting'.stage = "initializing" => child'[process'].key = starting'.key,
           state' \in Up =>
               \/ state \in Up /\ child'[process'].key = child[process].key
               \/ starting.stage # "no" /\ child'[process'].key = starting.key,
           "chain" \in waiters' => \/ "chain" \in waiters
                                   \/ step = "stop" /\ Asked # {} /\ Asked' = {},
           ~Silent(m) => /\ r.kind = step /\ Answered = {} /\ Asked' = {}
                         /\ starting'.stage = "no" /\ "chain" \notin waiters'
                         /\ (r.kind = "start" /\ r.value = "ok") \/ state' \notin Up
    PROVE  IndInv'
  <1>1. UNCHANGED <<chain, step, lastKey>>
    BY DEF activation, transitions
  <1>2. Asked = {} => Asked' = {}
    OBVIOUS
  <1>3. /\ toBrowser' \in Seq(Messages)
        /\ Silent(m) \/ Answered = {} =>
              \A i \in Answered' :
                 /\ Answered' = {i}
                 /\ \/ \E j \in Answered : toBrowser'[i] = toBrowser[j]
                    \/ toBrowser'[i] = r /\ ~Silent(m)
        /\ Silent(m) /\ Answered = {} => Answered' = {}
    BY MakeAnswer
  <1>4. /\ \A i \in Answered' :
              /\ Answered' = {i}
              /\ \/ \E j \in Answered : toBrowser'[i] = toBrowser[j]
                 \/ toBrowser'[i] = r /\ ~Silent(m)
        /\ Silent(m) /\ Answered = {} => Answered' = {}
    BY <1>3
  <1>5. TypeOK'
    BY <1>3, BrowserStays, TypesNext DEF WireTypes
  <1>6. starting'.stage # "no" => /\ step = "start" /\ Asked = {} /\ Answered = {}
                                  /\ Asked' = {} /\ Answered' = {} /\ "chain" \notin waiters
                                  /\ starting'.key = Head(chain).key
    BY <1>2, <1>4 DEF IndInv, OneCall, Truthful
  <1>7. "chain" \in waiters' => step = "stop" /\ Asked' = {} /\ Answered' = {}
    BY <1>2, <1>4 DEF IndInv, OneCall
  <1>8. OneCall'
    <2>1. step' # "idle" => chain' # <<>>
      BY <1>1 DEF IndInv, OneCall
    <2>2. \A i \in Asked' : toBackend'[i].call = step /\ Asked' = {i}
      BY DEF IndInv, OneCall
    <2>3. \A i \in Answered' : toBrowser'[i].kind = step /\ Answered' = {i}
      BY <1>4 DEF IndInv, OneCall
    <2>4. Asked' = {} \/ Answered' = {}
      BY <1>2, <1>4 DEF IndInv, OneCall
    <2> QED BY <1>1, <1>6, <1>7, <2>1, <2>2, <2>3, <2>4 DEF OneCall
  <1>9. state' \in Up /\ state \notin Up => Asked' = {} /\ Answered = {}
    BY <1>2 DEF IndInv, OneCall
  <1>10. Truthful'
    <2>1. \A i \in Asked' : toBackend'[i].call = "start" =>
             toBackend'[i].key = Head(chain).key /\ state' \notin Up
      BY <1>9 DEF IndInv, Truthful
    <2>2. \A i \in Answered' :
             \/ toBrowser'[i].kind = "state" /\ toBrowser'[i].value \in Up
             \/ toBrowser'[i].kind = "start" /\ toBrowser'[i].value = "ok"
             \/ state' \notin Up
      BY <1>4, <1>9 DEF IndInv, Truthful
    <2> QED BY <1>1, <1>6, <2>1, <2>2 DEF Truthful
  <1>11. Remembered'
    <2>1. starting.stage # "no" => step = "start" /\ starting.key = Head(chain).key
      BY DEF IndInv, OneCall, Truthful
    <2> QED BY <1>1, <2>1 DEF IndInv, Remembered
  <1> QED BY <1>5, <1>8, <1>10, <1>11, BrowserStays DEF IndInv

(* What is known of the calls stays while their wire does.                 *)
LEMMA SameCalls ==
    ASSUME IndInv, toBackend' = toBackend
    PROVE  /\ toBackend' \in Seq(Calls) /\ Askers' /\ Asked' = Asked
           /\ \A i \in Asked' : Asked' = {i} /\ \E j \in Asked : toBackend'[i] = toBackend[j]
  BY DEF IndInv, TypeOK, Askers, Asked, OneCall

(* A wire that stays has nothing added to it.                              *)
LEMMA NothingSaid ==
    ASSUME IndInv, toBrowser' = toBrowser PROVE toBrowser' = toBrowser \o <<>>
  <1>1. toBrowser \in Seq(Messages)
    BY DEF IndInv, TypeOK
  <1> QED BY <1>1

(* While a start is worked on, nothing else is under way for the chain.    *)
LEMMA Starting ==
    ASSUME IndInv, starting.stage # "no"
    PROVE  /\ step = "start" /\ Asked = {} /\ Answered = {} /\ "chain" \notin waiters
           /\ starting.key \in Projects /\ starting.key = Head(chain).key
  BY DEF IndInv, OneCall, Truthful

(* The start is answered.                                                  *)
LEMMA StartReply ==
    ASSUME IndInv, starting.stage # "no", starting' = Idle,
           NEW m, NEW v, Carries(m, [kind |-> "start", to |-> "chain", value |-> v]),
           toBrowser' = toBrowser \o m,
           UNCHANGED <<activation, restarts, transitions, closing, toBackend>>,
           ManagerTypes', BudgetTypes', Managed', NoOrphan',
           v = "ok" \/ state' \notin Up,
           state' \in Up => \/ state \in Up /\ child'[process'].key = child[process].key
                            \/ child'[process'].key = starting.key,
           "chain" \in waiters' => "chain" \in waiters
    PROVE  IndInv'
  <1> DEFINE r == [kind |-> "start", to |-> "chain", value |-> v]
  <1>1. r.kind = "start" /\ r.value = v /\ starting'.stage = "no"
    BY DEF Idle
  <1>2. Carries(m, r)
    OBVIOUS
  <1> HIDE DEF r
  <1>3. UNCHANGED <<activation, restarts, transitions, closing>> /\ UNCHANGED toBackend
    OBVIOUS
  <1> QED BY <1>1, <1>2, <1>3, SameCalls, Starting, BackendStep

(* The backend says nothing to the chain, and a start goes on.             *)
LEMMA SilentStep ==
    ASSUME IndInv, NEW m, Silent(m), toBrowser' = toBrowser \o m,
           UNCHANGED <<activation, restarts, transitions, closing, toBackend>>,
           ManagerTypes', BudgetTypes', Managed', NoOrphan',
           starting'.stage # "no" => starting.stage # "no" /\ starting'.key = starting.key,
           starting'.stage \in {"inspecting", "resolving"} => state' \notin Up,
           starting'.stage = "initializing" => child'[process'].key = starting'.key,
           state' \in Up => \/ state \in Up /\ child'[process'].key = child[process].key
                            \/ starting.stage # "no" /\ child'[process'].key = starting.key,
           "chain" \in waiters' => "chain" \in waiters
    PROVE  IndInv'
  <1>1. UNCHANGED <<activation, restarts, transitions, closing>> /\ UNCHANGED toBackend
    OBVIOUS
  <1>2. Carries(m, StopOf)
    BY SilentCarries
  <1> QED BY <1>1, <1>2, SameCalls, Starting, BackendStep

(* The installation was inspected, or could not be: the states decide.     *)
LEMMA InspectedOK == ASSUME IndInv, Inspected \/ NotInspected PROVE IndInv'
  <1> USE DEF budget
  <1>1. /\ UNCHANGED <<activation, restarts, transitions, closing, toBackend>>
        /\ UNCHANGED <<state, process, stopping, waiters, child>>
        /\ starting.stage = "inspecting" /\ state \notin Up
    BY DEF Inspected, NotInspected, IndInv, Truthful
  <1>2. \/ failures' = failures
        \/ failures < MaxFailures /\ failures' = failures + 1
    BY DEF Inspected, NotInspected, Fail
  <1>3. UNCHANGED <<changes, crashes, closed>>
    BY DEF Inspected, NotInspected
  <1>4. BudgetTypes'
    BY <1>2, <1>3, LanguageServerConstants DEF IndInv, TypeOK, BudgetTypes
  <1>5. NoOrphan'
    BY <1>1 DEF IndInv, NoOrphan
  <1>6. CASE starting' = Idle /\ Say(Reply("start", "chain", "refused"))
    <2>1. Carries(Reply("start", "chain", "refused"), [kind |-> "start", to |-> "chain", value |-> "refused"])
      BY ReplyCarries DEF Values
    <2>2. ManagerTypes'
      BY <1>1, <1>6, Types DEF IndInv, ManagerTypes, Idle
    <2>3. Managed'
      BY <1>1, <1>6 DEF IndInv, Managed, Idle, Alive
    <2> QED BY <1>1, <1>4, <1>5, <1>6, <2>1, <2>2, <2>3, StartReply DEF Say
  <1>7. CASE /\ starting' = [starting EXCEPT !.stage = "resolving"] /\ UNCHANGED toBrowser
             /\ ~(state = "stopping" \/ stopping # AtRest)
    <2>1. starting \in [stage : {"no", "inspecting", "resolving", "initializing"},
                        key : Projects \cup {None}, child : {NoProcess} \cup Children]
      BY DEF IndInv, TypeOK
    <2>2. /\ starting' \in [stage : {"no", "inspecting", "resolving", "initializing"},
                             key : Projects \cup {None}, child : {NoProcess} \cup Children]
          /\ starting'.stage = "resolving" /\ starting'.key = starting.key
      BY <1>7, <2>1
    <2>3. ManagerTypes'
      BY <1>1, <2>2, Types DEF IndInv, ManagerTypes
    <2>4. process = NoProcess /\ stopping = AtRest
      BY <1>1, <1>7 DEF IndInv, Managed
    <2>5. Managed'
      BY <1>1, <2>2, <2>4 DEF IndInv, Managed, Alive
    <2> QED BY <1>1, <1>4, <1>5, <1>7, <2>2, <2>3, <2>5, EmptyIsSilent, NothingSaid, SilentStep
  <1> QED BY <1>1, <1>6, <1>7 DEF Inspected, NotInspected

(* The descriptor was resolved and the child is spawned.                   *)
LEMMA ResolvedOK == ASSUME IndInv, Resolved PROVE IndInv'
  <1> USE DEF wires, budget
  <1>1. /\ UNCHANGED <<activation, restarts, transitions, closing, toBackend>>
        /\ UNCHANGED <<toBrowser, stopping, waiters, budget>>
        /\ starting.stage = "resolving" /\ state' = "initializing"
    BY DEF Resolved
  <1>2. PICK c \in Children :
            /\ Unused(c)
            /\ child' = [child EXCEPT ![c] = [key |-> starting.key, fate |-> "running"]]
            /\ process' = c
            /\ starting' = [starting EXCEPT !.stage = "initializing", !.child = c]
    BY DEF Resolved
  <1>3. /\ step = "start" /\ starting.key \in Projects /\ "chain" \notin waiters
        /\ process = NoProcess /\ stopping = AtRest
    BY <1>1, Starting DEF IndInv, Managed
  <1>4. child \in [Children -> [key : Projects, fate : Fates] \cup {Free}]
        /\ starting \in [stage : {"no", "inspecting", "resolving", "initializing"},
                         key : Projects \cup {None}, child : {NoProcess} \cup Children]
    BY DEF IndInv, TypeOK
  <1>5. /\ child' \in [Children -> [key : Projects, fate : Fates] \cup {Free}]
        /\ child'[c].key = starting.key /\ child'[c].fate = "running"
        /\ \A b \in Children : b # c => child'[b] = child[b]
        /\ starting' \in [stage : {"no", "inspecting", "resolving", "initializing"},
                          key : Projects \cup {None}, child : {NoProcess} \cup Children]
        /\ starting'.stage = "initializing" /\ starting'.key = starting.key /\ starting'.child = c
    BY <1>2, <1>3, <1>4 DEF Fates
  <1>6. ManagerTypes'
    BY <1>1, <1>2, <1>5, Types DEF IndInv, ManagerTypes, States, Up
  <1>7. BudgetTypes'
    BY <1>1, Types DEF IndInv, BudgetTypes
  <1>8. c # NoProcess
    BY DEF Children, NoProcess
  <1>9. Managed'
    BY <1>1, <1>2, <1>3, <1>5, <1>8 DEF Managed, Alive, Up, AtRest
  <1>10. NoOrphan'
    BY <1>2, <1>3, <1>5 DEF IndInv, NoOrphan, Children, NoProcess
  <1> QED BY <1>1, <1>2, <1>3, <1>5, <1>6, <1>7, <1>9, <1>10, EmptyIsSilent, NothingSaid, SilentStep

(* The descriptor could not be resolved.                                   *)
LEMMA NotResolvedOK == ASSUME IndInv, NotResolved PROVE IndInv'
  <1> USE DEF budget
  <1>1. /\ UNCHANGED <<activation, restarts, transitions, closing, toBackend>>
        /\ UNCHANGED <<process, stopping, waiters, child, changes, crashes, closed>>
        /\ starting.stage = "resolving" /\ starting' = Idle /\ state' = "failed"
        /\ failures < MaxFailures /\ failures' = failures + 1
    BY DEF NotResolved, Fail
  <1> DEFINE t == IF state = "failed" THEN <<>> ELSE Told(<<"failed">>)
             m == t \o Reply("start", "chain", "refused")
             r == [kind |-> "start", to |-> "chain", value |-> "refused"]
  <1>2. toBrowser' = toBrowser \o m
    BY DEF NotResolved, Say
  <1>3. Silent(Told(<<"failed">>))
    <2>1. <<"failed">> \in Seq(States)
      BY DEF States
    <2> QED BY <2>1, ToldIsSilent
  <1>4. Silent(t)
    BY <1>3, EmptyIsSilent
  <1>5. Carries(Reply("start", "chain", "refused"), r)
    BY ReplyCarries DEF Values
  <1> HIDE DEF t
  <1>6. Carries(m, r)
    BY <1>4, <1>5, JoinCarries
  <1> HIDE DEF m
  <1>7. process = NoProcess
    BY <1>1 DEF IndInv, Managed
  <1>8. ManagerTypes'
    BY <1>1, Types DEF IndInv, ManagerTypes, Idle, States
  <1>9. BudgetTypes'
    BY <1>1, LanguageServerConstants DEF IndInv, TypeOK, BudgetTypes
  <1>10. Managed'
    BY <1>1, <1>7 DEF IndInv, Managed, Idle, Alive, Up
  <1>11. NoOrphan'
    BY <1>1 DEF IndInv, NoOrphan
  <1>12. state' \notin Up /\ starting.stage # "no"
    BY <1>1 DEF Up
  <1> QED BY <1>1, <1>2, <1>6, <1>8, <1>9, <1>10, <1>11, <1>12, StartReply

(* The child answered initialize.                                          *)
LEMMA InitializedOK == ASSUME IndInv, Initialized PROVE IndInv'
  <1> USE DEF budget
  <1>1. /\ UNCHANGED <<activation, restarts, transitions, closing, toBackend>>
        /\ UNCHANGED <<process, stopping, waiters, child, budget>>
        /\ starting.stage = "initializing" /\ starting' = Idle /\ state' = "ready"
        /\ toBrowser' = toBrowser \o Reply("start", "chain", "ok")
    BY DEF Initialized, Say
  <1>2. Carries(Reply("start", "chain", "ok"), [kind |-> "start", to |-> "chain", value |-> "ok"])
    BY ReplyCarries DEF Values
  <1>3. process # NoProcess /\ child[process].key = starting.key
    BY <1>1 DEF IndInv, Managed, Truthful
  <1>4. ManagerTypes'
    BY <1>1, Types DEF IndInv, ManagerTypes, Idle, States, Up
  <1>5. BudgetTypes'
    BY <1>1, Types DEF IndInv, BudgetTypes
  <1>6. Managed'
    BY <1>1, <1>3 DEF IndInv, Managed, Idle, Alive, Up
  <1>7. NoOrphan'
    BY <1>1 DEF IndInv, NoOrphan
  <1>8. child'[process'].key = starting.key /\ starting.stage # "no"
    BY <1>1, <1>3
  <1> QED BY <1>1, <1>2, <1>4, <1>5, <1>6, <1>7, <1>8, StartReply

(* A child that the manager lets go of is signalled, or has refused.       *)
LEMMA LetGo ==
    ASSUME IndInv, NEW f \in Fates \ {"running"}, process # NoProcess,
           child' = [child EXCEPT ![process].fate = f]
    PROVE  /\ child' \in [Children -> [key : Projects, fate : Fates] \cup {Free}]
           /\ child'[process].fate = f
           /\ \A b \in Children : child'[b].fate = "running" => FALSE
           /\ \A b \in Children : child[b].fate # "running" => child'[b].fate # "running"
  <1>1. process \in Children /\ child[process].fate # "free"
    BY DEF IndInv, TypeOK, Managed, Alive
  <1>2. child \in [Children -> [key : Projects, fate : Fates] \cup {Free}]
    BY DEF IndInv, TypeOK
  <1>3. child[process] \in [key : Projects, fate : Fates]
    BY <1>1, <1>2 DEF Free
  <1> DEFINE d == [child[process] EXCEPT !.fate = f]
  <1>4. d \in [key : Projects, fate : Fates] /\ d.fate = f
    BY <1>3
  <1>5. child' = [child EXCEPT ![process] = d]
    OBVIOUS
  <1> HIDE DEF d
  <1>6. /\ child' \in [Children -> [key : Projects, fate : Fates] \cup {Free}]
        /\ child'[process] = d /\ \A b \in Children : b # process => child'[b] = child[b]
    BY <1>1, <1>2, <1>4, <1>5
  <1> QED BY <1>4, <1>6 DEF IndInv, NoOrphan

(* The child refused initialize, or did not answer in time.                *)
LEMMA InitializeFailsOK ==
    ASSUME IndInv, InitializeRefused \/ InitializeTimeout PROVE IndInv'
  <1> USE DEF budget
  <1> DEFINE p == Reply("start", "chain", "refused")
             m == Told(<<"failed">>) \o p
             r == [kind |-> "start", to |-> "chain", value |-> "refused"]
  <1>1. /\ UNCHANGED <<activation, restarts, transitions, closing, toBackend>>
        /\ UNCHANGED <<stopping, waiters, changes, crashes, closed>>
        /\ starting.stage = "initializing" /\ starting' = Idle
        /\ failures < MaxFailures /\ failures' = failures + 1
    BY DEF InitializeRefused, InitializeTimeout, Fail
  <1>2. process # NoProcess /\ starting.child = process
    BY <1>1 DEF IndInv, Managed
  <1>3. \/ state = "stopping" /\ toBrowser' = toBrowser \o p /\ UNCHANGED <<state, process, child>>
        \/ /\ toBrowser' = toBrowser \o m /\ state' = "failed" /\ process' = NoProcess
           /\ \E f \in Fates \ {"running"} : child' = [child EXCEPT ![process].fate = f]
    <2>1. "refused" \in Fates \ {"running"} /\ "kill" \in Fates \ {"running"}
      BY DEF Fates
    <2> QED BY <1>2, <2>1 DEF InitializeRefused, InitializeTimeout, Say
  <1>4. Carries(p, r)
    BY ReplyCarries DEF Values
  <1>5. Silent(Told(<<"failed">>))
    <2>1. <<"failed">> \in Seq(States)
      BY DEF States
    <2> QED BY <2>1, ToldIsSilent
  <1> HIDE DEF p
  <1>6. Carries(m, r)
    BY <1>4, <1>5, JoinCarries
  <1> HIDE DEF m
  <1>7. BudgetTypes'
    BY <1>1, LanguageServerConstants DEF IndInv, TypeOK, BudgetTypes
  <1>8. CASE state = "stopping" /\ toBrowser' = toBrowser \o p /\ UNCHANGED <<state, process, child>>
    <2>1. ManagerTypes'
      BY <1>1, <1>8, Types DEF IndInv, ManagerTypes, Idle
    <2>2. Managed' /\ NoOrphan'
      BY <1>1, <1>8 DEF IndInv, Managed, NoOrphan, Idle, Alive
    <2>3. state' \notin Up /\ starting.stage # "no"
      BY <1>1, <1>8 DEF Up
    <2> QED BY <1>1, <1>4, <1>7, <1>8, <2>1, <2>2, <2>3, StartReply
  <1>9. CASE /\ toBrowser' = toBrowser \o m /\ state' = "failed" /\ process' = NoProcess
             /\ \E f \in Fates \ {"running"} : child' = [child EXCEPT ![process].fate = f]
    <2>1. /\ child' \in [Children -> [key : Projects, fate : Fates] \cup {Free}]
          /\ \A b \in Children : child'[b].fate # "running"
      BY <1>2, <1>9, LetGo
    <2>2. ManagerTypes'
      BY <1>1, <1>9, <2>1, Types DEF IndInv, ManagerTypes, Idle, States
    <2>3. stopping.phase \in {"term", "kill"} => stopping.child \in Children
      BY DEF IndInv, Managed, AtRest
    <2>4. Managed' /\ NoOrphan'
      BY <1>1, <1>9, <2>1, <2>3 DEF IndInv, Managed, NoOrphan, Idle, Up
    <2>5. state' \notin Up /\ starting.stage # "no"
      BY <1>1, <1>9 DEF Up
    <2> QED BY <1>1, <1>6, <1>7, <1>9, <2>2, <2>4, <2>5, StartReply
  <1> QED BY <1>3, <1>8, <1>9

(* The manager begins a stop, joins one or finds nothing to stop.          *)
LEMMA ServeStopOK == ASSUME IndInv, ServeStop PROVE IndInv'
  <1> USE DEF budget
  <1>1. /\ UNCHANGED <<activation, restarts, transitions, closing>>
        /\ UNCHANGED <<process, starting, child, budget>>
        /\ toBackend # <<>> /\ toBackend' = Tail(toBackend) /\ Call1.call = "stop"
    BY DEF ServeStop, Takes
  <1>2. /\ toBackend' \in Seq(Calls)
        /\ \E j \in DOMAIN toBackend : Call1 = toBackend[j] /\ (Call1.by = "chain" => j \in Asked)
        /\ \A i \in DOMAIN toBackend' : \E j \in DOMAIN toBackend : toBackend'[i] = toBackend[j]
        /\ \A i \in Asked' : /\ Asked' = {i}
                             /\ \E j \in Asked : toBackend'[i] = toBackend[j]
        /\ Call1.by = "chain" => Asked' = {}
    BY <1>1, TakeCall
  <1>3. Call1.by \in {"chain", "close"}
    BY <1>1, <1>2 DEF IndInv, Askers
  <1>4. Call1.by = "chain" => /\ step = "stop" /\ Asked # {} /\ Asked' = {} /\ Answered = {}
                              /\ starting.stage = "no" /\ "chain" \notin waiters
    BY <1>1, <1>2 DEF IndInv, OneCall
  <1>5. Askers'
    BY <1>2 DEF IndInv, Askers
  <1>6. BudgetTypes' /\ NoOrphan'
    BY <1>1, Types DEF IndInv, BudgetTypes, NoOrphan
  <1>7. starting.stage # "no" => starting.key \in Projects
    BY Starting
  <1> DEFINE atOnce == stopping = AtRest /\ (process = NoProcess \/ state \in {"stopped", "uninitialized"})
  <1>8. CASE atOnce
    <2>1. /\ toBrowser' = toBrowser \o Stopped({Call1.by}) /\ UNCHANGED <<stopping, waiters>>
          /\ state' \in {"stopped", "uninitialized"}
      BY <1>8 DEF ServeStop, Say
    <2>2. process = NoProcess
      BY <1>8 DEF IndInv, Managed, Up
    <2>3. ManagerTypes'
      BY <1>1, <2>1, Types DEF IndInv, ManagerTypes, States
    <2>4. Managed'
      BY <1>1, <2>1, <2>2 DEF IndInv, Managed, Up, Alive
    <2>5. Carries(Stopped({Call1.by}), StopOf) /\ (Call1.by # "chain" => Silent(Stopped({Call1.by})))
      BY StoppedCarries
    <2>6. state' \notin Up /\ StopOf.kind = "stop" /\ starting.stage # "initializing"
      BY <2>1, <2>2 DEF Up, StopOf, IndInv, Managed
    <2> QED BY <1>1, <1>2, <1>4, <1>5, <1>6, <1>7, <2>1, <2>3, <2>4, <2>5, <2>6, BackendStep
  <1>9. CASE ~atOnce
    <2>1. /\ toBrowser' = toBrowser /\ waiters' = waiters \cup {Call1.by}
          /\ \/ stopping = AtRest /\ state' = "stopping" /\ stopping' = [phase |-> "shutdown", child |-> process]
             \/ stopping # AtRest /\ UNCHANGED <<state, stopping>>
      BY <1>9 DEF ServeStop
    <2>2. toBrowser' = toBrowser \o <<>> /\ Silent(<<>>) /\ Carries(<<>>, StopOf)
      BY <2>1, NothingSaid, EmptyIsSilent, SilentCarries
    <2>3. stopping = AtRest => process \in Children /\ process # NoProcess
      BY <1>9 DEF IndInv, TypeOK
    <2>4. stopping' \in [phase : {"no", "shutdown", "term", "kill"}, child : {NoProcess} \cup Children]
          /\ state' \in States
      BY <2>1 DEF IndInv, TypeOK, States
    <2>5. ManagerTypes'
      BY <1>1, <1>3, <2>1, <2>4, Types DEF IndInv, ManagerTypes
    <2>6. CASE stopping = AtRest
      <3>1. /\ stopping'.phase = "shutdown" /\ stopping'.child = process /\ stopping' # AtRest
            /\ state' = "stopping"
        BY <2>1, <2>6 DEF AtRest
      <3>2. Managed'
        BY <1>1, <2>3, <2>6, <3>1 DEF IndInv, Managed, Up, Alive
      <3>3. state' \notin Up
        BY <3>1 DEF Up
      <3>4. starting.stage = "initializing" => child'[process'].key = starting.key
        BY <1>1 DEF IndInv, Truthful
      <3> QED BY <1>1, <1>2, <1>4, <1>5, <1>6, <1>7, <2>1, <2>2, <2>5, <3>2, <3>3, <3>4, BackendStep
    <2>7. CASE stopping # AtRest
      <3>1. UNCHANGED <<state, stopping>>
        BY <2>1, <2>7
      <3>2. Managed'
        BY <1>1, <3>1 DEF IndInv, Managed, Alive
      <3>3. /\ starting.stage = "initializing" => child'[process'].key = starting.key
            /\ starting.stage \in {"inspecting", "resolving"} => state' \notin Up
        BY <1>1, <3>1 DEF IndInv, Truthful
      <3>4. state' \in Up => state \in Up /\ child'[process'].key = child[process].key
        BY <1>1, <3>1
      <3> QED BY <1>1, <1>2, <1>4, <1>5, <1>6, <1>7, <2>1, <2>2, <2>5, <3>2, <3>3, <3>4, BackendStep
    <2> QED BY <2>6, <2>7
  <1> QED BY <1>8, <1>9

(* A signal changes the fate of one child only.                            *)
LEMMA Signal ==
    ASSUME IndInv, NEW c \in Children, NEW f \in {"term", "kill"}, child' = Signalled(c, f)
    PROVE  /\ child' \in [Children -> [key : Projects, fate : Fates] \cup {Free}]
           /\ child'[c].fate # "running"
           /\ \A b \in Children : /\ child'[b].key = child[b].key
                                  /\ child'[b].fate = "running" => child[b].fate = "running"
                                  /\ child'[b].fate = "free" => child[b].fate = "free"
  <1>1. child \in [Children -> [key : Projects, fate : Fates] \cup {Free}]
    BY DEF IndInv, TypeOK
  <1>2. CASE Alive(c)
    <2>1. child[c] \in [key : Projects, fate : Fates]
      BY <1>1, <1>2 DEF Alive, Free
    <2> DEFINE d == [child[c] EXCEPT !.fate = f]
    <2>2. d \in [key : Projects, fate : Fates] /\ d.fate = f /\ d.key = child[c].key
      BY <2>1 DEF Fates
    <2>3. child' = [child EXCEPT ![c] = d]
      BY <1>2 DEF Signalled
    <2> HIDE DEF d
    <2> QED BY <1>1, <2>2, <2>3
  <1>3. CASE ~Alive(c)
    BY <1>1, <1>3 DEF Alive, Signalled
  <1> QED BY <1>2, <1>3

(* The polite request, or the grace period, is over and a signal is sent.  *)
LEMMA SignalOK == ASSUME IndInv, ShutdownOver \/ GraceOver PROVE IndInv'
  <1> USE DEF wires, budget
  <1>1. /\ UNCHANGED <<activation, restarts, transitions, closing, toBackend>>
        /\ UNCHANGED <<toBrowser, state, process, starting, waiters, budget>>
        /\ stopping.phase \in {"shutdown", "term"}
        /\ \E f \in {"term", "kill"} : stopping' = [stopping EXCEPT !.phase = f]
    BY DEF ShutdownOver, GraceOver
  <1>2. stopping # AtRest /\ stopping.child \in Children /\ process \in {NoProcess, stopping.child}
    BY <1>1 DEF AtRest, IndInv, Managed
  <1>3. stopping \in [phase : {"no", "shutdown", "term", "kill"}, child : {NoProcess} \cup Children]
    BY DEF IndInv, TypeOK
  <1>4. /\ stopping' \in [phase : {"no", "shutdown", "term", "kill"}, child : {NoProcess} \cup Children]
        /\ stopping'.child = stopping.child /\ stopping' # AtRest
    BY <1>1, <1>3 DEF AtRest
  <1>5. /\ child' \in [Children -> [key : Projects, fate : Fates] \cup {Free}]
        /\ child'[stopping.child].fate # "running"
        /\ \A b \in Children : /\ child'[b].key = child[b].key
                               /\ child'[b].fate = "running" => child[b].fate = "running"
                               /\ child'[b].fate = "free" => child[b].fate = "free"
    <2>1. CASE \E f \in {"term", "kill"} : child' = Signalled(stopping.child, f)
      BY <1>2, <2>1, Signal
    <2>2. CASE child' = child /\ GraceOver
      BY <2>2 DEF GraceOver, IndInv, TypeOK, Managed
    <2> QED BY <2>1, <2>2 DEF ShutdownOver, GraceOver
  <1>6. ManagerTypes'
    BY <1>1, <1>4, <1>5, Types DEF IndInv, ManagerTypes
  <1>7. BudgetTypes'
    BY <1>1, Types DEF IndInv, BudgetTypes
  <1>8. Managed'
    BY <1>1, <1>2, <1>4, <1>5 DEF IndInv, Managed, Alive
  <1>9. NoOrphan'
    BY <1>1, <1>5 DEF IndInv, NoOrphan
  <1>10. /\ starting.stage = "initializing" => child'[process'].key = starting.key
         /\ starting.stage \in {"inspecting", "resolving"} => state' \notin Up
         /\ state' \in Up => state \in Up /\ child'[process'].key = child[process].key
    <2>1. process # NoProcess => child'[process].key = child[process].key
      BY <1>2, <1>5
    <2> QED BY <1>1, <2>1 DEF IndInv, Truthful, Managed
  <1>11. toBrowser' = toBrowser \o <<>> /\ Silent(<<>>)
    BY <1>1, EmptyIsSilent, NothingSaid
  <1>12. UNCHANGED <<activation, restarts, transitions, closing, toBackend>>
    BY <1>1
  <1>13. starting' = starting /\ waiters' = waiters
    BY <1>1
  <1>14. /\ starting'.stage # "no" => starting.stage # "no" /\ starting'.key = starting.key
         /\ starting'.stage \in {"inspecting", "resolving"} => state' \notin Up
         /\ starting'.stage = "initializing" => child'[process'].key = starting'.key
         /\ state' \in Up => \/ state \in Up /\ child'[process'].key = child[process].key
                             \/ starting.stage # "no" /\ child'[process'].key = starting.key
         /\ "chain" \in waiters' => "chain" \in waiters
    BY <1>10, <1>13
  <1> QED BY <1>6, <1>7, <1>8, <1>9, <1>11, <1>12, <1>14, SilentStep

(* A stop is over: those who wait for it are told.                         *)
LEMMA StopReply ==
    ASSUME IndInv, NEW m, toBrowser' = toBrowser \o m,
           Silent(m) \/ ("chain" \in waiters /\ "chain" \notin waiters' /\ Carries(m, StopOf)),
           UNCHANGED <<activation, restarts, transitions, closing, toBackend>>,
           ManagerTypes', BudgetTypes', Managed', NoOrphan', state' \notin Up,
           starting' = starting \/ starting' = Idle, starting'.stage # "initializing",
           waiters' \subseteq waiters
    PROVE  IndInv'
  <1>1. UNCHANGED <<activation, restarts, transitions, closing>> /\ UNCHANGED toBackend
    OBVIOUS
  <1>2. Carries(m, StopOf)
    BY SilentCarries
  <1>3. ~Silent(m) => /\ StopOf.kind = step /\ Answered = {} /\ Asked = {}
                      /\ starting.stage = "no" /\ "chain" \notin waiters'
    BY DEF IndInv, OneCall, StopOf
  <1>4. starting'.stage # "no" => /\ starting.stage # "no" /\ starting' = starting
                                  /\ starting.key \in Projects
    BY Starting DEF Idle
  <1>5. Idle.stage = "no"
    BY DEF Idle
  <1>6. ~Silent(m) => starting'.stage = "no"
    BY <1>3, <1>5
  <1>7. "chain" \in waiters' => "chain" \in waiters
    OBVIOUS
  <1> QED BY <1>1, <1>2, <1>3, <1>4, <1>6, <1>7, SameCalls, BackendStep

(* The wait after the kill is over.                                        *)
LEMMA KillWaitOK == ASSUME IndInv, KillWaitOver PROVE IndInv'
  <1> USE DEF budget
  <1>1. /\ UNCHANGED <<activation, restarts, transitions, closing, toBackend>>
        /\ UNCHANGED <<child, budget>>
        /\ stopping.phase = "kill" /\ stopping' = AtRest /\ waiters' = {}
    BY DEF KillWaitOver
  <1>2. /\ stopping # AtRest /\ stopping.child \in Children /\ process \in {NoProcess, stopping.child}
        /\ child[stopping.child].fate # "running"
    BY <1>1 DEF AtRest, IndInv, Managed
  <1>3. stopping.child # NoProcess
    BY <1>2 DEF Children, NoProcess
  <1>4. BudgetTypes'
    BY <1>1, Types DEF IndInv, BudgetTypes
  <1>5. NoOrphan' /\ process' = NoProcess
    BY <1>1, <1>2 DEF KillWaitOver, IndInv, NoOrphan
  <1>6. Carries(Stopped(waiters), StopOf) /\ ("chain" \notin waiters => Silent(Stopped(waiters)))
    BY StoppedCarries
  <1>7. CASE process = stopping.child
    <2> DEFINE d == Disposed(stopping.child)
               m == d \o Stopped(waiters)
    <2>1. /\ state' = "stopped" /\ toBrowser' = toBrowser \o m
          /\ starting' = StartingWithout(stopping.child)
      BY <1>7 DEF KillWaitOver, Say
    <2>2. /\ Carries(d, DisposedOf)
          /\ ~Interrupted(stopping.child) => Silent(d) /\ starting' = starting
      BY <2>1, DisposedCarries
    <2> HIDE DEF d
    <2>3. starting' = starting \/ starting' = Idle
      BY <2>1 DEF StartingWithout
    <2>4. starting'.stage # "initializing" /\ starting.stage # "resolving"
      BY <1>2, <1>7, <2>1 DEF IndInv, Managed, StartingWithout, Interrupted, Idle
    <2>5. ManagerTypes'
      BY <1>1, <1>5, <2>1, <2>3, Types DEF IndInv, ManagerTypes, Idle, AtRest, States
    <2>6. Managed'
      BY <1>1, <1>5, <2>1, <2>3, <2>4 DEF Managed, Up, AtRest, Idle
    <2>7. state' \notin Up
      BY <2>1 DEF Up
    <2>8. CASE Interrupted(stopping.child)
      <3>1. starting' = Idle /\ starting.stage # "no"
        BY <2>1, <2>8 DEF StartingWithout, Interrupted
      <3>2. Silent(Stopped(waiters))
        BY <1>6, <3>1, Starting
      <3>3. Carries(m, DisposedOf)
        BY <2>2, <3>2, JoinCarries
      <3> HIDE DEF m
      <3> QED BY <1>1, <1>4, <1>5, <2>1, <2>5, <2>6, <2>7, <3>1, <3>3, StartReply DEF DisposedOf
    <2>9. CASE ~Interrupted(stopping.child)
      <3>1. Silent(m) \/ ("chain" \in waiters /\ Carries(m, StopOf))
        BY <1>6, <2>2, <2>9, JoinCarries
      <3> HIDE DEF m
      <3> QED BY <1>1, <1>4, <1>5, <2>1, <2>3, <2>4, <2>5, <2>6, <2>7, <3>1, StopReply
    <2> QED BY <2>8, <2>9
  <1>8. CASE process # stopping.child
    <2>1. /\ toBrowser' = toBrowser \o Stopped(waiters) /\ UNCHANGED <<state, process, starting>>
          /\ process = NoProcess
      BY <1>2, <1>8 DEF KillWaitOver, Say
    <2>2. state \notin Up \cup {"stopping"} /\ starting.stage \notin {"initializing", "resolving"}
      BY <1>2, <2>1 DEF IndInv, Managed
    <2>3. ManagerTypes'
      BY <1>1, <2>1, Types DEF IndInv, ManagerTypes, AtRest
    <2>4. Managed'
      BY <1>1, <2>1, <2>2 DEF Managed, AtRest
    <2>5. state' \notin Up /\ starting'.stage # "initializing" /\ waiters' \subseteq waiters
      BY <1>1, <2>1, <2>2
    <2> QED BY <1>1, <1>4, <1>5, <1>6, <2>1, <2>3, <2>4, <2>5, StopReply
  <1> QED BY <1>7, <1>8

(* A child is gone: the one the manager owns, or one it has replaced.      *)
LEMMA ExitOK ==
    ASSUME IndInv, NEW c \in Children, Exits(c), BudgetTypes' PROVE IndInv'
  <1> DEFINE waited == stopping.child = c /\ stopping.phase \in {"term", "kill"}
             x == IF waited THEN Stopped(waiters) ELSE <<>>
  <1>1. /\ UNCHANGED <<activation, restarts, transitions, closing, toBackend>>
        /\ child' = [child EXCEPT ![c] = Free]
    BY DEF Exits
  <1>2. \/ waited /\ stopping' = AtRest /\ waiters' = {}
        \/ ~waited /\ UNCHANGED <<stopping, waiters>>
    BY DEF Exits
  <1>3. /\ child' \in [Children -> [key : Projects, fate : Fates] \cup {Free}]
        /\ child'[c].fate = "free"
        /\ \A b \in Children : b # c => child'[b] = child[b]
    <2>1. child \in [Children -> [key : Projects, fate : Fates] \cup {Free}] /\ Free.fate = "free"
      BY DEF IndInv, TypeOK, Free
    <2> QED BY <1>1, <2>1
  <1>4. /\ stopping' \in [phase : {"no", "shutdown", "term", "kill"}, child : {NoProcess} \cup Children]
        /\ waiters' \in SUBSET {"chain", "close"} /\ waiters' \subseteq waiters
    <2>1. AtRest \in [phase : {"no", "shutdown", "term", "kill"}, child : {NoProcess} \cup Children]
      BY DEF AtRest
    <2>2. /\ stopping \in [phase : {"no", "shutdown", "term", "kill"}, child : {NoProcess} \cup Children]
          /\ waiters \in SUBSET {"chain", "close"}
      BY DEF IndInv, TypeOK
    <2>3. /\ stopping' = AtRest \/ stopping' = stopping
          /\ waiters' = {} \/ waiters' = waiters
      BY <1>2
    <2> QED BY <2>1, <2>2, <2>3
  <1>5. c # NoProcess
    BY DEF Children, NoProcess
  <1>6. Silent(x) \/ ("chain" \in waiters /\ "chain" \notin waiters' /\ Carries(x, StopOf))
    BY <1>2, StoppedCarries, EmptyIsSilent
  <1>7. waited => stopping # AtRest /\ process \in {NoProcess, c}
    BY DEF IndInv, Managed, AtRest
  <1>8. CASE process = c
    <2> DEFINE lost == IF state = "stopping" THEN <<>>
                       ELSE IF Interrupted(c) THEN <<"crashed", "failed">> ELSE <<"crashed">>
               m == (Told(lost) \o Disposed(c)) \o x
    <2>1. /\ process' = NoProcess /\ starting' = StartingWithout(c)
          /\ state' = IF lost = <<>> THEN "stopped" ELSE lost[Len(lost)]
          /\ toBrowser' = toBrowser \o m
      BY <1>8 DEF Exits, Owned, Say
    <2>2. lost \in Seq(States) /\ state' \in {"stopped", "crashed", "failed"}
      <3>1. /\ <<>> \in Seq(States)
            /\ <<"crashed">> \in Seq(States) /\ Len(<<"crashed">>) = 1 /\ <<"crashed">>[1] = "crashed"
            /\ <<"crashed", "failed">> \in Seq(States) /\ Len(<<"crashed", "failed">>) = 2
            /\ <<"crashed", "failed">>[2] = "failed"
        BY DEF States
      <3>2. lost = <<>> \/ lost = <<"crashed">> \/ lost = <<"crashed", "failed">>
        OBVIOUS
      <3> HIDE DEF lost
      <3> QED BY <2>1, <3>1, <3>2
    <2>3. Silent(Told(lost))
      BY <2>2, ToldIsSilent
    <2>4. Carries(Disposed(c), DisposedOf) /\ (~Interrupted(c) => Silent(Disposed(c)) /\ starting' = starting)
      BY <2>1, DisposedCarries
    <2> HIDE DEF lost, x
    <2>5. starting' = starting \/ starting' = Idle
      BY <2>1 DEF StartingWithout
    <2>6. starting'.stage # "initializing" /\ starting.stage # "resolving"
      BY <1>5, <1>8, <2>1 DEF IndInv, Managed, StartingWithout, Interrupted, Idle
    <2>7. ManagerTypes'
      BY <1>3, <1>4, <2>1, <2>2, <2>5, Types DEF IndInv, ManagerTypes, Idle, States
    <2>8. stopping' = AtRest \/ (stopping' = stopping /\ stopping.phase \notin {"term", "kill"})
      BY <1>2, <1>5, <1>8 DEF IndInv, Managed, AtRest
    <2>9. Managed'
      BY <2>1, <2>2, <2>5, <2>6, <2>8 DEF IndInv, Managed, Up, AtRest, Idle
    <2>10. NoOrphan'
      BY <1>3, <1>8 DEF IndInv, NoOrphan
    <2>11. state' \notin Up
      BY <2>2 DEF Up
    <2>12. CASE Interrupted(c)
      <3>1. starting' = Idle /\ starting.stage # "no"
        BY <2>1, <2>12 DEF StartingWithout, Interrupted
      <3>2. Silent(x)
        BY <1>6, <3>1, Starting
      <3>3. Carries(m, DisposedOf)
        BY <2>3, <2>4, <3>2, JoinCarries
      <3>4. "chain" \in waiters' => "chain" \in waiters
        BY <1>4
      <3> HIDE DEF m
      <3> QED BY <1>1, <2>1, <2>7, <2>9, <2>10, <2>11, <3>1, <3>3, <3>4, StartReply DEF DisposedOf
    <2>13. CASE ~Interrupted(c)
      <3>1. Silent(Told(lost) \o Disposed(c))
        BY <2>3, <2>4, <2>13, JoinCarries
      <3>2. Silent(m) \/ ("chain" \in waiters /\ "chain" \notin waiters' /\ Carries(m, StopOf))
        BY <1>6, <3>1, JoinCarries
      <3> HIDE DEF m
      <3> QED BY <1>1, <1>4, <2>1, <2>5, <2>6, <2>7, <2>9, <2>10, <2>11, <3>2, StopReply
    <2> QED BY <2>12, <2>13
  <1>9. CASE process # c
    <2>1. UNCHANGED <<process, state, starting>> /\ toBrowser' = toBrowser \o x
      BY <1>9 DEF Exits, Owned, Say
    <2>2. ManagerTypes'
      BY <1>3, <1>4, <2>1, Types DEF IndInv, ManagerTypes
    <2>3. waited => process = NoProcess /\ state \notin Up \cup {"stopping"}
      BY <1>7, <1>9 DEF IndInv, Managed
    <2>4. NoOrphan'
      BY <1>3, <2>1 DEF IndInv, NoOrphan
    <2>5. process # NoProcess => child'[process] = child[process]
      BY <1>3, <1>9 DEF IndInv, TypeOK
    <2>6. CASE waited
      <3>1. stopping' = AtRest /\ waiters' = {}
        BY <1>2, <2>6
      <3>2. starting.stage \notin {"initializing", "resolving"}
        BY <1>7, <2>3, <2>6 DEF IndInv, Managed
      <3>3. Managed'
        BY <2>1, <2>3, <2>6, <3>1, <3>2 DEF Managed, AtRest
      <3>4. state' \notin Up /\ starting'.stage # "initializing"
        BY <2>1, <2>3, <2>6, <3>2
      <3> HIDE DEF x
      <3> QED BY <1>1, <1>4, <1>6, <2>1, <2>2, <2>4, <3>3, <3>4, StopReply
    <2>7. CASE ~waited
      <3>1. UNCHANGED <<stopping, waiters>> /\ x = <<>>
        BY <1>2, <2>7
      <3>2. stopping.phase \in {"term", "kill"} => child'[stopping.child].fate # "running"
        BY <1>3, <2>7 DEF IndInv, Managed, AtRest
      <3>3. Managed'
        BY <2>1, <2>5, <3>1, <3>2 DEF IndInv, Managed, Alive
      <3>4. /\ starting'.stage = "initializing" => child'[process'].key = starting'.key
            /\ starting'.stage \in {"inspecting", "resolving"} => state' \notin Up
            /\ state' \in Up => state \in Up /\ child'[process'].key = child[process].key
        BY <2>1, <2>5 DEF IndInv, Truthful, Managed
      <3>5. Silent(x) /\ starting' = starting /\ waiters' = waiters
        BY <2>1, <3>1, EmptyIsSilent
      <3> HIDE DEF x
      <3> QED BY <1>1, <2>1, <2>2, <2>4, <3>3, <3>4, <3>5, SilentStep
    <2> QED BY <2>6, <2>7
  <1> QED BY <1>8, <1>9

(* A child exits or crashes, and the manager is told.                      *)
LEMMA ChildEndsOK ==
    ASSUME IndInv, NEW c \in Children, ChildExits(c) \/ ChildCrashes(c) PROVE IndInv'
  <1>1. /\ Exits(c) /\ UNCHANGED <<changes, failures, closed>>
        /\ crashes' = crashes \/ (crashes < MaxCrashes /\ crashes' = crashes + 1)
    BY DEF ChildExits, ChildCrashes, budget
  <1>2. BudgetTypes'
    BY <1>1, LanguageServerConstants DEF IndInv, TypeOK, BudgetTypes
  <1> QED BY <1>1, <1>2, ExitOK

-----------------------------------------------------------------------------
(* Every step keeps the invariant.                                         *)
LEMMA NextOK == ASSUME IndInv, [Next]_vars PROVE IndInv'
  <1>1. CASE User
    BY <1>1, UserOK, DeactivateOK DEF User
  <1>2. CASE Browser
    BY <1>2, UserOK, BeginOK, EndOK, GoesOnOK, PassedOK DEF Browser, OldIsStopped
  <1>3. CASE Backend
    BY <1>3, ServeStateOK, ServeStartOK, InspectedOK, ResolvedOK, InitializedOK, ServeStopOK,
       SignalOK, KillWaitOK DEF Backend
  <1>4. CASE Trouble
    BY <1>4, UserOK, InspectedOK, NotResolvedOK, InitializeFailsOK, ChildEndsOK DEF Trouble
  <1>5. CASE \E c \in Children : ChildExits(c)
    BY <1>5, ChildEndsOK
  <1>6. CASE UNCHANGED vars
    <2>1. UNCHANGED <<activation, restarts, transitions, closing>> /\ UNCHANGED <<wires, manager, budget>>
      BY <1>6 DEF vars
    <2>2. WireTypes' /\ ManagerTypes' /\ BudgetTypes'
      BY <2>1, Types DEF IndInv, WireTypes, ManagerTypes, BudgetTypes, wires, manager, budget
    <2>3. TypeOK' /\ Current'
      BY <2>1, <2>2, BrowserStays, TypesNext
    <2>4. UNCHANGED <<wires, manager, step>> /\ HeadStays /\ lastKey' = lastKey
      BY <2>1 DEF transitions, activation, HeadStays, IndInv, OneCall
    <2> QED BY <2>3, <2>4, QuietOK
  <1> QED BY <1>1, <1>2, <1>3, <1>4, <1>5, <1>6 DEF Next

(* It holds in every reachable state.                                      *)
LEMMA Invariance == Spec => []IndInv
  BY InitOK, NextOK, PTL DEF Spec

(* Every variable keeps its type, the wires and the chain included.        *)
THEOREM TypeCorrect == Spec => []TypeOK
  <1>1. IndInv => TypeOK
    BY DEF IndInv
  <1> QED BY <1>1, Invariance, PTL

(* However stops are shared or cut short, starts overtake them and children *)
(* die: a child nobody has signalled is the one the manager owns, so that   *)
(* the next stop reaches it.                                                *)
THEOREM NoServerUnseen == Spec => []NoOrphan
  <1>1. IndInv => NoOrphan
    BY DEF IndInv
  <1> QED BY <1>1, Invariance, PTL

(* A start is skipped only when what runs is a server for the project it is *)
(* for, although the key it is compared with lags behind the manager.       *)
THEOREM SkippedForTheRightServer == Spec => []SkipIsSafe
  <1>1. IndInv => SkipIsSafe
    <2> SUFFICES ASSUME IndInv, chain # <<>>, step = "state", lastKey = Head(chain).key, state \in Up
                 PROVE  child[process].key = lastKey
      BY DEF SkipIsSafe
    <2>1. chain \in Seq(Operations)
      BY DEF IndInv, TypeOK
    <2>2. Head(chain) \in Operations
      BY <2>1
    <2>3. lastKey \in Projects
      BY <2>2 DEF Operations
    <2> QED BY <2>3, LanguageServerConstants DEF IndInv, Remembered
  <1> QED BY <1>1, Invariance, PTL
=============================================================================
