------------------------ MODULE ServerRunnerProofs ------------------------
(***************************************************************************)
(* Proofs about ServerRunner, however many requests, processes and servers *)
(* there are and however often the agent dies: its types, that a server    *)
(* shown as running always has an instance behind it or a Restart at work  *)
(* on it, and, for servers whose requests come one after the other, that   *)
(* the only live Tomcats forgotten, or alive behind a server recorded as   *)
(* stopped, are those a stop has given up on.                              *)
(***************************************************************************)
EXTENDS ServerRunner, TLAPS

(* The inductive invariant, first outside the handlers: a record that      *)
(* exists has a port, in memory and on disk, and whatever is in the table  *)
(* has a record and a port.                                                *)
World ==
    /\ meta \in [Servers -> MetaType]
    /\ disk \in [Servers -> MetaType]
    /\ table \in [Servers -> InstOrNone]
    /\ tomcat \in [Insts -> TomcatType]
    /\ exits \in 0..MaxExits
    /\ excused \subseteq Servers
    /\ \A s \in Servers : meta[s].state # "absent" => meta[s].port # None
    /\ \A s \in Servers : disk[s].state # "absent" => disk[s].port # None
    /\ \A s \in Servers : table[s] # None => Known(s) /\ tomcat[table[s]].port # None

(* A handler with what its stage needs, and of a kind that has that stage. *)
Equipped(r) ==
    /\ r \in OpType
    /\ r.pc # "idle" => r.server # None
    /\ r.pc \in StopStages => r.inst # None /\ r.kind \in {"stop", "restart", "debug"}
    /\ r.pc \in {"pick", "spawn"} => r.port # None
    /\ r.pc \in LaunchStages => r.new # None /\ r.port # None
    /\ r.pc \in {"untrack", "read"} => r.kind = "restart"
    /\ r.pc \in {"pick", "lease"} => r.kind \in {"restart", "recover"}
    /\ r.pc # "idle" /\ r.kind = "debug" => r.port # None
    /\ r.pc \in {"spawn"} \cup LaunchStages => r.kind \in {"start", "restart", "debug", "recover"}
    /\ r.pc = "stopped" => r.kind = "stop"
    /\ r.pc = "error" => r.kind \in {"stop", "restart", "recover"}

(* What it refers to exists.                                               *)
Anchored(r) ==
    /\ r.pc \in LaunchStages => tomcat[r.new].port # None
    /\ r.pc # "idle" /\ r.kind # "start" => Known(r.server)

IndInv ==
    /\ World
    /\ op \in [Ops -> OpType]
    /\ \A o \in Ops : Equipped(op[o]) /\ Anchored(op[o])

(* Nothing that exists ceases to.                                          *)
Persists ==
    /\ \A s \in Servers : Known(s) => Known(s)'
    /\ \A i \in Insts : tomcat[i].port # None => tomcat'[i].port # None

-----------------------------------------------------------------------------
(* The initial state satisfies the inductive invariant.                    *)
LEMMA InitInv == Init => IndInv
  BY RunnerConstants
  DEF Init, IndInv, World, Equipped, Anchored, NoMeta, NoProcess, Idle, MetaType, TomcatType,
      OpType, InstOrNone, PortOrNone, StopStages, LaunchStages, Known

(* A step of one handler keeps the invariant if what it leaves behind is   *)
(* sound and it takes nothing away from the others.                        *)
LEMMA OneHandler ==
  ASSUME IndInv, NEW o \in Ops, NEW r,
         op' = [op EXCEPT ![o] = r], Equipped(r), Anchored(r)',
         World', Persists
  PROVE  IndInv'
  <1>1. op' \in [Ops -> OpType]
    BY DEF IndInv, Equipped
  <1>2. ASSUME NEW q \in Ops PROVE (Equipped(op[q]) /\ Anchored(op[q]))'
    <2>1. CASE q = o
      <3>1. op'[q] = r
        BY <2>1 DEF IndInv
      <3> QED
        BY <3>1 DEF Equipped, Anchored
    <2>2. CASE q # o
      <3>1. op'[q] = op[q] /\ Equipped(op[q]) /\ Anchored(op[q])
        BY <2>2 DEF IndInv
      <3>2. op[q].pc # "idle" => op[q].server \in Servers
        BY <3>1 DEF Equipped, OpType
      <3>3. op[q].pc \in LaunchStages => op[q].new \in Insts
        BY <3>1 DEF Equipped, OpType, InstOrNone
      <3>4. Anchored(op[q])'
        BY <3>1, <3>2, <3>3 DEF Anchored, Persists
      <3> QED
        BY <3>1, <3>4 DEF Equipped
    <2> QED
      BY <2>1, <2>2
  <1> QED
    BY <1>1, <1>2 DEF IndInv

(* The same for a handler that moves on to another stage.                  *)
LEMMA MoveOn ==
  ASSUME IndInv, NEW o \in Ops, NEW pc,
         op[o].pc # "idle", Goto(o, pc),
         Equipped([op[o] EXCEPT !.pc = pc]),
         pc \in LaunchStages => op[o].pc \in LaunchStages,
         World', Persists
  PROVE  IndInv'
  <1> SUFFICES ASSUME NEW r, r = [op[o] EXCEPT !.pc = pc] PROVE IndInv'
    OBVIOUS
  <1>1. op[o] \in OpType /\ Equipped(op[o]) /\ Anchored(op[o])
    BY DEF IndInv
  <1>2. op' = [op EXCEPT ![o] = r]
    BY <1>1 DEF Goto, OpType
  <1>3. r.pc = pc /\ r.new = op[o].new /\ r.kind = op[o].kind /\ r.server = op[o].server
    BY <1>1 DEF OpType
  <1>4. op[o].server \in Servers /\ (op[o].pc \in LaunchStages => op[o].new \in Insts)
    BY <1>1 DEF Equipped, OpType, InstOrNone
  <1>5. Anchored(r)'
    BY <1>1, <1>3, <1>4 DEF Anchored, Persists
  <1> QED
    BY <1>2, <1>5, OneHandler

(* Steps that touch neither records nor ports.                             *)
LEMMA ProcessOnly ==
  ASSUME World, tomcat' \in [Insts -> TomcatType],
         \A i \in Insts : tomcat[i].port # None => tomcat'[i].port # None,
         UNCHANGED <<meta, disk, table, exits>>, excused' \subseteq Servers
  PROVE  World' /\ Persists
  BY DEF World, Persists, Known, InstOrNone

(* Steps that write one record and the server's entry in the table.        *)
LEMMA RecordOnly ==
  ASSUME World, NEW s \in Servers, NEW m \in MetaType, NEW t \in InstOrNone,
         m.state # "absent", m.port # None, Save(s, m),
         table' = [table EXCEPT ![s] = t], t # None => tomcat[t].port # None,
         UNCHANGED <<tomcat, exits, excused>>
  PROVE  World' /\ Persists
  <1>1. /\ meta' \in [Servers -> MetaType] /\ disk' = meta'
        /\ table' \in [Servers -> InstOrNone]
    BY DEF World, Save
  <1>2. \A q \in Servers : meta'[q] = IF q = s THEN m ELSE meta[q]
    BY DEF World, Save
  <1>3. \A q \in Servers : table'[q] = IF q = s THEN t ELSE table[q]
    BY DEF World
  <1> QED
    BY <1>1, <1>2, <1>3 DEF World, Persists, Known, InstOrNone

(* A handler that returns is sound.                                        *)
LEMMA IdleIsSound == Equipped(Idle) /\ Anchored(Idle)'
  BY DEF Equipped, Anchored, Idle, OpType, StopStages, LaunchStages, InstOrNone, PortOrNone

-----------------------------------------------------------------------------
(* The first critical section of an operation keeps the invariant.         *)
LEMMA RequestInv ==
  ASSUME IndInv, NEW o \in Ops, Request(o)
  PROVE  IndInv'
  <1>1. ASSUME NEW kind, NEW s \in Servers, NEW pc, NEW inst, NEW port, NEW lease,
               Begin(o, kind, s, pc, inst, port, lease),
               Equipped([pc |-> pc, kind |-> kind, server |-> s, inst |-> inst,
                         new |-> None, port |-> port, lease |-> lease]),
               pc \notin LaunchStages, kind = "start" \/ Known(s),
               World', Persists
        PROVE  IndInv'
    <2> SUFFICES ASSUME NEW r, r = [pc |-> pc, kind |-> kind, server |-> s, inst |-> inst,
                                    new |-> None, port |-> port, lease |-> lease]
                 PROVE  IndInv'
      OBVIOUS
    <2>1. op' = [op EXCEPT ![o] = r]
      BY <1>1 DEF Begin
    <2>2. Equipped(r)
      BY <1>1
    <2>3. Anchored(r)'
      BY <1>1 DEF Anchored, Persists
    <2> QED
      BY <1>1, <2>1, <2>2, <2>3, OneHandler
  <1>2. ASSUME NEW s \in Servers, NEW p \in Ports, BeginStart(o, s, p) PROVE IndInv'
    <2>1. Equipped([pc |-> "spawn", kind |-> "start", server |-> s, inst |-> None,
                    new |-> None, port |-> p, lease |-> p])
      BY RunnerConstants
      DEF Equipped, OpType, InstOrNone, PortOrNone, StopStages, LaunchStages
    <2>2. World' /\ Persists
      BY <1>2, ProcessOnly DEF IndInv, World, BeginStart, Begin
    <2> QED
      BY <1>1, <1>2, <2>1, <2>2 DEF BeginStart, LaunchStages
  <1>3. ASSUME NEW s \in Servers, NEW force \in BOOLEAN, BeginStop(o, s, force) PROVE IndInv'
    <2> DEFINE pc == IF force THEN "force" ELSE "stop"
    <2>1. table[s] \in Insts /\ Known(s)
      BY <1>3 DEF BeginStop, IndInv, World, InstOrNone
    <2>2. Equipped([pc |-> pc, kind |-> "stop", server |-> s, inst |-> table[s],
                    new |-> None, port |-> None, lease |-> None])
      BY <2>1, RunnerConstants
      DEF Equipped, OpType, InstOrNone, PortOrNone, StopStages, LaunchStages
    <2>3. World' /\ Persists
      BY <1>3, ProcessOnly DEF IndInv, World, BeginStop, Begin
    <2> QED
      BY <1>1, <1>3, <2>1, <2>2, <2>3 DEF BeginStop, LaunchStages
  <1>4. ASSUME NEW s \in Servers, BeginRestart(o, s) PROVE IndInv'
    <2> DEFINE pc == IF table[s] = None THEN "read" ELSE "stop"
    <2>1. table[s] \in InstOrNone /\ Known(s)
      BY <1>4 DEF BeginRestart, IndInv, World
    <2>2. Equipped([pc |-> pc, kind |-> "restart", server |-> s, inst |-> table[s],
                    new |-> None, port |-> None, lease |-> None])
      BY <2>1, RunnerConstants
      DEF Equipped, OpType, InstOrNone, PortOrNone, StopStages, LaunchStages
    <2>3. World' /\ Persists
      BY <1>4, ProcessOnly DEF IndInv, World, BeginRestart, Begin
    <2> QED
      BY <1>1, <1>4, <2>1, <2>2, <2>3 DEF BeginRestart, LaunchStages
  <1>5. ASSUME NEW s \in Servers, BeginDebug(o, s) PROVE IndInv'
    <2> DEFINE pc == IF table[s] = None THEN "spawn" ELSE "stop"
    <2>1. table[s] \in InstOrNone /\ Known(s) /\ meta[s].port \in Ports
      BY <1>5 DEF BeginDebug, IndInv, World, Known, MetaType, PortOrNone
    <2>2. Equipped([pc |-> pc, kind |-> "debug", server |-> s, inst |-> table[s],
                    new |-> None, port |-> meta[s].port, lease |-> None])
      BY <2>1, RunnerConstants
      DEF Equipped, OpType, InstOrNone, PortOrNone, StopStages, LaunchStages
    <2>3. World' /\ Persists
      BY <1>5, ProcessOnly DEF IndInv, World, BeginDebug, Begin
    <2> QED
      BY <1>1, <1>5, <2>1, <2>2, <2>3 DEF BeginDebug, LaunchStages
  <1>6. ASSUME NEW s \in Servers, BeginRecover(o, s) PROVE IndInv'
    <2>1. Known(s) /\ meta[s].port \in Ports
      BY <1>6 DEF BeginRecover, IndInv, World, Known, MetaType, PortOrNone
    <2>2. Equipped([pc |-> "pick", kind |-> "recover", server |-> s, inst |-> None,
                    new |-> None, port |-> meta[s].port, lease |-> None])
      BY <2>1, RunnerConstants
      DEF Equipped, OpType, InstOrNone, PortOrNone, StopStages, LaunchStages
    <2>3. /\ meta' \in [Servers -> MetaType]
          /\ \A q \in Servers : meta'[q].state = meta[q].state /\ meta'[q].port = meta[q].port
      BY <1>6 DEF BeginRecover, IndInv, World, MetaType
    <2>4. UNCHANGED <<disk, table, tomcat, exits>> /\ excused' \subseteq Servers
      BY <1>6 DEF BeginRecover, Begin, IndInv, World
    <2>5. World' /\ Persists
      BY <2>3, <2>4 DEF IndInv, World, Persists, Known
    <2> QED
      BY <1>1, <1>6, <2>1, <2>2, <2>5 DEF BeginRecover, LaunchStages
  <1> QED
    BY <1>2, <1>3, <1>4, <1>5, <1>6 DEF Request

(* What a handler in the middle of a stop may go on to.                    *)
LEMMA NextStages ==
  ASSUME NEW r, Equipped(r), r.pc \in StopStages
  PROVE  /\ r.kind = "stop" => \A pc \in {"stopped", "error"} : Equipped([r EXCEPT !.pc = pc])
         /\ r.kind = "restart" =>
              \A pc \in {"untrack", "error", "force"} : Equipped([r EXCEPT !.pc = pc])
         /\ r.kind = "debug" => Equipped([r EXCEPT !.pc = "spawn"])
         /\ \A pc \in StopStages : Equipped([r EXCEPT !.pc = pc])
  <1>1. ASSUME NEW pc \in StopStages \cup {"stopped", "error", "untrack", "spawn"}
        PROVE  LET q == [r EXCEPT !.pc = pc] IN
               /\ q \in OpType /\ q.pc = pc /\ q.kind = r.kind /\ q.server = r.server
               /\ q.inst = r.inst /\ q.port = r.port
    BY DEF Equipped, OpType
  <1>2. r.inst # None /\ r.server # None /\ r.kind \in {"stop", "restart", "debug"}
        /\ (r.kind = "debug" => r.port # None)
    BY DEF Equipped, StopStages
  <1> QED
    BY <1>1, <1>2 DEF Equipped, StopStages, LaunchStages

(* What a stop does to the process: only what its managed process knows    *)
(* and the flags of its end change.                                        *)
LEMMA Signalled ==
  ASSUME tomcat \in [Insts -> TomcatType], NEW i \in Insts,
         NEW kill \in BOOLEAN, NEW verified \in BOOLEAN, Signal(i, kill, verified)
  PROVE  /\ tomcat' \in [Insts -> TomcatType]
         /\ \A j \in Insts : j # i => tomcat'[j] = tomcat[j]
         /\ tomcat'[i].server = tomcat[i].server /\ tomcat'[i].port = tomcat[i].port
         /\ tomcat'[i].alive = tomcat[i].alive /\ tomcat'[i].state = tomcat[i].state
         /\ tomcat'[i].mgr = "stopping"
         /\ tomcat'[i].spared = (tomcat[i].spared \/ (tomcat[i].alive /\ ~verified))
  <1> DEFINE t == [tomcat[i] EXCEPT !.mgr = "stopping",
                      !.killed = tomcat[i].killed \/ (tomcat[i].alive /\ kill /\ verified),
                      !.spared = tomcat[i].spared \/ (tomcat[i].alive /\ ~verified)]
  <1>1. tomcat[i] \in TomcatType
    OBVIOUS
  <1>2. tomcat' = [tomcat EXCEPT ![i] = t]
    BY <1>1 DEF Signal
  <1>3. /\ t \in TomcatType /\ t.server = tomcat[i].server /\ t.port = tomcat[i].port
        /\ t.alive = tomcat[i].alive /\ t.state = tomcat[i].state /\ t.mgr = "stopping"
        /\ t.spared = (tomcat[i].spared \/ (tomcat[i].alive /\ ~verified))
    BY <1>1 DEF TomcatType
  <1> HIDE DEF t
  <1> QED
    BY <1>2, <1>3

(* The same for a forced stop whose time is up.                            *)
LEMMA GivenUp ==
  ASSUME tomcat \in [Insts -> TomcatType], NEW i \in Insts,
         tomcat' = [tomcat EXCEPT ![i].spared = @ \/ tomcat[i].alive]
  PROVE  /\ tomcat' \in [Insts -> TomcatType]
         /\ \A j \in Insts : j # i => tomcat'[j] = tomcat[j]
         /\ tomcat'[i].server = tomcat[i].server /\ tomcat'[i].port = tomcat[i].port
         /\ tomcat'[i].alive = tomcat[i].alive /\ tomcat'[i].state = tomcat[i].state
         /\ tomcat'[i].mgr = tomcat[i].mgr
         /\ tomcat'[i].spared = (tomcat[i].spared \/ tomcat[i].alive)
  <1> DEFINE t == [tomcat[i] EXCEPT !.spared = tomcat[i].spared \/ tomcat[i].alive]
  <1>1. tomcat[i] \in TomcatType
    OBVIOUS
  <1>2. tomcat' = [tomcat EXCEPT ![i] = t]
    BY <1>1
  <1>3. /\ t \in TomcatType /\ t.server = tomcat[i].server /\ t.port = tomcat[i].port
        /\ t.alive = tomcat[i].alive /\ t.state = tomcat[i].state /\ t.mgr = tomcat[i].mgr
        /\ t.spared = (tomcat[i].spared \/ tomcat[i].alive)
    BY <1>1 DEF TomcatType
  <1> HIDE DEF t
  <1> QED
    BY <1>2, <1>3

(* Stopping a process keeps the invariant.                                 *)
LEMMA StoppingInv ==
  ASSUME IndInv, NEW o \in Ops, Stopping(o)
  PROVE  IndInv'
  <1> DEFINE i == op[o].inst
  <1>1. Equipped(op[o]) /\ op[o] \in OpType
    BY DEF IndInv
  <1>2. op[o].pc \in StopStages
    BY DEF Stopping, SignalTerm, GraceExpires, SignalKill, Gone, ForceExpires, At, StopStages
  <1>3. i \in Insts /\ op[o].kind \in {"stop", "restart", "debug"} /\ op[o].pc # "idle"
    BY <1>1, <1>2 DEF Equipped, OpType, InstOrNone, StopStages
  <1>4. World' /\ Persists
    <2>1. tomcat' \in [Insts -> TomcatType] /\ \A j \in Insts : tomcat'[j].port = tomcat[j].port
      <3>1. CASE UNCHANGED tomcat
        BY <3>1 DEF IndInv, World
      <3>2. tomcat \in [Insts -> TomcatType]
        BY DEF IndInv, World
      <3>3. CASE \E kill, verified \in BOOLEAN : Signal(i, kill, verified)
        BY <1>3, <3>2, <3>3, Signalled
      <3>4. CASE ForceExpires(o)
        BY <1>3, <3>2, <3>4, GivenUp DEF ForceExpires
      <3>5. SignalTerm(o) => UNCHANGED tomcat \/ \E kill, verified \in BOOLEAN : Signal(i, kill, verified)
        BY Zenon DEF SignalTerm
      <3>6. SignalKill(o) => UNCHANGED tomcat \/ \E kill, verified \in BOOLEAN : Signal(i, kill, verified)
        BY Zenon DEF SignalKill
      <3> QED
        BY <3>1, <3>3, <3>4, <3>5, <3>6 DEF Stopping, GraceExpires, Gone
    <2>2. op[o].server \in Servers
      BY <1>1, <1>3 DEF Equipped, OpType
    <2>3. UNCHANGED <<meta, disk, table, exits>> /\ excused' \subseteq Servers
      BY <2>2 DEF Stopping, SignalTerm, GraceExpires, SignalKill, Gone, ForceExpires, IndInv, World
    <2> QED
      BY <2>1, <2>3, ProcessOnly DEF IndInv
  <1> DEFINE Targets == StopStages \cup {AfterStop(o)}
                        \cup {AfterFailedStop(o, TRUE), AfterFailedStop(o, FALSE)}
  <1>5. PICK pc \in Targets : Goto(o, pc)
    <2>1. CASE SignalTerm(o)
      BY <2>1, Zenon DEF SignalTerm, StopStages
    <2>2. CASE SignalKill(o)
      <3>1. At(o, "force") \in BOOLEAN
        BY DEF At
      <3> QED
        BY <2>2, <3>1 DEF SignalKill, StopStages
    <2>3. CASE GraceExpires(o) \/ Gone(o) \/ ForceExpires(o)
      BY <2>3 DEF GraceExpires, Gone, ForceExpires, StopStages
    <2> QED
      BY <2>1, <2>2, <2>3 DEF Stopping
  <1>6. Equipped([op[o] EXCEPT !.pc = pc]) /\ pc \notin LaunchStages
    <2>1. CASE pc \in StopStages
      BY <1>1, <1>2, <2>1, NextStages DEF StopStages, LaunchStages
    <2>2. CASE pc \notin StopStages
      <3>1. CASE op[o].kind = "stop"
        BY <1>1, <1>2, <1>5, <2>2, <3>1, NextStages
        DEF AfterStop, AfterFailedStop, StopStages, LaunchStages
      <3>2. CASE op[o].kind = "restart"
        BY <1>1, <1>2, <1>5, <2>2, <3>2, NextStages
        DEF AfterStop, AfterFailedStop, StopStages, LaunchStages
      <3>3. CASE op[o].kind = "debug"
        BY <1>1, <1>2, <1>5, <2>2, <3>3, NextStages
        DEF AfterStop, AfterFailedStop, StopStages, LaunchStages
      <3> QED
        BY <1>3, <3>1, <3>2, <3>3
    <2> QED
      BY <2>1, <2>2
  <1> QED
    BY <1>3, <1>4, <1>5, <1>6, MoveOn

(* Choosing a port, launching and probing keep the invariant.              *)
LEMMA LaunchingInv ==
  ASSUME IndInv, NEW o \in Ops, Launching(o)
  PROVE  IndInv'
  <1>1. Equipped(op[o]) /\ Anchored(op[o]) /\ op[o] \in OpType /\ World
    BY DEF IndInv
  <1>2. op[o].pc # "idle"
    BY DEF Launching, PickPort, LeasePort, Spawn, SpawnFails, Ready, ProbeExpires, Aborted, At
  <1>3. op[o].server \in Servers
    BY <1>1, <1>2 DEF Equipped, OpType
  <1>4. ASSUME UNCHANGED <<meta, disk, table, tomcat, exits, excused>>
        PROVE  World' /\ Persists
    BY <1>1, <1>4, ProcessOnly DEF World
  <1>5. ASSUME FailLaunch(o), op[o].pc \in {"spawn"} \cup LaunchStages, World', Persists
        PROVE  IndInv'
    <2>1. CASE op[o].kind \in {"start", "debug"}
      <3>1. op' = [op EXCEPT ![o] = Idle]
        BY <1>5, <2>1 DEF FailLaunch, Return
      <3> QED
        BY <1>5, <3>1, IdleIsSound, OneHandler
    <2>2. CASE op[o].kind \notin {"start", "debug"}
      <3> SUFFICES ASSUME NEW r, r = [op[o] EXCEPT !.lease = None, !.pc = "error"]
                   PROVE  IndInv'
        OBVIOUS
      <3>1. op' = [op EXCEPT ![o] = r]
        BY <1>1, <1>5, <2>2 DEF FailLaunch, OpType
      <3>2. Equipped(r)
        BY <1>1, <1>2, <1>5, <2>2 DEF Equipped, OpType, StopStages, LaunchStages, PortOrNone
      <3>3. Anchored(r)'
        BY <1>1, <1>2, <1>3, <1>5 DEF Anchored, Persists, OpType, LaunchStages
      <3> QED
        BY <1>5, <3>1, <3>2, <3>3, OneHandler
    <2> QED
      BY <2>1, <2>2
  <1>6. CASE PickPort(o)
    <2> DEFINE pc == IF Listening(op[o].port) = {} THEN "spawn" ELSE "lease"
    <2>1. Goto(o, pc) /\ op[o].pc = "pick" /\ pc \in {"spawn", "lease"}
      BY <1>6 DEF PickPort, At
    <2>2. World' /\ Persists
      BY <1>4, <1>6 DEF PickPort
    <2> HIDE DEF pc
    <2>3. Equipped([op[o] EXCEPT !.pc = pc]) /\ pc \notin LaunchStages
      BY <1>1, <2>1 DEF Equipped, OpType, StopStages, LaunchStages
    <2> QED
      BY <1>2, <2>1, <2>2, <2>3, MoveOn
  <1>7. CASE LeasePort(o)
    <2>1. World' /\ Persists /\ op[o].pc = "lease"
      BY <1>4, <1>7 DEF LeasePort, At
    <2>2. ASSUME Goto(o, "error") PROVE IndInv'
      <3>1. Equipped([op[o] EXCEPT !.pc = "error"])
        BY <1>1, <2>1 DEF Equipped, OpType, StopStages, LaunchStages
      <3> QED
        BY <1>2, <2>1, <2>2, <3>1, MoveOn DEF LaunchStages
    <2>3. ASSUME NEW p \in Ports,
                 op' = [op EXCEPT ![o].lease = p, ![o].port = p, ![o].pc = "spawn"]
          PROVE  IndInv'
      <3> SUFFICES ASSUME NEW r, r = [op[o] EXCEPT !.lease = p, !.port = p, !.pc = "spawn"]
                   PROVE  IndInv'
        OBVIOUS
      <3>1. op' = [op EXCEPT ![o] = r]
        BY <1>1, <2>3 DEF OpType
      <3>2. Equipped(r)
        BY <1>1, <2>1, RunnerConstants
        DEF Equipped, OpType, StopStages, LaunchStages, PortOrNone
      <3>3. Anchored(r)'
        BY <1>1, <1>2, <1>3, <2>1 DEF Anchored, Persists, OpType, LaunchStages
      <3> QED
        BY <2>1, <3>1, <3>2, <3>3, OneHandler
    <2> QED
      BY <1>7, <2>2, <2>3 DEF LeasePort, FreePorts
  <1>8. CASE Spawn(o)
    <2>1. op[o].pc = "spawn" /\ op[o].port \in Ports
      BY <1>1, <1>8 DEF Spawn, At, Equipped, OpType, PortOrNone
    <2>2. PICK i \in Insts :
             /\ tomcat[i] = NoProcess
             /\ tomcat' = [tomcat EXCEPT ![i] =
                             [NoProcess EXCEPT !.server = op[o].server, !.port = op[o].port,
                                               !.alive = TRUE, !.mgr = "running"]]
             /\ op' = [op EXCEPT ![o].new = i, ![o].pc = "probe"]
      BY <1>8, Zenon DEF Spawn
    <2>3. /\ tomcat' \in [Insts -> TomcatType] /\ tomcat'[i].port = op[o].port
          /\ \A j \in Insts : j # i => tomcat'[j] = tomcat[j]
      BY <1>1, <1>3, <2>1, <2>2 DEF World, NoProcess, TomcatType, PortOrNone
    <2>4. World' /\ Persists
      BY <1>1, <1>8, <2>1, <2>2, <2>3, ProcessOnly, RunnerConstants DEF Spawn, World, NoProcess
    <2> SUFFICES ASSUME NEW r, r = [op[o] EXCEPT !.new = i, !.pc = "probe"] PROVE IndInv'
      OBVIOUS
    <2>5. op' = [op EXCEPT ![o] = r]
      BY <1>1, <2>2 DEF OpType
    <2>6. Equipped(r)
      BY <1>1, <2>1, RunnerConstants DEF Equipped, OpType, StopStages, LaunchStages, InstOrNone
    <2>7. Anchored(r)'
      BY <1>1, <1>2, <1>3, <2>1, <2>3, <2>4, RunnerConstants
      DEF Anchored, Persists, OpType, LaunchStages
    <2> QED
      BY <2>4, <2>5, <2>6, <2>7, OneHandler
  <1>9. CASE SpawnFails(o)
    BY <1>4, <1>5, <1>9 DEF SpawnFails, At
  <1>10. ASSUME AfterAbort(o), op[o].pc \in LaunchStages, World', Persists PROVE IndInv'
    <2>1. CASE FailLaunch(o)
      BY <1>5, <1>10, <2>1
    <2>2. CASE /\ op[o].kind \in {"restart", "recover"}
               /\ op' = [op EXCEPT ![o].new = None, ![o].pc = "lease"]
      <3> SUFFICES ASSUME NEW r, r = [op[o] EXCEPT !.new = None, !.pc = "lease"] PROVE IndInv'
        OBVIOUS
      <3>1. op' = [op EXCEPT ![o] = r]
        BY <1>1, <2>2 DEF OpType
      <3>2. Equipped(r)
        BY <1>1, <1>2, <2>2 DEF Equipped, OpType, StopStages, LaunchStages, InstOrNone
      <3>3. Anchored(r)'
        BY <1>1, <1>2, <1>3, <1>10, <2>2 DEF Anchored, Persists, OpType, LaunchStages
      <3> QED
        BY <1>10, <3>1, <3>2, <3>3, OneHandler
    <2> QED
      BY <1>10, <2>1, <2>2 DEF AfterAbort
  <1>11. CASE Ready(o) \/ ProbeExpires(o) \/ Aborted(o)
    <2> DEFINE i == op[o].new
    <2>1. op[o].pc \in {"probe", "abort"} /\ i \in Insts
      BY <1>1, <1>11 DEF Ready, ProbeExpires, Aborted, At, Equipped, OpType, InstOrNone, LaunchStages
    <2>2. tomcat' \in [Insts -> TomcatType] /\ \A j \in Insts : tomcat'[j].port = tomcat[j].port
      <3>1. \/ UNCHANGED tomcat
            \/ tomcat' = [tomcat EXCEPT ![i].state = "running"]
            \/ \E kill, verified \in BOOLEAN : Signal(i, kill, verified)
        BY <1>11, Zenon DEF Ready, ProbeExpires, Aborted
      <3>2. tomcat \in [Insts -> TomcatType]
        BY <1>1 DEF World
      <3> HIDE DEF i
      <3>3. CASE UNCHANGED tomcat \/ tomcat' = [tomcat EXCEPT ![i].state = "running"]
        BY <2>1, <3>2, <3>3 DEF TomcatType
      <3>4. CASE \E kill, verified \in BOOLEAN : Signal(i, kill, verified)
        BY <2>1, <3>2, <3>4, Signalled
      <3> QED
        BY <3>1, <3>3, <3>4
    <2>3. World' /\ Persists
      BY <1>1, <1>11, <2>2, ProcessOnly DEF Ready, ProbeExpires, Aborted, World
    <2>4. CASE Ready(o)
      <3> SUFFICES ASSUME NEW r, r = [op[o] EXCEPT !.pc = "record",
                                        !.lease = IF op[o].kind = "start" THEN @ ELSE None]
                   PROVE  IndInv'
        OBVIOUS
      <3>1. op' = [op EXCEPT ![o] = r]
        BY <1>1, <2>4 DEF Ready, OpType
      <3>2. Equipped(r)
        BY <1>1, <2>1 DEF Equipped, OpType, StopStages, LaunchStages, PortOrNone
      <3>3. Anchored(r)'
        BY <1>1, <1>3, <2>1, <2>3 DEF Anchored, Persists, OpType, LaunchStages
      <3> QED
        BY <2>3, <3>1, <3>2, <3>3, OneHandler
    <2>5. CASE ProbeExpires(o) /\ Goto(o, "abort")
      <3>1. Equipped([op[o] EXCEPT !.pc = "abort"])
        BY <1>1, <2>1 DEF Equipped, OpType, StopStages, LaunchStages
      <3> QED
        BY <1>2, <2>1, <2>3, <2>5, <3>1, MoveOn DEF LaunchStages
    <2>6. CASE AfterAbort(o)
      BY <1>10, <2>1, <2>3, <2>6 DEF LaunchStages
    <2> QED
      BY <1>11, <2>4, <2>5, <2>6 DEF ProbeExpires, Aborted
  <1> QED
    BY <1>6, <1>7, <1>8, <1>9, <1>11 DEF Launching

(* The last critical sections of the operations keep the invariant.        *)
LEMMA RecordingInv ==
  ASSUME IndInv, NEW o \in Ops, Recording(o)
  PROVE  IndInv'
  <1> DEFINE s == op[o].server
  <1>1. Equipped(op[o]) /\ Anchored(op[o]) /\ op[o] \in OpType /\ World
    BY DEF IndInv
  <1>2. op[o].pc # "idle" /\ s \in Servers
    BY <1>1 DEF Recording, RecordStopped, RecordError, Untrack, ReadPort, Record, At,
                Equipped, OpType
  <1>3. op[o].kind # "start" => Known(s) /\ meta[s].port \in Ports
    BY <1>1, <1>2 DEF Anchored, World, Known, MetaType, PortOrNone
  <1>4. ASSUME Return(o), World', Persists PROVE IndInv'
    BY <1>4, IdleIsSound, OneHandler DEF Return
  <1>5. CASE RecordStopped(o)
    <2> DEFINE m == [meta[s] EXCEPT !.state = "stopped"]
    <2>1. op[o].kind = "stop"
      BY <1>1, <1>5 DEF RecordStopped, At, Equipped
    <2>2. m \in MetaType /\ m.state # "absent" /\ m.port # None
      BY <1>1, <1>2, <1>3, <2>1, RunnerConstants DEF World, MetaType
    <2>3. Save(s, m) /\ table' = [table EXCEPT ![s] = None] /\ UNCHANGED <<tomcat, exits, excused>>
      BY <1>5 DEF RecordStopped
    <2> HIDE DEF m
    <2>4. World' /\ Persists
      BY <1>1, <1>2, <2>2, <2>3, RecordOnly DEF InstOrNone
    <2> QED
      BY <1>4, <1>5, <2>4 DEF RecordStopped
  <1>6. CASE RecordError(o)
    <2> DEFINE m == [meta[s] EXCEPT !.state = "error"]
    <2>1. op[o].kind # "start"
      BY <1>1, <1>6 DEF RecordError, At, Equipped
    <2>2. m \in MetaType /\ m.state # "absent" /\ m.port # None
      BY <1>1, <1>2, <1>3, <2>1, RunnerConstants DEF World, MetaType
    <2>3. Save(s, m) /\ table' = [table EXCEPT ![s] = table[s]]
          /\ UNCHANGED <<tomcat, exits, excused>>
      BY <1>1, <1>6 DEF RecordError, World
    <2>4. table[s] \in InstOrNone /\ (table[s] # None => tomcat[table[s]].port # None)
      BY <1>1, <1>2 DEF World
    <2> HIDE DEF m
    <2>5. World' /\ Persists
      BY <1>1, <1>2, <2>2, <2>3, <2>4, RecordOnly
    <2> QED
      BY <1>4, <1>6, <2>5 DEF RecordError
  <1>7. CASE Untrack(o)
    <2>1. op[o].pc = "untrack" /\ Goto(o, "read") /\ table' = [table EXCEPT ![s] = None]
          /\ UNCHANGED <<meta, disk, tomcat, exits, excused>>
      BY <1>7 DEF Untrack, At
    <2>2. World' /\ Persists
      <3>1. table' \in [Servers -> InstOrNone]
            /\ \A q \in Servers : table'[q] = None \/ table'[q] = table[q]
        BY <1>1, <2>1 DEF World, InstOrNone
      <3> QED
        BY <1>1, <2>1, <3>1 DEF World, Persists, Known
    <2>3. Equipped([op[o] EXCEPT !.pc = "read"])
      BY <1>1, <2>1 DEF Equipped, OpType, StopStages, LaunchStages
    <2> QED
      BY <1>2, <2>1, <2>2, <2>3, MoveOn DEF LaunchStages
  <1>8. CASE ReadPort(o)
    <2>1. op[o].pc = "read" /\ op[o].kind = "restart" /\ meta[s].port \in Ports
          /\ UNCHANGED <<meta, disk, table, tomcat, exits, excused>>
      BY <1>1, <1>3, <1>8 DEF ReadPort, At, Equipped
    <2>2. World' /\ Persists
      BY <1>1, <2>1, ProcessOnly DEF World
    <2> SUFFICES ASSUME NEW r, r = [op[o] EXCEPT !.port = meta[s].port, !.pc = "pick"]
                 PROVE  IndInv'
      OBVIOUS
    <2>3. op' = [op EXCEPT ![o] = r]
      BY <1>1, <1>8 DEF ReadPort, OpType
    <2>4. Equipped(r)
      BY <1>1, <2>1, RunnerConstants DEF Equipped, OpType, StopStages, LaunchStages, PortOrNone
    <2>5. Anchored(r)'
      BY <1>1, <1>2, <2>1, <2>2 DEF Anchored, Persists, OpType, LaunchStages
    <2> QED
      BY <2>2, <2>3, <2>4, <2>5, OneHandler
  <1>9. CASE Record(o)
    <2> DEFINE m == [state |-> tomcat[op[o].new].state, inst |-> op[o].new,
                     port |-> op[o].port, wasRunning |-> meta[s].wasRunning]
    <2>1. op[o].new \in Insts /\ op[o].port \in Ports /\ tomcat[op[o].new].port # None
      BY <1>1, <1>9 DEF Record, At, Equipped, Anchored, OpType, InstOrNone, PortOrNone, LaunchStages
    <2>2. m \in MetaType /\ m.state # "absent" /\ m.port # None
      BY <1>1, <1>2, <2>1, RunnerConstants
      DEF World, MetaType, TomcatType, InstOrNone, PortOrNone
    <2>3. Save(s, m) /\ table' = [table EXCEPT ![s] = op[o].new]
          /\ UNCHANGED <<tomcat, exits, excused>>
      BY <1>9 DEF Record
    <2> HIDE DEF m
    <2>4. World' /\ Persists
      BY <1>1, <1>2, <2>1, <2>2, <2>3, RecordOnly DEF InstOrNone
    <2> QED
      BY <1>4, <1>9, <2>4 DEF Record
  <1> QED
    BY <1>5, <1>6, <1>7, <1>8, <1>9 DEF Recording

(* So do Get and List, the processes, and the death of the agent.          *)
LEMMA OutsideInv ==
  ASSUME IndInv,
         \/ \E s \in Servers : Refresh(s)
         \/ \E i \in Insts : Bind(i) \/ Exit(i) \/ Reap(i) \/ Monitor(i)
         \/ AgentExit
         \/ UNCHANGED vars
  PROVE  IndInv'
  <1>1. World /\ op \in [Ops -> OpType]
    BY DEF IndInv
  <1>2. ASSUME World', Persists, UNCHANGED op PROVE IndInv'
    <2>1. ASSUME NEW o \in Ops PROVE (Equipped(op[o]) /\ Anchored(op[o]))'
      <3>1. Equipped(op[o]) /\ Anchored(op[o]) /\ op[o] \in OpType
        BY DEF IndInv
      <3>2. Equipped(op[o])'
        BY <1>2, <3>1 DEF Equipped
      <3>3. (op[o].pc # "idle" => op[o].server \in Servers)
            /\ (op[o].pc \in LaunchStages => op[o].new \in Insts)
        BY <3>1 DEF Equipped, OpType, InstOrNone
      <3>4. Anchored(op[o])'
        BY <1>2, <3>1, <3>3 DEF Anchored, Persists
      <3> QED
        BY <3>2, <3>4
    <2> QED
      BY <1>1, <1>2, <2>1 DEF IndInv
  <1>3. ASSUME NEW s \in Servers, Refresh(s) PROVE IndInv'
    <2>1. table[s] \in Insts /\ Known(s) /\ tomcat[table[s]].port \in Ports
          /\ tomcat[table[s]].state \in {"starting", "running", "stopped"}
      BY <1>1, <1>3 DEF Refresh, World, InstOrNone, TomcatType, PortOrNone
    <2>2. /\ meta' \in [Servers -> MetaType]
          /\ meta'[s].state = tomcat[table[s]].state /\ meta'[s].port = tomcat[table[s]].port
          /\ \A q \in Servers : q # s => meta'[q] = meta[q]
      <3> DEFINE t == table[s]
                 st == tomcat[t].state
                 p == tomcat[t].port
      <3>1. meta' = [meta EXCEPT ![s].state = st, ![s].inst = t, ![s].port = p]
        BY <1>3 DEF Refresh
      <3>2. t \in Insts /\ p \in Ports /\ st \in {"starting", "running", "stopped"}
        BY <2>1
      <3> HIDE DEF t, st, p
      <3>3. /\ meta' \in [Servers -> MetaType]
            /\ meta'[s].state = st /\ meta'[s].port = p
            /\ \A q \in Servers : q # s => meta'[q] = meta[q]
        <4>1. meta[s] \in MetaType /\ meta \in [Servers -> MetaType]
          BY <1>1 DEF World
        <4> DEFINE m == [meta[s] EXCEPT !.state = st, !.inst = t, !.port = p]
        <4>2. meta' = [meta EXCEPT ![s] = m]
          BY <3>1, <4>1
        <4>3. m \in MetaType /\ m.state = st /\ m.port = p
          BY <3>2, <4>1 DEF MetaType, InstOrNone, PortOrNone
        <4> HIDE DEF m
        <4> QED
          BY <4>1, <4>2, <4>3
      <3> QED
        BY <3>3 DEF t, st, p
    <2>3. World' /\ Persists
      BY <1>1, <1>3, <2>1, <2>2, RunnerConstants DEF Refresh, World, Persists, Known
    <2> QED
      BY <1>2, <1>3, <2>3 DEF Refresh
  <1>4. ASSUME NEW i \in Insts, Bind(i) \/ Exit(i) \/ Reap(i) \/ Monitor(i) PROVE IndInv'
    <2>1. tomcat' \in [Insts -> TomcatType] /\ \A j \in Insts : tomcat'[j].port = tomcat[j].port
      <3>1. CASE Bind(i)
        BY <1>1, <3>1 DEF Bind, World, TomcatType
      <3>2. CASE Exit(i)
        <4> DEFINE t == [tomcat[i] EXCEPT !.alive = FALSE, !.killed = FALSE, !.spared = FALSE]
        <4>1. tomcat[i] \in TomcatType /\ tomcat \in [Insts -> TomcatType]
          BY <1>1 DEF World
        <4>2. tomcat' = [tomcat EXCEPT ![i] = t]
          BY <3>2, <4>1 DEF Exit
        <4>3. t \in TomcatType /\ t.port = tomcat[i].port
          BY <4>1 DEF TomcatType
        <4> HIDE DEF t
        <4> QED
          BY <4>1, <4>2, <4>3
      <3>3. CASE Reap(i) \/ Monitor(i)
        BY <1>1, <3>3 DEF Reap, Monitor, World, TomcatType
      <3> QED
        BY <1>4, <3>1, <3>2, <3>3
    <2>2. World' /\ Persists
      BY <1>1, <1>4, <2>1, ProcessOnly DEF Bind, Exit, Reap, Monitor, World
    <2> QED
      BY <1>2, <1>4, <2>2 DEF Bind, Exit, Reap, Monitor
  <1>5. CASE AgentExit
    <2>1. tomcat' \in [Insts -> TomcatType]
      <3>1. ASSUME NEW t \in TomcatType PROVE Orphan(t) \in TomcatType
        BY RunnerConstants DEF Orphan, NoProcess, TomcatType
      <3>2. NoProcess \in TomcatType
        BY DEF NoProcess, TomcatType, PortOrNone
      <3> QED
        BY <1>1, <1>5, <3>1, <3>2 DEF AgentExit, World
    <2>2. ASSUME NEW m \in MetaType
          PROVE  Load(m) \in MetaType /\ Load(m).port = m.port
                 /\ (Load(m).state # "absent" => m.state # "absent")
      BY DEF Load, MetaType
    <2>3. /\ meta' \in [Servers -> MetaType] /\ disk' = meta'
          /\ \A s \in Servers : meta'[s].state # "absent" => meta'[s].port # None
      BY <1>1, <1>5, <2>2 DEF AgentExit, World
    <2>4. /\ table' \in [Servers -> InstOrNone] /\ \A s \in Servers : table'[s] = None
          /\ exits' \in 0..MaxExits /\ excused' \subseteq Servers
      BY <1>1, <1>5, RunnerConstants DEF AgentExit, World, InstOrNone
    <2>5. World'
      BY <2>1, <2>3, <2>4 DEF World, Known
    <2>6. op' = [o \in Ops |-> Idle]
      BY <1>5 DEF AgentExit
    <2>7. op' \in [Ops -> OpType] /\ \A o \in Ops : (Equipped(op[o]) /\ Anchored(op[o]))'
      BY <2>6 DEF Equipped, Anchored, Idle, OpType, StopStages, LaunchStages, InstOrNone, PortOrNone
    <2> QED
      BY <2>5, <2>7 DEF IndInv
  <1>6. CASE UNCHANGED vars
    <2>1. World' /\ Persists
      BY <1>1, <1>6, ProcessOnly DEF vars, World
    <2> QED
      BY <1>2, <1>6, <2>1 DEF vars
  <1> QED
    BY <1>3, <1>4, <1>5, <1>6

(* Every step keeps the invariant.                                         *)
LEMMA StepInv == IndInv /\ [Next]_vars => IndInv'
  BY RequestInv, StoppingInv, LaunchingInv, RecordingInv, OutsideInv DEF Next, Working

(* Every variable keeps its type, and every handler has at hand what its   *)
(* stage needs (server.go, realServerRunner), for any number of servers,   *)
(* requests, processes and deaths of the agent.                            *)
THEOREM TypeCorrect == Spec => []TypeOK
  <1>1. IndInv => TypeOK
    BY DEF IndInv, World, Equipped, TypeOK
  <1> QED
    BY InitInv, StepInv, <1>1, PTL DEF Spec

-----------------------------------------------------------------------------
(* A handler that is carrying out a Restart of s, past its stop.           *)
Restarting(r, s) ==
    /\ r.pc # "idle" /\ r.pc \notin StopStages \cup {"untrack"}
    /\ r.kind = "restart" /\ r.server = s

(* A Restart under way, said of one handler's record.                      *)
LEMMA UnderWay == \A s : RestartUnderWay(s) <=> \E o \in Ops : Restarting(op[o], s)
  BY DEF RestartUnderWay, InFlight, Restarting

(* The servers other than the one a handler works on are not its business. *)
LEMMA Others ==
  ASSUME op \in [Ops -> OpType], NEW o \in Ops, NEW s \in Servers,
         \A q \in Ops : q # o => op'[q] = op[q],
         Restarting(op[o], s) => Restarting(op'[o], s),
         RestartUnderWay(s)
  PROVE  RestartUnderWay(s)'
  <1>1. PICK q \in Ops : Restarting(op[q], s)
    BY UnderWay
  <1>2. Restarting(op'[q], s)
    BY <1>1
  <1> QED
    BY <1>2 DEF Restarting, RestartUnderWay, InFlight

(* A handler's step that leaves records and table alone and abandons no    *)
(* Restart.                                                                *)
LEMMA Unnoticed ==
  ASSUME RunningIsTracked, op \in [Ops -> OpType], NEW o \in Ops,
         \A q \in Ops : q # o => op'[q] = op[q],
         \A s \in Servers : Restarting(op[o], s) => Restarting(op'[o], s),
         \A s \in Servers : meta'[s].state = meta[s].state,
         UNCHANGED table
  PROVE  RunningIsTracked'
  BY Others DEF RunningIsTracked

(* Every step keeps running servers tracked.                               *)
LEMMA TrackedStep ==
  ASSUME IndInv, RunningIsTracked, [Next]_vars
  PROVE  RunningIsTracked'
  <1>1. World /\ op \in [Ops -> OpType] /\ \A o \in Ops : Equipped(op[o])
    BY DEF IndInv
  <1>2. ASSUME NEW o \in Ops, Request(o) PROVE RunningIsTracked'
    <2>1. op[o].pc = "idle" /\ \A q \in Ops : q # o => op'[q] = op[q]
      BY <1>1, <1>2 DEF Request, BeginStart, BeginStop, BeginRestart, BeginDebug, BeginRecover,
                        Begin, At
    <2>2. UNCHANGED table /\ \A s \in Servers : meta'[s].state = meta[s].state
      BY <1>1, <1>2 DEF Request, BeginStart, BeginStop, BeginRestart, BeginDebug, BeginRecover,
                        World, MetaType
    <2> QED
      BY <1>1, <2>1, <2>2, Unnoticed DEF Restarting
  <1>3. ASSUME NEW o \in Ops, Stopping(o) PROVE RunningIsTracked'
    <2>1. op[o].pc \in StopStages
      BY <1>3 DEF Stopping, SignalTerm, GraceExpires, SignalKill, Gone, ForceExpires, At, StopStages
    <2>2. \A q \in Ops : q # o => op'[q] = op[q]
      BY <1>1, <1>3 DEF Stopping, SignalTerm, GraceExpires, SignalKill, Gone, ForceExpires, Goto
    <2>3. UNCHANGED <<meta, table>>
      BY <1>3 DEF Stopping, SignalTerm, GraceExpires, SignalKill, Gone, ForceExpires
    <2> QED
      BY <1>1, <2>1, <2>2, <2>3, Unnoticed DEF Restarting
  <1>4. ASSUME NEW o \in Ops, Launching(o) PROVE RunningIsTracked'
    <2>1. \A q \in Ops : q # o => op'[q] = op[q]
      BY <1>1, <1>4 DEF Launching, PickPort, LeasePort, Spawn, SpawnFails, Ready, ProbeExpires,
                        Aborted, AfterAbort, FailLaunch, Goto, Return
    <2>2. op[o].kind = "restart" =>
             /\ op'[o].pc \in {"spawn", "lease", "error", "probe", "record", "abort"}
             /\ op'[o].kind = op[o].kind /\ op'[o].server = op[o].server
      <3>1. ASSUME FailLaunch(o) \/ AfterAbort(o), op[o].kind = "restart"
            PROVE  /\ op'[o].pc \in {"lease", "error"}
                   /\ op'[o].kind = op[o].kind /\ op'[o].server = op[o].server
        BY <1>1, <3>1 DEF FailLaunch, AfterAbort, OpType
      <3>2. CASE PickPort(o) \/ LeasePort(o)
        <4>1. PICK pc \in {"spawn", "lease", "error"} :
                 \/ Goto(o, pc)
                 \/ \E p \in Ports : op' = [op EXCEPT ![o].lease = p, ![o].port = p, ![o].pc = pc]
          BY <3>2 DEF PickPort, LeasePort, FreePorts
        <4>2. CASE Goto(o, pc)
          BY <1>1, <4>1, <4>2 DEF Goto, OpType
        <4>3. ASSUME NEW p \in Ports,
                     op' = [op EXCEPT ![o].lease = p, ![o].port = p, ![o].pc = pc]
              PROVE  op'[o].pc = pc /\ op'[o].kind = op[o].kind /\ op'[o].server = op[o].server
          BY <1>1, <4>3 DEF OpType
        <4> QED
          BY <4>1, <4>2, <4>3
      <3>3. CASE Spawn(o) \/ Ready(o)
        BY <1>1, <3>3 DEF Spawn, Ready, OpType
      <3>4. CASE SpawnFails(o) \/ Aborted(o)
        BY <3>1, <3>4 DEF SpawnFails, Aborted
      <3>5. CASE ProbeExpires(o)
        <4>1. CASE Goto(o, "abort")
          BY <1>1, <4>1 DEF Goto, OpType
        <4>2. CASE AfterAbort(o)
          BY <3>1, <4>2
        <4> QED
          BY <3>5, <4>1, <4>2 DEF ProbeExpires
      <3> QED
        BY <1>4, <3>2, <3>3, <3>4, <3>5 DEF Launching
    <2>3. UNCHANGED <<meta, table>>
      BY <1>4 DEF Launching, PickPort, LeasePort, Spawn, SpawnFails, Ready, ProbeExpires, Aborted
    <2> QED
      BY <1>1, <2>1, <2>2, <2>3, Unnoticed DEF Restarting, StopStages
  <1>5. ASSUME NEW o \in Ops, Recording(o) PROVE RunningIsTracked'
    <2>1. PICK s \in Servers : s = op[o].server /\ \A q \in Ops : q # o => op'[q] = op[q]
      BY <1>1, <1>5 DEF Recording, RecordStopped, RecordError, Untrack, ReadPort, Record, At,
                        Goto, Return, Equipped, OpType
    <2>2. ASSUME NEW z \in Servers, z # s PROVE RestartUnderWay(z) => RestartUnderWay(z)'
      BY <1>1, <2>1, <2>2, Others DEF Restarting
    <2>3. CASE RecordStopped(o) \/ RecordError(o) \/ Record(o)
      <3>1. /\ meta'[s].state # "running" \/ table'[s] # None
            /\ \A z \in Servers : z # s => meta'[z] = meta[z] /\ table'[z] = table[z]
        BY <1>1, <2>1, <2>3, RunnerConstants
        DEF RecordStopped, RecordError, Record, Save, World, MetaType, At, Equipped, LaunchStages
      <3> QED
        BY <2>2, <3>1 DEF RunningIsTracked
    <2>4. CASE Untrack(o)
      <3>1. Restarting(op'[o], s) /\ UNCHANGED meta
        BY <1>1, <2>1, <2>4 DEF Untrack, At, Goto, Restarting, Equipped, OpType, StopStages
      <3>2. RestartUnderWay(s)'
        BY <3>1 DEF Restarting, RestartUnderWay, InFlight
      <3>3. \A z \in Servers : z # s => table'[z] = table[z]
        BY <1>1, <2>1, <2>4 DEF Untrack, World
      <3>4. ASSUME NEW z \in Servers, meta'[z].state = "running"
            PROVE  table'[z] # None \/ RestartUnderWay(z)'
        <4>1. CASE z = s
          BY <3>2, <4>1
        <4>2. CASE z # s
          BY <2>2, <3>1, <3>3, <3>4, <4>2 DEF RunningIsTracked
        <4> QED
          BY <4>1, <4>2
      <3> QED
        BY <3>4 DEF RunningIsTracked
    <2>5. CASE ReadPort(o)
      <3>1. Restarting(op'[o], s) /\ UNCHANGED <<meta, table>>
        BY <1>1, <2>1, <2>5 DEF ReadPort, At, Restarting, Equipped, OpType, StopStages
      <3> QED
        BY <1>1, <2>1, <3>1, Unnoticed DEF Restarting
    <2> QED
      BY <1>5, <2>3, <2>4, <2>5 DEF Recording
  <1>6. ASSUME UNCHANGED op, UNCHANGED <<meta, table>> \/ \E s \in Servers : Refresh(s)
        PROVE  RunningIsTracked'
    <2>1. \A z : RestartUnderWay(z) <=> RestartUnderWay(z)'
      BY <1>6 DEF RestartUnderWay, InFlight
    <2>2. CASE UNCHANGED <<meta, table>>
      BY <2>1, <2>2 DEF RunningIsTracked
    <2>3. ASSUME NEW s \in Servers, Refresh(s) PROVE RunningIsTracked'
      <3>1. table'[s] # None /\ table' = table /\ \A z \in Servers : z # s => meta'[z] = meta[z]
        BY <1>1, <2>3 DEF Refresh, World
      <3> QED
        BY <2>1, <3>1 DEF RunningIsTracked
    <2> QED
      BY <1>6, <2>2, <2>3
  <1>7. CASE AgentExit
    <2>1. \A s \in Servers : meta'[s].state # "running"
      BY <1>1, <1>7 DEF AgentExit, Load, World, MetaType
    <2> QED
      BY <2>1 DEF RunningIsTracked
  <1> QED
    BY <1>2, <1>3, <1>4, <1>5, <1>6, <1>7
    DEF Next, Working, Refresh, Bind, Exit, Reap, Monitor, vars

(* A server shown as running has an instance that can be stopped, or a     *)
(* Restart on its way to recording one or an error, whatever requests      *)
(* overlap and whenever the agent dies (server.go, Stop, Restart, load).   *)
THEOREM RunningTracked == Spec => []RunningIsTracked
  <1>1. Init => RunningIsTracked
    BY DEF Init, NoMeta, RunningIsTracked
  <1>2. IndInv /\ RunningIsTracked /\ [Next]_vars => RunningIsTracked'
    BY TrackedStep
  <1> QED
    BY InitInv, StepInv, <1>1, <1>2, PTL DEF Spec

-----------------------------------------------------------------------------
(* No leak, and no live process behind a stopped server.                   *)
(*                                                                         *)
(* A live process of this agent that no stop has given up on.              *)
Minded(i) == Managed(i) /\ ~tomcat[i].spared

(* A process of this agent that was launched for s.                        *)
Ours(i, s) == tomcat[i].server = s /\ tomcat[i].mgr \in {"running", "stopping", "stopped"}

(* A process that was reaped or is noticed as gone is dead, and every      *)
(* process of this agent was launched for some server.                     *)
ProcessInv ==
    \A i \in Insts :
        /\ tomcat[i].mgr = "stopped" \/ tomcat[i].state = "stopped" => ~tomcat[i].alive
        /\ tomcat[i].mgr \in {"running", "stopping", "stopped"} => tomcat[i].server \in Servers

(* Whatever the table, a record or a handler refers to was launched for    *)
(* its server, and by this agent unless only a record remembers it.        *)
References ==
    /\ \A s \in Servers : table[s] # None => Ours(table[s], s) /\ meta[s].inst = table[s]
    /\ \A s \in Servers : meta[s].state = "crashed" => table[s] = None
    /\ \A s \in Servers : meta[s].inst # None => tomcat[meta[s].inst].server = s
    /\ \A s \in Servers : disk[s].inst # None => tomcat[disk[s].inst].server = s
    /\ \A o \in Ops : op[o].pc # "idle" =>
          /\ op[o].inst # None => Ours(op[o].inst, op[o].server)
          /\ op[o].new # None => Ours(op[o].new, op[o].server)

(* A handler that has its server to itself: the table holds what it found  *)
(* there or nothing, and outside the stages in which it stops or launches  *)
(* a process it has none that lives, unless a stop gave up on it.          *)
Alone(o) == \A q \in Ops : op[q].pc # "idle" /\ op[q].server = op[o].server => q = o
InTurn(o) ==
    op[o].pc # "idle" /\ op[o].server \notin excused =>
      /\ Alone(o)
      /\ table[op[o].server] \in {None, op[o].inst}
      /\ op[o].kind = "stop" => op[o].inst # None /\ table[op[o].server] = op[o].inst
      /\ op[o].pc \notin StopStages => \A i \in Insts : op[o].inst = i => ~Minded(i)
      /\ op[o].pc \notin LaunchStages => \A i \in Insts : op[o].new = i => ~Minded(i)

WaitStages == {"await", "kill", "awaitkill", "awaitforce"}
Awaits(r, i) == (r.inst = i /\ r.pc \in WaitStages) \/ (r.new = i /\ r.pc = "abort")

(* A process that is being stopped, and was not given up on, has a handler *)
(* that waits for its end: this is what lets GracefulStop leave alone what *)
(* is not running.                                                         *)
StoppingIsAwaited ==
    \A i \in Insts : tomcat[i].alive /\ tomcat[i].mgr = "stopping"
                     /\ ~tomcat[i].spared /\ tomcat[i].server \notin excused
        => \E o \in Ops : Awaits(op[o], i)

RunnerInv ==
    IndInv /\ ProcessInv /\ References /\ (\A o \in Ops : InTurn(o)) /\ StoppingIsAwaited

(* What a step makes of a process that exists: it only goes towards its    *)
(* end.                                                                    *)
Ages(i) ==
    LET t == tomcat[i]  u == tomcat'[i] IN
    /\ u.server = t.server
    /\ u.alive => t.alive /\ (t.spared => u.spared)
    /\ u.mgr = t.mgr \/ (t.mgr \in {"running", "stopping"} /\ u.mgr \in {"stopping", "stopped"})
    /\ u.mgr = "stopped" \/ u.state = "stopped" => t.mgr = "stopped" \/ t.state = "stopped" \/ ~t.alive

(* A process that handler o launches in this step.                         *)
Launched(i, o) ==
    /\ tomcat[i].server = None /\ tomcat[i].mgr = "unused"
    /\ tomcat'[i].server = op[o].server /\ tomcat'[i].mgr = "running" /\ tomcat'[i].state = "starting"
    /\ op'[o].new = i /\ op'[o].pc = "probe"

(* What every step of a handler after its first critical section does, as  *)
(* far as the other handlers, the table and the processes can tell.        *)
Steps(o) ==
    LET s == op[o].server IN
    /\ op[o].pc # "idle"
    /\ \A q \in Ops : q # o => op'[q] = op[q]
    /\ op'[o].pc = "idle" \/ (/\ op'[o].server = s /\ op'[o].kind = op[o].kind
                              /\ op'[o].inst = op[o].inst)
    /\ op'[o].new \in {op[o].new, None} \/ (op'[o].new \in Insts /\ Launched(op'[o].new, o))
    /\ excused \subseteq excused'
    /\ \A z \in Servers : z # s => table'[z] = table[z] /\ meta'[z] = meta[z]
    /\ op'[o].pc # "idle" => table'[s] = table[s] \/ (op[o].kind = "restart" /\ table'[s] = None)
    /\ \A i \in Insts : Ages(i) \/ Launched(i, o)

(* It lets go only of what is dead, given up on or recorded in the table.  *)
LetsGo(o) ==
    op[o].server \notin excused' =>
      \A i \in Insts : Minded(i)' =>
        /\ op[o].inst = i => op'[o].pc \in StopStages
        /\ op[o].new = i => (op'[o].pc \in LaunchStages /\ op'[o].new = i)
                            \/ (op'[o].pc = "idle" /\ table'[op[o].server] = i)

(* It waits for every process it has begun to stop.                        *)
Waits(o) ==
    \A i \in Insts : tomcat'[i].alive /\ tomcat'[i].mgr = "stopping"
                     /\ ~tomcat'[i].spared /\ tomcat[i].server \notin excused'
        => Awaits(op'[o], i) \/ (tomcat[i].alive /\ tomcat[i].mgr = "stopping" /\ ~Awaits(op[o], i))

(* Types of everything, from the inductive invariant.                      *)
LEMMA RunnerFacts ==
  ASSUME RunnerInv
  PROVE  /\ meta \in [Servers -> MetaType] /\ disk \in [Servers -> MetaType]
         /\ table \in [Servers -> InstOrNone] /\ tomcat \in [Insts -> TomcatType]
         /\ op \in [Ops -> OpType] /\ excused \subseteq Servers
         /\ \A o \in Ops : Equipped(op[o]) /\ (op[o].pc # "idle" => op[o].server \in Servers)
         /\ None \notin Insts /\ None \notin Servers
  BY RunnerConstants DEF RunnerInv, IndInv, World, Equipped, OpType

(* A process a handler or the table refers to.                             *)
LEMMA Referred ==
  ASSUME RunnerInv, NEW o \in Ops, op[o].pc # "idle"
  PROVE  /\ \A i \in Insts : i \in {op[o].inst, op[o].new} => Ours(i, op[o].server)
         /\ op[o].inst \in InstOrNone /\ op[o].new \in InstOrNone
         /\ op[o].pc \in StopStages => op[o].inst \in Insts
         /\ op[o].pc \in LaunchStages => op[o].new \in Insts
  <1>1. op[o] \in OpType /\ Equipped(op[o]) /\ None \notin Insts
    BY RunnerFacts
  <1> QED
    BY <1>1 DEF RunnerInv, References, OpType, Equipped, InstOrNone

(* A handler that moves on keeps everything but its stage.                 *)
LEMMA Moved ==
  ASSUME RunnerInv, NEW o \in Ops, NEW pc, Goto(o, pc)
  PROVE  /\ \A q \in Ops : q # o => op'[q] = op[q]
         /\ op'[o].pc = pc /\ op'[o].server = op[o].server /\ op'[o].kind = op[o].kind
         /\ op'[o].inst = op[o].inst /\ op'[o].new = op[o].new
  BY RunnerFacts DEF Goto, OpType

(* Every process in a step that leaves them alone.                         *)
LEMMA SameAges == ASSUME UNCHANGED tomcat PROVE \A i \in Insts : Ages(i)
  BY DEF Ages

(* A handler that moves on in its stop, what it did to the process given.  *)
LEMMA StopMoves ==
  ASSUME RunnerInv, NEW o \in Ops, op[o].pc \in StopStages, NEW i \in Insts, i = op[o].inst,
         NEW pc, Goto(o, pc), pc \notin LaunchStages,
         UNCHANGED <<meta, disk, table>>, excused \subseteq excused',
         \A j \in Insts : j # i => tomcat'[j] = tomcat[j],
         Ages(i),
         op[o].server \notin excused' /\ Minded(i)' => pc \in StopStages,
         tomcat'[i].alive /\ tomcat'[i].mgr = "stopping" /\ ~tomcat'[i].spared
           /\ op[o].server \notin excused'
           => pc \in WaitStages \/ (tomcat[i].mgr = "stopping" /\ op[o].pc \notin WaitStages)
  PROVE  Steps(o) /\ LetsGo(o) /\ Waits(o)
  <1>1. op[o].pc # "idle" /\ op[o].pc \notin LaunchStages /\ op[o].pc # "abort"
    BY DEF StopStages, LaunchStages
  <1>2. Ours(i, op[o].server)
    BY <1>1, Referred
  <1>3. \A j \in Insts : Ages(j)
    BY <1>2 DEF Ages
  <1>4. Steps(o)
    BY <1>1, <1>3, Moved DEF Steps
  <1>5. \A j \in Insts : op[o].new = j => (Minded(j)' => Minded(j))
    BY <1>3 DEF Ages, Minded, Managed
  <1>6. LetsGo(o)
    <2>1. ASSUME NEW j \in Insts, op[o].server \notin excused', Minded(j)', op[o].inst = j
          PROVE op'[o].pc \in StopStages
      BY <2>1, Moved
    <2>2. ASSUME NEW j \in Insts, op[o].server \notin excused', Minded(j)', op[o].new = j
          PROVE FALSE
      <3>1. InTurn(o)
        BY DEF RunnerInv
      <3>2. ~Minded(j)
        BY <1>1, <2>2, <3>1 DEF InTurn
      <3> QED
        BY <1>5, <2>2, <3>2
    <2> QED
      BY <2>1, <2>2 DEF LetsGo
  <1>7. Waits(o)
    <2> SUFFICES ASSUME NEW j \in Insts, tomcat'[j].alive, tomcat'[j].mgr = "stopping",
                        ~tomcat'[j].spared, tomcat[j].server \notin excused'
                 PROVE  Awaits(op'[o], j)
                        \/ (tomcat[j].alive /\ tomcat[j].mgr = "stopping" /\ ~Awaits(op[o], j))
      BY DEF Waits
    <2>1. CASE j = i
      BY <1>1, <1>2, <1>3, <2>1, Moved DEF Awaits, Ours, Ages
    <2>2. CASE j # i
      BY <1>1, <2>2 DEF Awaits
    <2> QED
      BY <2>1, <2>2
  <1> QED
    BY <1>4, <1>6, <1>7

(* Every step of a stop is such a step: GracefulStop leaves a process      *)
(* alone only when it is gone or was given up on, since another handler    *)
(* that is stopping it would still have the server.                        *)
LEMMA StoppingSteps ==
  ASSUME RunnerInv, NEW o \in Ops, Stopping(o)
  PROVE  Steps(o) /\ LetsGo(o) /\ Waits(o) /\ UNCHANGED <<meta, disk, table>>
  <1>1. op[o].pc \in StopStages /\ op[o].pc # "idle" /\ op[o].pc \notin LaunchStages
    BY DEF Stopping, SignalTerm, GraceExpires, SignalKill, Gone, ForceExpires, At, StopStages, LaunchStages
  <1>0. PICK i \in Insts : i = op[o].inst
    BY <1>1, Referred
  <1> USE <1>0
  <1>2. Ours(i, op[o].server) /\ Equipped(op[o]) /\ op[o].server \in Servers
    BY <1>1, Referred, RunnerFacts
  <1>3. UNCHANGED <<meta, disk, table>> /\ excused \subseteq excused'
    BY DEF Stopping, SignalTerm, GraceExpires, SignalKill, Gone, ForceExpires
  <1>4. /\ AfterStop(o) \notin LaunchStages
        /\ AfterFailedStop(o, TRUE) \notin LaunchStages /\ AfterFailedStop(o, FALSE) \notin LaunchStages
    BY <1>1, <1>2 DEF AfterStop, AfterFailedStop, LaunchStages, Equipped
  <1>5. tomcat[i].mgr = "stopped" => ~Minded(i) /\ ~tomcat[i].alive
    BY <1>2 DEF RunnerInv, ProcessInv, Minded, Managed
  <1>6. tomcat[i] \in TomcatType /\ tomcat \in [Insts -> TomcatType]
    BY <1>2, RunnerFacts
  <1>7. ASSUME UNCHANGED tomcat
        PROVE  Ages(i) /\ (\A j \in Insts : j # i => tomcat'[j] = tomcat[j]) /\ (Minded(i)' <=> Minded(i))
    BY <1>7 DEF Ages, Minded, Managed
  <1>8. CASE SignalTerm(o)
    <2>1. ASSUME tomcat[i].mgr = "running", Signal(i, FALSE, TRUE), Goto(o, "await")
          PROVE  Steps(o) /\ LetsGo(o) /\ Waits(o)
      <3>1. Ages(i) /\ \A j \in Insts : j # i => tomcat'[j] = tomcat[j]
        BY <1>6, <2>1, Signalled DEF Ages
      <3> QED
        BY <1>1, <1>2, <1>3, <2>1, <3>1, StopMoves DEF StopStages, LaunchStages, WaitStages
    <2>2. ASSUME tomcat[i].mgr = "running", Signal(i, FALSE, FALSE),
                 Goto(o, AfterFailedStop(o, FALSE))
          PROVE  Steps(o) /\ LetsGo(o) /\ Waits(o)
      <3>1. /\ Ages(i) /\ \A j \in Insts : j # i => tomcat'[j] = tomcat[j]
            /\ ~tomcat'[i].alive \/ tomcat'[i].spared
        BY <1>6, <2>2, Signalled DEF Ages
      <3>2. ~Minded(i)'
        BY <3>1 DEF Minded, Managed
      <3> QED
        BY <1>1, <1>3, <1>4, <2>2, <3>1, <3>2, StopMoves
    <2>3. CASE tomcat[i].mgr # "running"
      <3>1. UNCHANGED <<tomcat, excused>> /\ Goto(o, AfterStop(o)) /\ op[o].pc = "stop"
        BY <1>8, <2>3 DEF SignalTerm, At
      <3>2. ~tomcat[i].alive \/ tomcat[i].spared \/ op[o].server \in excused
        <4> SUFFICES ASSUME tomcat[i].alive, ~tomcat[i].spared, op[o].server \notin excused
                     PROVE  FALSE
          OBVIOUS
        <4>1. tomcat[i].mgr = "stopping" /\ tomcat[i].server = op[o].server
          BY <1>2, <1>5, <2>3 DEF Ours
        <4>2. PICK q \in Ops : Awaits(op[q], i)
          BY <1>2, <4>1 DEF RunnerInv, StoppingIsAwaited
        <4>3. op[q].pc # "idle" /\ i \in {op[q].inst, op[q].new} /\ q # o
          BY <1>2, <3>1, <4>2 DEF Awaits, WaitStages
        <4>4. op[q].server = op[o].server
          BY <1>2, <4>1, <4>3, Referred DEF Ours
        <4>5. Alone(o)
          BY <1>1 DEF RunnerInv, InTurn
        <4> QED
          BY <4>3, <4>4, <4>5 DEF Alone
      <3>3. ~Minded(i) \/ op[o].server \in excused
        BY <3>2 DEF Minded, Managed
      <3> QED
        BY <1>1, <1>3, <1>4, <1>7, <3>1, <3>2, <3>3, StopMoves
    <2>4. \/ tomcat[i].mgr = "running" /\ Signal(i, FALSE, TRUE) /\ Goto(o, "await")
          \/ tomcat[i].mgr = "running" /\ Signal(i, FALSE, FALSE) /\ Goto(o, AfterFailedStop(o, FALSE))
          \/ tomcat[i].mgr # "running"
      BY <1>8 DEF SignalTerm
    <2> QED
      BY <1>3, <2>1, <2>2, <2>3, <2>4
  <1>9. CASE GraceExpires(o)
    <2>1. UNCHANGED <<tomcat, excused>> /\ Goto(o, "kill")
      BY <1>9 DEF GraceExpires
    <2> QED
      BY <1>1, <1>3, <1>7, <2>1, StopMoves DEF StopStages, LaunchStages, WaitStages
  <1>10. CASE Gone(o)
    <2>1. UNCHANGED <<tomcat, excused>> /\ Goto(o, AfterStop(o)) /\ tomcat[i].mgr = "stopped"
      BY <1>10 DEF Gone
    <2> QED
      BY <1>1, <1>3, <1>4, <1>5, <1>7, <2>1, StopMoves
  <1>11. CASE ForceExpires(o)
    <2>1. /\ tomcat' = [tomcat EXCEPT ![i].spared = @ \/ tomcat[i].alive]
          /\ Goto(o, AfterFailedStop(o, TRUE))
      BY <1>11 DEF ForceExpires
    <2>2. /\ Ages(i) /\ \A j \in Insts : j # i => tomcat'[j] = tomcat[j]
          /\ ~tomcat'[i].alive \/ tomcat'[i].spared
      BY <1>6, <2>1, GivenUp DEF Ages
    <2>3. ~Minded(i)'
      BY <2>2 DEF Minded, Managed
    <2> QED
      BY <1>1, <1>3, <1>4, <2>1, <2>2, <2>3, StopMoves
  <1>12. CASE SignalKill(o)
    <2>1. CASE tomcat[i].mgr = "stopped"
      <3>1. UNCHANGED <<tomcat, excused>> /\ Goto(o, AfterStop(o))
        BY <1>12, <2>1 DEF SignalKill
      <3> QED
        BY <1>1, <1>3, <1>4, <1>5, <1>7, <2>1, <3>1, StopMoves
    <2>2. ASSUME tomcat[i].mgr # "stopped", Signal(i, TRUE, TRUE),
                 Goto(o, "awaitforce") \/ Goto(o, "awaitkill")
          PROVE  Steps(o) /\ LetsGo(o) /\ Waits(o)
      <3>1. PICK pc \in {"awaitforce", "awaitkill"} : Goto(o, pc)
        BY <2>2
      <3>2. Ages(i) /\ \A j \in Insts : j # i => tomcat'[j] = tomcat[j]
        BY <1>2, <1>6, <2>2, Signalled DEF Ages, Ours
      <3> QED
        BY <1>1, <1>2, <1>3, <3>1, <3>2, StopMoves DEF StopStages, LaunchStages, WaitStages
    <2>3. ASSUME tomcat[i].mgr # "stopped", Signal(i, TRUE, FALSE),
                 Goto(o, AfterFailedStop(o, TRUE)) \/ Goto(o, AfterFailedStop(o, FALSE))
          PROVE  Steps(o) /\ LetsGo(o) /\ Waits(o)
      <3>1. PICK pc \in {AfterFailedStop(o, TRUE), AfterFailedStop(o, FALSE)} : Goto(o, pc)
        BY <2>3
      <3>2. /\ Ages(i) /\ \A j \in Insts : j # i => tomcat'[j] = tomcat[j]
            /\ ~tomcat'[i].alive \/ tomcat'[i].spared
        BY <1>2, <1>6, <2>3, Signalled DEF Ages, Ours
      <3>3. ~Minded(i)'
        BY <3>2 DEF Minded, Managed
      <3> QED
        BY <1>1, <1>3, <1>4, <3>1, <3>2, <3>3, StopMoves
    <2>4. \/ tomcat[i].mgr = "stopped"
          \/ /\ tomcat[i].mgr # "stopped" /\ Signal(i, TRUE, TRUE)
             /\ Goto(o, "awaitforce") \/ Goto(o, "awaitkill")
          \/ /\ tomcat[i].mgr # "stopped" /\ Signal(i, TRUE, FALSE)
             /\ Goto(o, AfterFailedStop(o, TRUE)) \/ Goto(o, AfterFailedStop(o, FALSE))
      BY <1>12 DEF SignalKill, At
    <2> QED
      BY <1>3, <2>1, <2>2, <2>3, <2>4
  <1> QED
    BY <1>3, <1>8, <1>9, <1>10, <1>11, <1>12 DEF Stopping

(* What a handler that gives up a launch goes on to.                       *)
LEMMA GivesUp ==
  ASSUME RunnerInv, NEW o \in Ops, FailLaunch(o) \/ AfterAbort(o)
  PROVE  /\ \A q \in Ops : q # o => op'[q] = op[q]
         /\ op'[o].pc = "idle" \/ (/\ op'[o].pc \in {"error", "lease"}
                                   /\ op'[o].server = op[o].server /\ op'[o].kind = op[o].kind
                                   /\ op'[o].inst = op[o].inst)
         /\ op'[o].new \in {op[o].new, None}
  BY RunnerFacts DEF FailLaunch, AfterAbort, Return, Idle, OpType

(* A handler that moves on in its launch, what it did to the process       *)
(* given.                                                                  *)
LEMMA LaunchMoves ==
  ASSUME RunnerInv, NEW o \in Ops, op[o].pc # "idle", op[o].pc \notin StopStages,
         UNCHANGED <<meta, table, excused>>,
         \A q \in Ops : q # o => op'[q] = op[q],
         op'[o].pc = "idle" \/ (/\ op'[o].server = op[o].server /\ op'[o].kind = op[o].kind
                                /\ op'[o].inst = op[o].inst),
         op'[o].new \in {op[o].new, None} \/ (op'[o].new \in Insts /\ Launched(op'[o].new, o)),
         \A i \in Insts : i # op[o].new => tomcat'[i] = tomcat[i] \/ Launched(i, o),
         \A i \in Insts : i = op[o].new =>
            /\ Ages(i)
            /\ Minded(i)' /\ op[o].pc \in LaunchStages =>
                  op'[o].pc \in LaunchStages /\ op'[o].new = i
            /\ tomcat'[i].alive /\ tomcat'[i].mgr = "stopping" /\ ~tomcat'[i].spared =>
                  (op'[o].pc = "abort" /\ op'[o].new = i)
                  \/ (tomcat[i].alive /\ tomcat[i].mgr = "stopping" /\ op[o].pc # "abort")
  PROVE  Steps(o) /\ LetsGo(o) /\ Waits(o)
  <1>1. op[o].pc \notin WaitStages
    BY DEF StopStages, WaitStages
  <1>2. \A i \in Insts : Ages(i) \/ Launched(i, o)
    BY DEF Ages
  <1>3. Steps(o)
    BY <1>2 DEF Steps
  <1>4. \A i \in Insts : i \in {op[o].inst, op[o].new} => tomcat[i].mgr # "unused"
    BY Referred DEF Ours
  <1>5. LetsGo(o)
    <2> SUFFICES ASSUME op[o].server \notin excused, NEW i \in Insts, Minded(i)'
                 PROVE  /\ op[o].inst # i
                        /\ op[o].new = i => op'[o].pc \in LaunchStages /\ op'[o].new = i
      BY DEF LetsGo
    <2>1. InTurn(o)
      BY DEF RunnerInv
    <2>2. i \in {op[o].inst, op[o].new} => Minded(i)
      BY <1>2, <1>4 DEF Minded, Managed, Ages, Launched
    <2> QED
      BY <2>1, <2>2 DEF InTurn
  <1>6. Waits(o)
    <2> SUFFICES ASSUME NEW i \in Insts, tomcat'[i].alive, tomcat'[i].mgr = "stopping",
                        ~tomcat'[i].spared
                 PROVE  Awaits(op'[o], i)
                        \/ (tomcat[i].alive /\ tomcat[i].mgr = "stopping" /\ ~Awaits(op[o], i))
      BY DEF Waits
    <2>1. ~Launched(i, o)
      BY DEF Launched
    <2> QED
      BY <1>1, <2>1 DEF Awaits
  <1> QED
    BY <1>3, <1>5, <1>6

(* So is every step of a launch.                                           *)
LEMMA LaunchingSteps ==
  ASSUME RunnerInv, NEW o \in Ops, Launching(o)
  PROVE  Steps(o) /\ LetsGo(o) /\ Waits(o) /\ UNCHANGED <<meta, disk, table>>
  <1>1. op[o].pc # "idle" /\ op[o].pc \notin StopStages
    BY DEF Launching, PickPort, LeasePort, Spawn, SpawnFails, Ready, ProbeExpires, Aborted, At, StopStages
  <1>2. UNCHANGED <<meta, disk, table, excused>>
    BY DEF Launching, PickPort, LeasePort, Spawn, SpawnFails, Ready, ProbeExpires, Aborted
  <1>3. op[o] \in OpType /\ op \in [Ops -> OpType] /\ tomcat \in [Insts -> TomcatType]
        /\ op[o].server \in Servers
    BY <1>1, RunnerFacts
  <1>4. ASSUME UNCHANGED tomcat, op[o].pc # "abort",
               \A q \in Ops : q # o => op'[q] = op[q],
               op'[o].pc = "idle" \/ (/\ op'[o].server = op[o].server /\ op'[o].kind = op[o].kind
                                      /\ op'[o].inst = op[o].inst),
               op'[o].new \in {op[o].new, None}, op[o].pc \notin LaunchStages
        PROVE  Steps(o) /\ LetsGo(o) /\ Waits(o)
    BY <1>1, <1>2, <1>4, LaunchMoves, SameAges
  <1>5. CASE PickPort(o)
    <2>1. PICK pc : Goto(o, pc)
      BY <1>5 DEF PickPort
    <2> QED
      BY <1>2, <1>4, <1>5, <2>1, Moved DEF PickPort, At, LaunchStages
  <1>6. CASE LeasePort(o)
    <2>1. UNCHANGED tomcat /\ op[o].pc = "lease"
      BY <1>6 DEF LeasePort, At
    <2>2. CASE Goto(o, "error")
      BY <1>2, <1>4, <2>1, <2>2, Moved DEF LaunchStages
    <2>3. ASSUME NEW p \in Ports,
                 op' = [op EXCEPT ![o].lease = p, ![o].port = p, ![o].pc = "spawn"]
          PROVE  Steps(o) /\ LetsGo(o) /\ Waits(o)
      <3>1. /\ \A q \in Ops : q # o => op'[q] = op[q]
            /\ op'[o].server = op[o].server /\ op'[o].kind = op[o].kind
            /\ op'[o].inst = op[o].inst /\ op'[o].new = op[o].new
        BY <1>3, <2>3 DEF OpType
      <3> QED
        BY <1>4, <2>1, <3>1 DEF LaunchStages
    <2> QED
      BY <1>2, <1>6, <2>2, <2>3 DEF LeasePort, FreePorts
  <1>7. CASE Spawn(o)
    <2>1. PICK i \in Insts :
             /\ tomcat[i] = NoProcess
             /\ tomcat' = [tomcat EXCEPT ![i] =
                             [NoProcess EXCEPT !.server = op[o].server, !.port = op[o].port,
                                               !.alive = TRUE, !.mgr = "running"]]
             /\ op' = [op EXCEPT ![o].new = i, ![o].pc = "probe"]
      BY <1>7, Zenon DEF Spawn
    <2>2. /\ \A q \in Ops : q # o => op'[q] = op[q]
          /\ op'[o].server = op[o].server /\ op'[o].kind = op[o].kind
          /\ op'[o].inst = op[o].inst /\ op'[o].new = i /\ op'[o].pc = "probe"
      BY <1>3, <2>1 DEF OpType
    <2>3. Launched(i, o) /\ \A j \in Insts : j # i => tomcat'[j] = tomcat[j]
      BY <1>3, <2>1, <2>2 DEF Launched, NoProcess
    <2>4. op[o].new # i
      BY <1>1, <2>3, Referred DEF Ours, Launched
    <2>5. op[o].pc = "spawn"
      BY <1>7 DEF Spawn, At
    <2>6. \A j \in Insts : j = op[o].new => Ages(j)
      BY <2>3, <2>4 DEF Ages
    <2> QED
      BY <1>1, <1>2, <2>2, <2>3, <2>4, <2>5, <2>6, LaunchMoves DEF LaunchStages
  <1>8. CASE SpawnFails(o)
    BY <1>2, <1>4, <1>8, GivesUp DEF SpawnFails, At, LaunchStages
  <1>9. ASSUME op[o].pc \in {"probe", "abort"}, NEW i \in Insts, i = op[o].new,
               AfterAbort(o), Ages(i), \A j \in Insts : j # i => tomcat'[j] = tomcat[j],
               ~tomcat'[i].alive \/ tomcat'[i].spared
        PROVE  Steps(o) /\ LetsGo(o) /\ Waits(o)
    <2>1. ~Minded(i)'
      BY <1>9 DEF Minded, Managed
    <2> QED
      BY <1>1, <1>2, <1>9, <2>1, GivesUp, LaunchMoves
  <1>10. CASE Ready(o) \/ ProbeExpires(o) \/ Aborted(o)
    <2>1. op[o].pc \in {"probe", "abort"} /\ op[o].pc \in LaunchStages
      BY <1>10 DEF Ready, ProbeExpires, Aborted, At, LaunchStages
    <2>2. PICK i \in Insts : i = op[o].new
      BY <1>1, <2>1, Referred
    <2>3. Ours(i, op[o].server) /\ tomcat[i] \in TomcatType
      BY <1>1, <1>3, <2>2, Referred
    <2>4. tomcat[i].mgr = "stopped" => ~tomcat[i].alive
      BY DEF RunnerInv, ProcessInv
    <2>5. CASE Ready(o)
      <3>1. tomcat' = [tomcat EXCEPT ![i].state = "running"] /\ op[o].pc = "probe"
        BY <1>10, <2>2, <2>5 DEF Ready, At
      <3>2. /\ \A q \in Ops : q # o => op'[q] = op[q]
            /\ op'[o].server = op[o].server /\ op'[o].kind = op[o].kind
            /\ op'[o].inst = op[o].inst /\ op'[o].new = op[o].new /\ op'[o].pc = "record"
        BY <1>3, <2>5 DEF Ready, OpType
      <3>3. /\ Ages(i) /\ tomcat'[i].mgr = tomcat[i].mgr /\ tomcat'[i].alive = tomcat[i].alive
            /\ \A j \in Insts : j # i => tomcat'[j] = tomcat[j]
        BY <1>3, <2>3, <3>1 DEF Ages, TomcatType
      <3> QED
        BY <1>1, <1>2, <2>2, <3>1, <3>2, <3>3, LaunchMoves DEF LaunchStages
    <2>6. ASSUME tomcat[i].mgr # "stopped", op[o].pc = "probe", Signal(i, TRUE, TRUE), Goto(o, "abort")
          PROVE  Steps(o) /\ LetsGo(o) /\ Waits(o)
      <3>1. Ages(i) /\ \A j \in Insts : j # i => tomcat'[j] = tomcat[j]
        BY <1>3, <2>3, <2>6, Signalled DEF Ages, Ours
      <3> QED
        BY <1>1, <1>2, <2>2, <2>6, <3>1, Moved, LaunchMoves DEF LaunchStages
    <2>7. ASSUME tomcat[i].mgr # "stopped", Signal(i, TRUE, FALSE), AfterAbort(o)
          PROVE  Steps(o) /\ LetsGo(o) /\ Waits(o)
      <3>1. /\ Ages(i) /\ \A j \in Insts : j # i => tomcat'[j] = tomcat[j]
            /\ ~tomcat'[i].alive \/ tomcat'[i].spared
        BY <1>3, <2>3, <2>7, Signalled DEF Ages, Ours
      <3> QED
        BY <1>2, <1>9, <2>1, <2>2, <2>7, <3>1
    <2>9. ProbeExpires(o) =>
             \/ tomcat[i].mgr # "stopped" /\ op[o].pc = "probe" /\ Signal(i, TRUE, TRUE) /\ Goto(o, "abort")
             \/ tomcat[i].mgr # "stopped" /\ Signal(i, TRUE, FALSE) /\ AfterAbort(o)
             \/ tomcat[i].mgr = "stopped" /\ UNCHANGED tomcat /\ AfterAbort(o)
      BY <2>2 DEF ProbeExpires, At
    <2>8. ASSUME tomcat[i].mgr = "stopped", UNCHANGED tomcat, AfterAbort(o)
          PROVE  Steps(o) /\ LetsGo(o) /\ Waits(o)
      BY <1>2, <1>9, <2>1, <2>2, <2>4, <2>8, SameAges
    <2>10. Aborted(o) => tomcat[i].mgr = "stopped" /\ UNCHANGED tomcat /\ AfterAbort(o)
      BY <2>2 DEF Aborted
    <2> QED
      BY <1>2, <1>10, <2>5, <2>6, <2>7, <2>8, <2>9, <2>10
  <1> QED
    BY <1>2, <1>5, <1>6, <1>7, <1>8, <1>10 DEF Launching

(* The last critical sections: what the record and the table say after     *)
(* each.                                                                   *)
Records(o) ==
    LET s == op[o].server IN
    \/ UNCHANGED <<meta, disk>> /\ table'[s] \in {table[s], None}
    \/ /\ disk' = meta'
       /\ meta'[s].state = "error" /\ meta'[s].inst = meta[s].inst /\ table'[s] = table[s]
    \/ /\ disk' = meta'
       /\ op[o].pc = "stopped"
       /\ meta'[s].state = "stopped" /\ meta'[s].inst = meta[s].inst /\ table'[s] = None
    \/ /\ disk' = meta'
       /\ op[o].pc = "record"
       /\ meta'[s].state = tomcat[op[o].new].state
       /\ meta'[s].inst = op[o].new /\ table'[s] = op[o].new

(* So are the last critical sections, and they record as they should.      *)
LEMMA RecordingSteps ==
  ASSUME RunnerInv, NEW o \in Ops, Recording(o)
  PROVE  Steps(o) /\ LetsGo(o) /\ Waits(o) /\ Records(o) /\ UNCHANGED tomcat
  <1> DEFINE s == op[o].server
  <1>1. op[o].pc \in {"stopped", "error", "untrack", "read", "record"}
    BY DEF Recording, RecordStopped, RecordError, Untrack, ReadPort, Record, At
  <1>2. op[o].pc # "idle" /\ op[o].pc \notin StopStages \cup WaitStages /\ op[o].pc # "abort"
    BY <1>1 DEF StopStages, WaitStages
  <1>3. UNCHANGED <<tomcat, excused>>
    BY DEF Recording, RecordStopped, RecordError, Untrack, ReadPort, Record
  <1>4. /\ op \in [Ops -> OpType] /\ meta \in [Servers -> MetaType] /\ Equipped(op[o])
        /\ table \in [Servers -> InstOrNone] /\ s \in Servers
    BY <1>2, RunnerFacts
  <1>5. Waits(o)
    BY <1>2, <1>3 DEF Waits, Awaits
  <1>6. \A i \in Insts : (Minded(i)' <=> Minded(i)) /\ Ages(i)
    BY <1>3, SameAges DEF Minded, Managed
  <1>7. /\ \A q \in Ops : q # o => op'[q] = op[q]
        /\ op'[o].pc = "idle" \/ (/\ op'[o].server = s /\ op'[o].kind = op[o].kind
                                  /\ op'[o].inst = op[o].inst)
        /\ op'[o].new \in {op[o].new, None}
    BY <1>4 DEF Recording, RecordStopped, RecordError, Untrack, ReadPort, Record, Return, Goto,
                Idle, OpType
  <1>8. /\ \A z \in Servers : z # s => table'[z] = table[z] /\ meta'[z] = meta[z]
        /\ op'[o].pc # "idle" => table'[s] = table[s] \/ (op[o].kind = "restart" /\ table'[s] = None)
        /\ Records(o)
        /\ op[o].pc = "record" => op'[o].pc = "idle" /\ table'[s] = op[o].new
    <2>1. CASE RecordStopped(o)
      BY <1>4, <2>1 DEF RecordStopped, Save, Return, Idle, At, Records, MetaType
    <2>2. CASE RecordError(o)
      BY <1>4, <2>2 DEF RecordError, Save, Return, Idle, At, Records, MetaType
    <2>3. CASE Untrack(o)
      BY <1>4, <2>3 DEF Untrack, At, Records, Equipped
    <2>4. CASE ReadPort(o)
      BY <1>4, <2>4 DEF ReadPort, At, Records
    <2>5. CASE Record(o)
      BY <1>4, <2>5 DEF Record, Save, Return, Idle, At, Records
    <2> QED
      BY <2>1, <2>2, <2>3, <2>4, <2>5 DEF Recording
  <1>9. Steps(o)
    BY <1>2, <1>3, <1>6, <1>7, <1>8 DEF Steps
  <1>10. LetsGo(o)
    <2> SUFFICES ASSUME s \notin excused, NEW i \in Insts, Minded(i)
                 PROVE  op[o].inst # i /\ (op[o].new = i => op[o].pc = "record")
      BY <1>3, <1>6, <1>8 DEF LetsGo
    <2>1. InTurn(o)
      BY DEF RunnerInv
    <2> QED
      BY <1>1, <1>2, <2>1 DEF InTurn, LaunchStages
  <1> QED
    BY <1>3, <1>5, <1>8, <1>9, <1>10

(* The first critical section of an operation.                             *)
Begins(o) ==
    \E s \in Servers :
        LET r == op'[o] IN
        /\ op[o].pc = "idle"
        /\ \A q \in Ops : q # o => op'[q] = op[q]
        /\ r.pc # "idle" /\ r.server = s /\ r.inst = table[s] /\ r.new = None
        /\ r.pc \notin LaunchStages \cup WaitStages
        /\ r.pc \notin StopStages => table[s] = None
        /\ r.kind = "stop" => table[s] # None
        /\ excused' = IF InFlight(s) = {} THEN excused ELSE excused \cup {s}
        /\ UNCHANGED <<disk, table, tomcat>>
        /\ \A z \in Servers : meta'[z].state = meta[z].state /\ meta'[z].inst = meta[z].inst

(* Every request begins so: it finds in the table what it will work on.    *)
LEMMA RequestSteps ==
  ASSUME RunnerInv, NEW o \in Ops, Request(o)
  PROVE  Begins(o)
  <1>1. /\ op \in [Ops -> OpType] /\ meta \in [Servers -> MetaType]
        /\ table \in [Servers -> InstOrNone] /\ None \notin Insts
    BY RunnerFacts
  <1>2. \A s \in Servers : table[s] # None => Known(s) /\ meta[s].state # "crashed"
    BY DEF RunnerInv, IndInv, World, References
  <1>3. UNCHANGED <<disk, table, tomcat>>
    BY DEF Request, BeginStart, BeginStop, BeginRestart, BeginDebug, BeginRecover
  <1>4. \A z \in Servers : meta'[z].state = meta[z].state /\ meta'[z].inst = meta[z].inst
    BY <1>1 DEF Request, BeginStart, BeginStop, BeginRestart, BeginDebug, BeginRecover, MetaType
  <1>5. ASSUME NEW s \in Servers, NEW kind, NEW pc, NEW inst, NEW port, NEW lease,
               Begin(o, kind, s, pc, inst, port, lease), inst = table[s],
               pc \in {"stop", "force", "read", "spawn", "pick"},
               pc \notin StopStages => table[s] = None, kind = "stop" => table[s] # None
        PROVE  Begins(o)
    BY <1>1, <1>3, <1>4, <1>5 DEF Begin, Begins, At, LaunchStages, WaitStages
  <1>6. ASSUME NEW s \in Servers, NEW p \in Ports, BeginStart(o, s, p) PROVE Begins(o)
    BY <1>2, <1>5, <1>6 DEF BeginStart
  <1>7. ASSUME NEW s \in Servers, NEW force \in BOOLEAN, BeginStop(o, s, force) PROVE Begins(o)
    BY <1>5, <1>7 DEF BeginStop, StopStages
  <1>8. ASSUME NEW s \in Servers, BeginRestart(o, s) PROVE Begins(o)
    BY <1>5, <1>8 DEF BeginRestart, StopStages
  <1>9. ASSUME NEW s \in Servers, BeginDebug(o, s) PROVE Begins(o)
    BY <1>5, <1>9 DEF BeginDebug, StopStages
  <1>10. ASSUME NEW s \in Servers, BeginRecover(o, s) PROVE Begins(o)
    BY <1>2, <1>5, <1>10 DEF BeginRecover
  <1> QED
    BY <1>6, <1>7, <1>8, <1>9, <1>10 DEF Request

(* What happens outside the handlers, the death of the agent apart.        *)
Elsewhere ==
    /\ UNCHANGED <<op, table, disk, excused>>
    /\ \A i \in Insts : Ages(i) /\ (tomcat'[i].mgr = "stopping" => tomcat[i].mgr = "stopping")
    /\ \A z \in Servers :
          \/ meta'[z].state = meta[z].state /\ meta'[z].inst = meta[z].inst
          \/ /\ table[z] # None /\ meta'[z].inst = table[z]
             /\ meta'[z].state = tomcat[table[z]].state

(* Get and List, the processes and a step of nobody.                       *)
LEMMA ElsewhereSteps ==
  ASSUME RunnerInv,
         \/ \E s \in Servers : Refresh(s)
         \/ \E i \in Insts : Bind(i) \/ Exit(i) \/ Reap(i) \/ Monitor(i)
         \/ UNCHANGED vars
  PROVE  Elsewhere
  <1>1. tomcat \in [Insts -> TomcatType] /\ meta \in [Servers -> MetaType]
    BY RunnerFacts
  <1>2. CASE UNCHANGED vars
    BY <1>2 DEF vars, Elsewhere, Ages
  <1>3. ASSUME NEW s \in Servers, Refresh(s) PROVE Elsewhere
    <2>1. UNCHANGED <<tomcat, op, table, disk, excused>> /\ table[s] # None
      BY <1>3 DEF Refresh
    <2>2. /\ \A z \in Servers : z # s => meta'[z] = meta[z]
          /\ meta'[s].state = tomcat[table[s]].state /\ meta'[s].inst = table[s]
      BY <1>1, <1>3 DEF Refresh, MetaType
    <2> QED
      BY <2>1, <2>2 DEF Elsewhere, Ages
  <1>4. ASSUME NEW i \in Insts, Bind(i) \/ Exit(i) \/ Reap(i) \/ Monitor(i) PROVE Elsewhere
    <2>1. UNCHANGED <<op, table, disk, excused, meta>>
      BY <1>4 DEF Bind, Exit, Reap, Monitor
    <2>2. tomcat[i] \in TomcatType
      BY <1>1
    <2>3. /\ \A j \in Insts : j # i => tomcat'[j] = tomcat[j]
          /\ Ages(i) /\ (tomcat'[i].mgr = "stopping" => tomcat[i].mgr = "stopping")
      <3>1. CASE Bind(i)
        BY <1>1, <2>2, <3>1 DEF Bind, Ages, TomcatType
      <3>2. CASE Exit(i)
        BY <1>1, <2>2, <3>2 DEF Exit, Ages, TomcatType
      <3>3. CASE Reap(i)
        BY <1>1, <2>2, <3>3 DEF Reap, Ages, TomcatType
      <3>4. CASE Monitor(i)
        BY <1>1, <2>2, <3>4 DEF Monitor, Ages, TomcatType
      <3> QED
        BY <1>4, <3>1, <3>2, <3>3, <3>4
    <2> QED
      BY <2>1, <2>3 DEF Elsewhere, Ages
  <1> QED
    BY <1>2, <1>3, <1>4

(* The death of the agent, as far as the invariant can tell.               *)
Dies ==
    /\ \A o \in Ops : op'[o].pc = "idle"
    /\ \A i \in Insts :
          /\ tomcat'[i].server = tomcat[i].server /\ (tomcat'[i].alive => tomcat[i].alive)
          /\ tomcat'[i].alive /\ tomcat[i].spared => tomcat'[i].spared
          /\ tomcat'[i].mgr \in {"unused", "lost"} /\ tomcat'[i].state = "starting"
    /\ \A s \in Servers :
          /\ table'[s] = None /\ meta'[s].inst = disk[s].inst
          /\ meta'[s].state = "stopped" => disk[s].state = "stopped"
    /\ disk' = meta' /\ excused' = excused

(* The death of the agent has these effects.                               *)
LEMMA ExitDies ==
  ASSUME RunnerInv, AgentExit
  PROVE  Dies
  <1>1. tomcat \in [Insts -> TomcatType] /\ disk \in [Servers -> MetaType]
    BY RunnerFacts
  <1>2. \A o \in Ops : op'[o].pc = "idle"
    BY DEF AgentExit, Idle
  <1>3. ASSUME NEW i \in Insts
        PROVE  /\ tomcat'[i].server = tomcat[i].server /\ (tomcat'[i].alive => tomcat[i].alive)
               /\ tomcat'[i].alive /\ tomcat[i].spared => tomcat'[i].spared
               /\ tomcat'[i].mgr \in {"unused", "lost"} /\ tomcat'[i].state = "starting"
    BY <1>1 DEF AgentExit, Orphan, NoProcess, TomcatType
  <1>4. ASSUME NEW s \in Servers
        PROVE  /\ table'[s] = None /\ meta'[s].inst = disk[s].inst
               /\ meta'[s].state = "stopped" => disk[s].state = "stopped"
    BY <1>1 DEF AgentExit, Load, MetaType
  <1> QED
    BY <1>2, <1>3, <1>4 DEF Dies, AgentExit

(* A step of a handler after its first critical section.                   *)
Handles(o) == Steps(o) /\ LetsGo(o) /\ Waits(o) /\ Records(o)

(* Every step is of one of these four kinds.                               *)
LEMMA RunnerSteps ==
  ASSUME RunnerInv, [Next]_vars
  PROVE  (\E o \in Ops : Begins(o) \/ Handles(o)) \/ Elsewhere \/ Dies
  <1>1. ASSUME NEW o \in Ops, Stopping(o) \/ Launching(o) PROVE Handles(o)
    BY <1>1, StoppingSteps, LaunchingSteps DEF Handles, Records
  <1>2. ASSUME NEW o \in Ops, Recording(o) PROVE Handles(o)
    BY <1>2, RecordingSteps DEF Handles
  <1> QED
    BY <1>1, <1>2, RequestSteps, ElsewhereSteps, ExitDies DEF Next, Working

-----------------------------------------------------------------------------
(* A process that is referred to only ages.                                *)
LEMMA OursAges ==
  ASSUME NEW i, NEW s, Ages(i), Ours(i, s)
  PROVE  /\ tomcat'[i].server = s /\ tomcat'[i].mgr \in {"running", "stopping", "stopped"}
         /\ tomcat'[i].alive => tomcat[i].alive /\ (tomcat[i].spared => tomcat'[i].spared)
         /\ tomcat'[i].alive /\ tomcat'[i].mgr \in {"running", "stopping"} =>
               tomcat[i].alive /\ tomcat[i].mgr \in {"running", "stopping"}
  BY DEF Ages, Ours

(* Every step keeps reaped processes dead and processes with a server.     *)
LEMMA ProcessStep ==
  ASSUME RunnerInv, [Next]_vars
  PROVE  ProcessInv'
  <1> DEFINE Sound(i) ==
               /\ tomcat'[i].mgr = "stopped" \/ tomcat'[i].state = "stopped" => ~tomcat'[i].alive
               /\ tomcat'[i].mgr \in {"running", "stopping", "stopped"} => tomcat'[i].server \in Servers
  <1> SUFFICES ASSUME NEW i \in Insts PROVE Sound(i)
    BY DEF ProcessInv
  <1>1. /\ tomcat[i].mgr = "stopped" \/ tomcat[i].state = "stopped" => ~tomcat[i].alive
        /\ tomcat[i].mgr \in {"running", "stopping", "stopped"} => tomcat[i].server \in Servers
    BY DEF RunnerInv, ProcessInv
  <1>2. CASE Ages(i)
    BY <1>1, <1>2 DEF Ages
  <1>3. ASSUME NEW o \in Ops, Launched(i, o), op[o].pc # "idle" PROVE Sound(i)
    BY <1>3, RunnerFacts DEF Launched
  <1>4. CASE Dies
    BY <1>4 DEF Dies
  <1>5. (\E o \in Ops : Begins(o) \/ Handles(o)) \/ Elsewhere
        => Ages(i) \/ \E o \in Ops : Launched(i, o) /\ op[o].pc # "idle"
    BY DEF Begins, Handles, Steps, Elsewhere, Ages
  <1> QED
    BY <1>2, <1>3, <1>4, <1>5, RunnerSteps

(* What is referred to stays what it is, until the agent dies.             *)
LEMMA StillOurs ==
  ASSUME RunnerInv, (\E o \in Ops : Begins(o) \/ Handles(o)) \/ Elsewhere
  PROVE  \A i \in Insts : \A s \in Servers :
            /\ tomcat[i].server = s => tomcat'[i].server = s
            /\ Ours(i, s) => Ours(i, s)'
  <1>1. \A i \in Insts : Ages(i) \/ (tomcat[i].server = None /\ None \notin Servers)
    BY RunnerFacts DEF Begins, Handles, Steps, Elsewhere, Launched, Ages
  <1> QED
    BY <1>1 DEF Ages, Ours

(* Every step keeps what is referred to the business of its server.        *)
LEMMA ReferencesStep ==
  ASSUME RunnerInv, [Next]_vars
  PROVE  References'
  <1>0. /\ table \in [Servers -> InstOrNone] /\ meta \in [Servers -> MetaType]
        /\ disk \in [Servers -> MetaType] /\ op \in [Ops -> OpType]
        /\ tomcat \in [Insts -> TomcatType]
        /\ None \notin Insts /\ None \notin Servers
        /\ \A o \in Ops : op[o].pc # "idle" => op[o].server \in Servers
    BY RunnerFacts
  <1>1. References
    BY DEF RunnerInv
  <1>2. /\ \A s \in Servers : disk[s].inst # None => disk[s].inst \in Insts
        /\ \A s \in Servers : meta[s].inst # None => meta[s].inst \in Insts
        /\ \A s \in Servers : table[s] # None => table[s] \in Insts
        /\ \A o \in Ops : op[o].inst \in Insts \cup {None} /\ op[o].new \in Insts \cup {None}
        /\ \A i \in Insts : tomcat[i].state # "crashed"
    BY <1>0 DEF MetaType, OpType, InstOrNone, TomcatType
  <1>3. CASE Dies
    <2>1. \A s \in Servers : table'[s] = None
      BY <1>3 DEF Dies
    <2>2. \A s \in Servers : meta'[s].inst # None => tomcat'[meta'[s].inst].server = s
      BY <1>1, <1>2, <1>3 DEF Dies, References
    <2>3. disk' = meta' /\ \A o \in Ops : op'[o].pc = "idle"
      BY <1>3 DEF Dies
    <2> QED
      BY <2>1, <2>2, <2>3 DEF References
  <1> DEFINE Known2(s) ==
               /\ table'[s] # None => Ours(table[s], s)' /\ meta'[s].inst = table'[s]
               /\ meta'[s].state = "crashed" => table'[s] = None
               /\ meta'[s].inst # None => tomcat'[meta'[s].inst].server = s
               /\ disk'[s].inst # None => tomcat'[disk'[s].inst].server = s
             Held(o) ==
               op'[o].pc # "idle" =>
                 /\ op'[o].inst # None => Ours(op[o].inst, op[o].server)'
                 /\ op'[o].new # None => Ours(op[o].new, op[o].server)'
  <1>4. ASSUME \A s \in Servers : Known2(s), \A o \in Ops : Held(o) PROVE References'
    BY <1>4 DEF References
  <1>5. CASE Elsewhere
    <2>1. UNCHANGED <<op, table, disk>>
      BY <1>5 DEF Elsewhere
    <2>2. ASSUME NEW s \in Servers PROVE Known2(s)
      BY <1>1, <1>2, <1>5, <2>1, StillOurs DEF Elsewhere, References, Ours
    <2>3. ASSUME NEW o \in Ops PROVE Held(o)
      BY <1>0, <1>1, <1>2, <1>5, <2>1, StillOurs DEF References, Ours
    <2> QED
      BY <1>4, <2>2, <2>3
  <1>6. ASSUME NEW o \in Ops, Begins(o) PROVE References'
    <2>1. UNCHANGED <<disk, table, tomcat>>
          /\ \A z \in Servers : meta'[z].state = meta[z].state /\ meta'[z].inst = meta[z].inst
      BY <1>6 DEF Begins
    <2>2. ASSUME NEW s \in Servers PROVE Known2(s)
      BY <1>1, <2>1 DEF References, Ours
    <2>3. ASSUME NEW q \in Ops PROVE Held(q)
      <3>1. CASE q = o
        BY <1>1, <1>6, <3>1 DEF Begins, References, Ours
      <3>2. CASE q # o
        BY <1>1, <1>6, <3>2 DEF Begins, References, Ours
      <3> QED
        BY <3>1, <3>2
    <2> QED
      BY <1>4, <2>2, <2>3
  <1>7. ASSUME NEW o \in Ops, Handles(o) PROVE References'
    <2>1. PICK s \in Servers :
             s = op[o].server /\ Steps(o) /\ Records(o) /\ op[o].pc # "idle"
      BY <1>0, <1>7 DEF Handles, Steps
    <2>2. ASSUME NEW z \in Servers, z # s PROVE Known2(z)
      <3>1. table'[z] = table[z] /\ meta'[z] = meta[z]
            /\ (disk'[z] = disk[z] \/ disk'[z] = meta'[z])
        BY <2>1, <2>2 DEF Steps, Records
      <3> QED
        BY <1>1, <1>2, <1>7, <3>1, StillOurs DEF References, Ours
    <2>3. Known2(s)
      <3>1. CASE UNCHANGED <<meta, disk>> /\ table'[s] \in {table[s], None}
        BY <1>1, <1>2, <1>7, <2>1, <3>1, StillOurs DEF References, Ours
      <3>2. CASE /\ disk' = meta'
                 /\ meta'[s].state = "error" /\ meta'[s].inst = meta[s].inst /\ table'[s] = table[s]
        BY <1>1, <1>2, <1>7, <2>1, <3>2, StillOurs DEF References, Ours
      <3>3. CASE /\ disk' = meta'
                 /\ meta'[s].state = "stopped" /\ meta'[s].inst = meta[s].inst /\ table'[s] = None
        BY <1>1, <1>2, <1>7, <2>1, <3>3, StillOurs DEF References, Ours
      <3>4. CASE /\ disk' = meta' /\ op[o].pc = "record"
                 /\ meta'[s].state = tomcat[op[o].new].state
                 /\ meta'[s].inst = op[o].new /\ table'[s] = op[o].new
        <4>1. op[o].new \in Insts /\ Ours(op[o].new, s)
          BY <2>1, <3>4, Referred DEF LaunchStages
        <4> QED
          BY <1>2, <1>7, <2>1, <3>4, <4>1, StillOurs DEF Ours
      <3> QED
        BY <2>1, <3>1, <3>2, <3>3, <3>4 DEF Records
    <2>4. ASSUME NEW q \in Ops PROVE Held(q)
      <3>1. CASE q # o
        <4>1. op'[q] = op[q]
          BY <2>1, <3>1 DEF Steps
        <4> QED
          BY <1>0, <1>1, <1>2, <1>7, <4>1, StillOurs DEF References, Ours
      <3>2. CASE q = o /\ op'[o].pc # "idle"
        <4>1. op'[o].server = s /\ op'[o].inst = op[o].inst
          BY <2>1, <3>2 DEF Steps
        <4>2. op[o].inst # None => Ours(op[o].inst, s)'
          <5>1. op[o].inst # None => op[o].inst \in Insts /\ Ours(op[o].inst, s)
            BY <1>1, <1>2, <2>1 DEF References
          <5> QED
            BY <1>7, <2>1, <4>1, <5>1, StillOurs DEF Ours
        <4>3. op'[o].new # None => Ours(op[o].new, s)'
          <5>1. CASE op'[o].new \in {op[o].new, None}
            BY <1>1, <1>2, <1>7, <2>1, <4>1, <5>1, StillOurs DEF References, Ours
          <5>2. CASE op'[o].new \in Insts /\ Launched(op'[o].new, o)
            BY <2>1, <4>1, <5>2 DEF Launched, Ours
          <5> QED
            BY <2>1, <5>1, <5>2 DEF Steps
        <4> QED
          BY <3>2, <4>1, <4>2, <4>3 DEF Ours
      <3> QED
        BY <3>1, <3>2
    <2> QED
      BY <1>4, <2>2, <2>3, <2>4
  <1> QED
    BY <1>3, <1>5, <1>6, <1>7, RunnerSteps

(* A handler keeps its turn: the step of another handler or of a process   *)
(* changes nothing it relies on.                                           *)
LEMMA TurnKept ==
  ASSUME RunnerInv, NEW o \in Ops, op'[o] = op[o],
         (\E q \in Ops : Begins(q) \/ Handles(q)) \/ Elsewhere,
         excused \subseteq excused',
         op[o].pc # "idle" /\ op[o].server \notin excused' =>
            Alone(o)' /\ table'[op[o].server] = table[op[o].server]
  PROVE  InTurn(o)'
  <1>1. CASE op[o].pc = "idle" \/ op[o].server \in excused'
    BY <1>1 DEF InTurn
  <1>2. CASE op[o].pc # "idle" /\ op[o].server \notin excused'
    <2>1. InTurn(o)
      BY DEF RunnerInv
    <2>2. \A i \in Insts : i \in {op[o].inst, op[o].new} => Ours(i, op[o].server)
      BY <1>2, Referred
    <2>3. \A i \in Insts : i \in {op[o].inst, op[o].new} => Ages(i)
      BY <2>2, RunnerFacts DEF Begins, Handles, Steps, Elsewhere, Launched, Ages, Ours
    <2>4. \A i \in Insts : i \in {op[o].inst, op[o].new} /\ ~Minded(i) => ~Minded(i)'
      BY <2>2, <2>3, OursAges DEF Minded, Managed
    <2>5. op[o].pc \notin StopStages => \A i \in Insts : op[o].inst = i => ~Minded(i)'
      BY <1>2, <2>1, <2>4 DEF InTurn
    <2>6. op[o].pc \notin LaunchStages => \A i \in Insts : op[o].new = i => ~Minded(i)'
      BY <1>2, <2>1, <2>4 DEF InTurn
    <2> QED
      BY <1>2, <2>1, <2>5, <2>6 DEF InTurn
  <1> QED
    BY <1>1, <1>2

(* Every step keeps every handler in its turn.                             *)
LEMMA TurnStep ==
  ASSUME RunnerInv, [Next]_vars, NEW o \in Ops
  PROVE  InTurn(o)'
  <1>0. InTurn(o)
    BY DEF RunnerInv
  <1>1. CASE Dies
    BY <1>1 DEF Dies, InTurn
  <1>2. CASE Elsewhere
    <2>1. UNCHANGED <<op, table, excused>>
      BY <1>2 DEF Elsewhere
    <2>2. op[o].pc # "idle" /\ op[o].server \notin excused => Alone(o)'
      BY <1>0, <2>1 DEF InTurn, Alone
    <2> QED
      BY <1>2, <2>1, <2>2, TurnKept
  <1>3. ASSUME NEW q \in Ops, Begins(q) PROVE InTurn(o)'
    <2>1. PICK s \in Servers :
            /\ op[q].pc = "idle"
            /\ \A p \in Ops : p # q => op'[p] = op[p]
            /\ op'[q].pc # "idle" /\ op'[q].server = s /\ op'[q].inst = table[s] /\ op'[q].new = None
            /\ op'[q].pc \notin StopStages => table[s] = None
            /\ op'[q].kind = "stop" => table[s] # None
            /\ excused' = IF InFlight(s) = {} THEN excused ELSE excused \cup {s}
            /\ UNCHANGED table
      BY <1>3 DEF Begins
    <2>2. excused \subseteq excused'
      BY <2>1
    <2>3. s \notin excused' => \A p \in Ops : ~(op[p].pc # "idle" /\ op[p].server = s)
      BY <2>1 DEF InFlight
    <2>4. CASE o = q
      <3>1. s \notin excused' => Alone(o)'
        BY <2>1, <2>3, <2>4 DEF Alone
      <3>2. None \notin Insts
        BY RunnerFacts
      <3> QED
        BY <2>1, <2>4, <3>1, <3>2 DEF InTurn
    <2>5. CASE o # q
      <3>1. op'[o] = op[o]
        BY <2>1, <2>5
      <3>2. op[o].pc # "idle" /\ op[o].server \notin excused' => op[o].server # s
        BY <2>3
      <3>3. op[o].pc # "idle" /\ op[o].server \notin excused' => Alone(o)'
        BY <1>0, <2>1, <2>2, <3>1, <3>2 DEF InTurn, Alone
      <3> QED
        BY <1>3, <2>1, <2>2, <3>1, <3>3, TurnKept
    <2> QED
      BY <2>4, <2>5
  <1>4. ASSUME NEW q \in Ops, Handles(q) PROVE InTurn(o)'
    <2>1. Steps(q) /\ LetsGo(q) /\ op[q].pc # "idle" /\ excused \subseteq excused'
      BY <1>4 DEF Handles, Steps
    <2>2. op[o].pc # "idle" => op[o].server \in Servers
      BY RunnerFacts
    <2>3. \A p \in Ops : op'[p].pc # "idle" => op[p].pc # "idle" /\ op'[p].server = op[p].server
      BY <2>1 DEF Steps
    <2>4. op'[o].pc # "idle" /\ op[o].server \notin excused' => Alone(o) /\ Alone(o)'
      BY <1>0, <2>1, <2>3 DEF InTurn, Alone
    <2>5. CASE o # q
      <3>1. op'[o] = op[o]
        BY <2>1, <2>5 DEF Steps
      <3>2. op[o].pc # "idle" /\ op[o].server \notin excused' => op[o].server # op[q].server
        BY <2>1, <2>4, <2>5, <3>1 DEF Alone
      <3>3. op[o].pc # "idle" /\ op[o].server \notin excused'
            => table'[op[o].server] = table[op[o].server]
        BY <2>1, <2>2, <3>2 DEF Steps
      <3> QED
        BY <1>4, <2>1, <2>4, <3>1, <3>3, TurnKept
    <2>6. CASE o = q
      <3> SUFFICES ASSUME op'[o].pc # "idle", op'[o].server \notin excused'
                   PROVE  /\ Alone(o)'
                          /\ table'[op'[o].server] \in {None, op'[o].inst}
                          /\ op'[o].kind = "stop" =>
                                op'[o].inst # None /\ table'[op'[o].server] = op'[o].inst
                          /\ op'[o].pc \notin StopStages =>
                                \A i \in Insts : op'[o].inst = i => ~Minded(i)'
                          /\ op'[o].pc \notin LaunchStages =>
                                \A i \in Insts : op'[o].new = i => ~Minded(i)'
        BY DEF InTurn
      <3>1. /\ op'[o].server = op[o].server /\ op'[o].kind = op[o].kind
            /\ op'[o].inst = op[o].inst
            /\ table'[op[o].server] = table[op[o].server]
               \/ (op[o].kind = "restart" /\ table'[op[o].server] = None)
            /\ op'[o].new \in {op[o].new, None} \/ op'[o].pc = "probe"
        BY <2>1, <2>6 DEF Steps, Launched
      <3>2. table[op[o].server] \in {None, op[o].inst}
            /\ (op[o].kind = "stop" => op[o].inst # None /\ table[op[o].server] = op[o].inst)
        BY <1>0, <2>1, <2>6, <3>1 DEF InTurn
      <3>3. op'[o].pc \notin StopStages => \A i \in Insts : op'[o].inst = i => ~Minded(i)'
        BY <2>1, <2>6, <3>1 DEF LetsGo
      <3>4. op'[o].pc \notin LaunchStages => \A i \in Insts : op'[o].new = i => ~Minded(i)'
        BY <2>1, <2>6, <3>1, RunnerFacts DEF LetsGo, LaunchStages
      <3> QED
        BY <2>4, <3>1, <3>2, <3>3, <3>4
    <2> QED
      BY <2>5, <2>6
  <1> QED
    BY <1>1, <1>2, <1>3, <1>4, RunnerSteps

(* Every step leaves somebody waiting for a process being stopped.         *)
LEMMA AwaitedStep ==
  ASSUME RunnerInv, [Next]_vars
  PROVE  StoppingIsAwaited'
  <1> SUFFICES ASSUME NEW i \in Insts, tomcat'[i].alive, tomcat'[i].mgr = "stopping",
                      ~tomcat'[i].spared, tomcat'[i].server \notin excused'
               PROVE  \E o \in Ops : Awaits(op'[o], i)
    BY DEF StoppingIsAwaited, Awaits
  <1>1. tomcat[i].alive /\ tomcat[i].mgr = "stopping" /\ ~tomcat[i].spared
        /\ tomcat[i].server \notin excused
        => \E o \in Ops : Awaits(op[o], i)
    BY DEF RunnerInv, StoppingIsAwaited
  <1>2. ~Dies
    BY DEF Dies
  <1>3. CASE Elsewhere
    BY <1>1, <1>3 DEF Elsewhere, Ages
  <1>4. ASSUME NEW o \in Ops, Begins(o) PROVE \E q \in Ops : Awaits(op'[q], i)
    <2>1. UNCHANGED tomcat /\ excused \subseteq excused' /\ op[o].pc = "idle"
          /\ \A q \in Ops : q # o => op'[q] = op[q]
      BY <1>4 DEF Begins
    <2>2. PICK q \in Ops : Awaits(op[q], i)
      BY <1>1, <2>1
    <2>3. q # o
      BY <2>1, <2>2 DEF Awaits, WaitStages
    <2> QED
      BY <2>1, <2>2, <2>3
  <1>5. ASSUME NEW o \in Ops, Handles(o) PROVE \E q \in Ops : Awaits(op'[q], i)
    <2>1. Ages(i) /\ excused \subseteq excused' /\ \A q \in Ops : q # o => op'[q] = op[q]
      BY <1>5 DEF Handles, Steps, Launched
    <2>2. Awaits(op'[o], i) \/ (tomcat[i].alive /\ tomcat[i].mgr = "stopping" /\ ~Awaits(op[o], i))
      BY <1>5, <2>1 DEF Handles, Waits, Ages
    <2>3. CASE tomcat[i].alive /\ tomcat[i].mgr = "stopping" /\ ~Awaits(op[o], i)
      <3>1. PICK q \in Ops : Awaits(op[q], i)
        BY <1>1, <2>1, <2>3 DEF Ages
      <3> QED
        BY <2>1, <2>3, <3>1
    <2> QED
      BY <2>2, <2>3
  <1> QED
    BY <1>2, <1>3, <1>4, <1>5, RunnerSteps

(* The initial state satisfies the second inductive invariant.             *)
LEMMA RunnerInit == Init => RunnerInv
  BY InitInv
  DEF Init, NoMeta, NoProcess, Idle, RunnerInv, ProcessInv, References, InTurn,
      StoppingIsAwaited

(* Every step keeps it.                                                    *)
LEMMA RunnerInvStep == RunnerInv /\ [Next]_vars => RunnerInv'
  <1> SUFFICES ASSUME RunnerInv, [Next]_vars PROVE RunnerInv'
    OBVIOUS
  <1>1. IndInv'
    BY StepInv DEF RunnerInv
  <1>2. \A o \in Ops : InTurn(o)'
    BY TurnStep
  <1> QED
    BY <1>1, <1>2, ProcessStep, ReferencesStep, AwaitedStep DEF RunnerInv

-----------------------------------------------------------------------------
(* Every step keeps the live processes of this agent in somebody's hands.  *)
LEMMA NoLeakStep ==
  ASSUME RunnerInv, NoLeak, [Next]_vars
  PROVE  NoLeak'
  <1> SUFFICES ASSUME NEW i \in Insts, Minded(i)', tomcat'[i].server \notin excused'
               PROVE  \/ table'[tomcat'[i].server] = i
                      \/ \E o \in Ops : /\ op'[o].pc # "idle" /\ op'[o].server = tomcat'[i].server
                                        /\ i \in {op'[o].inst, op'[o].new}
    BY DEF NoLeak, InFlight, Minded
  <1>1. ASSUME Minded(i), tomcat[i].server \notin excused
        PROVE  \/ table[tomcat[i].server] = i
               \/ \E o \in Ops : /\ op[o].pc # "idle" /\ op[o].server = tomcat[i].server
                                 /\ i \in {op[o].inst, op[o].new}
    BY <1>1 DEF NoLeak, InFlight, Minded
  <1>2. ~Dies
    BY DEF Dies, Minded, Managed
  <1>3. CASE Elsewhere
    <2>1. Minded(i) /\ tomcat'[i].server = tomcat[i].server /\ UNCHANGED <<op, table, excused>>
      BY <1>3 DEF Elsewhere, Ages, Minded, Managed
    <2> QED
      BY <1>1, <2>1
  <1>4. ASSUME NEW o \in Ops, Begins(o)
        PROVE  \/ table'[tomcat'[i].server] = i
               \/ \E q \in Ops : /\ op'[q].pc # "idle" /\ op'[q].server = tomcat'[i].server
                                 /\ i \in {op'[q].inst, op'[q].new}
    <2>1. UNCHANGED <<tomcat, table>> /\ excused \subseteq excused' /\ op[o].pc = "idle"
          /\ \A q \in Ops : q # o => op'[q] = op[q]
      BY <1>4 DEF Begins
    <2>2. Minded(i)
      BY <2>1 DEF Minded, Managed
    <2> QED
      BY <1>1, <2>1, <2>2
  <1>5. ASSUME NEW o \in Ops, Handles(o)
        PROVE  \/ table'[tomcat'[i].server] = i
               \/ \E q \in Ops : /\ op'[q].pc # "idle" /\ op'[q].server = tomcat'[i].server
                                 /\ i \in {op'[q].inst, op'[q].new}
    <2>1. Steps(o) /\ LetsGo(o) /\ op[o].pc # "idle" /\ op[o].server \in Servers
      BY <1>5, RunnerFacts DEF Handles, Steps
    <2>2. CASE Launched(i, o)
      BY <2>1, <2>2 DEF Launched, Steps
    <2>3. CASE Ages(i)
      <3>1. Minded(i) /\ tomcat'[i].server = tomcat[i].server /\ tomcat[i].server \notin excused
        BY <2>1, <2>3 DEF Ages, Minded, Managed, Steps
      <3>2. ASSUME i \in {op[o].inst, op[o].new}, tomcat[i].server = op[o].server
            PROVE  \/ table'[tomcat'[i].server] = i
                   \/ /\ op'[o].pc # "idle" /\ op'[o].server = tomcat'[i].server
                      /\ i \in {op'[o].inst, op'[o].new}
        BY <2>1, <3>1, <3>2 DEF LetsGo, Steps, StopStages, LaunchStages
      <3>3. CASE table[tomcat[i].server] = i /\ tomcat[i].server = op[o].server
        <4>1. InTurn(o) /\ None \notin Insts
          BY RunnerFacts DEF RunnerInv
        <4>2. op[o].inst = i
          BY <2>1, <3>1, <3>3, <4>1 DEF InTurn
        <4> QED
          BY <3>2, <3>3, <4>2
      <3>4. CASE table[tomcat[i].server] = i /\ tomcat[i].server # op[o].server
        <4>1. tomcat[i].server \in Servers
          BY <3>1 DEF Minded, Managed, RunnerInv, ProcessInv
        <4> QED
          BY <2>1, <3>1, <3>4, <4>1 DEF Steps
      <3>5. ASSUME NEW q \in Ops, op[q].pc # "idle", op[q].server = tomcat[i].server,
                   i \in {op[q].inst, op[q].new}
            PROVE  \/ table'[tomcat'[i].server] = i
                   \/ \E p \in Ops : /\ op'[p].pc # "idle" /\ op'[p].server = tomcat'[i].server
                                     /\ i \in {op'[p].inst, op'[p].new}
        <4>1. CASE q = o
          BY <3>2, <3>5, <4>1
        <4>2. CASE q # o
          BY <2>1, <3>1, <3>5, <4>2 DEF Steps
        <4> QED
          BY <4>1, <4>2
      <3> QED
        BY <1>1, <3>1, <3>3, <3>4, <3>5
    <2> QED
      BY <2>1, <2>2, <2>3 DEF Steps
  <1> QED
    BY <1>2, <1>3, <1>4, <1>5, RunnerSteps

(* While the requests for its server come one after the other, every live  *)
(* Tomcat of this agent is in the table or in the hands of a request,      *)
(* except those a stop has given up on after a failed identity check or an *)
(* expired kill (proc.go:271,309-318; tomcat6.go:810), for any number of   *)
(* servers, requests and processes.                                        *)
THEOREM NothingLeaked == Spec => []NoLeak
  <1>1. Init => NoLeak
    BY DEF Init, NoProcess, NoLeak, Minded, Managed
  <1>2. RunnerInv /\ NoLeak /\ [Next]_vars => NoLeak'
    BY NoLeakStep
  <1> QED
    BY RunnerInit, RunnerInvStep, <1>1, <1>2, PTL DEF Spec

-----------------------------------------------------------------------------
(* The file may outlive the records, so it has to be right as well.        *)
StoppedOnDisk ==
    \A s \in Servers \ excused : disk[s].state = "stopped" =>
        \A i \in Insts : disk[s].inst = i => ~tomcat[i].alive \/ tomcat[i].spared

(* What a record and the file say of a stopped server.                     *)
StoppedInv == StoppedIsDeadInTurn /\ StoppedOnDisk

(* Every step keeps stopped servers without a live process.                *)
LEMMA StoppedStep ==
  ASSUME RunnerInv, StoppedInv, [Next]_vars
  PROVE  StoppedInv'
  <1> DEFINE Dead(m, s) == m[s].state = "stopped" => 
               \A i \in Insts : m[s].inst = i => ~tomcat'[i].alive \/ tomcat'[i].spared
  <1>0. /\ meta \in [Servers -> MetaType] /\ disk \in [Servers -> MetaType]
        /\ table \in [Servers -> InstOrNone]
        /\ None \notin Insts /\ None \notin Servers
    BY RunnerFacts
  <1>1. References /\ ProcessInv
    BY DEF RunnerInv
  <1>2. ASSUME \A s \in Servers : s \notin excused' => Dead(meta', s) /\ Dead(disk', s)
        PROVE  StoppedInv'
    BY <1>2 DEF StoppedInv, StoppedIsDeadInTurn, StoppedOnDisk
  <1>3. excused \subseteq excused'
    BY RunnerSteps DEF Begins, Handles, Steps, Elsewhere, Dies
  <1>4. \A i \in Insts : tomcat[i].server # None => 
               (tomcat'[i].alive => tomcat[i].alive /\ (tomcat[i].spared => tomcat'[i].spared))
    BY RunnerSteps DEF Begins, Handles, Steps, Elsewhere, Dies, Ages, Launched
  <1>5. ASSUME NEW s \in Servers, s \notin excused'
        PROVE  Dead(meta, s) /\ Dead(disk, s)
    BY <1>0, <1>1, <1>3, <1>4, <1>5 DEF StoppedInv, StoppedIsDeadInTurn, StoppedOnDisk, References
  <1>6. CASE Dies
    BY <1>2, <1>5, <1>6 DEF Dies
  <1>7. ASSUME NEW o \in Ops, Begins(o) PROVE StoppedInv'
    <2>1. disk' = disk /\ \A z \in Servers : meta'[z].state = meta[z].state /\ meta'[z].inst = meta[z].inst
      BY <1>7 DEF Begins
    <2> QED
      BY <1>2, <1>5, <2>1
  <1>8. CASE Elsewhere
    <2> SUFFICES ASSUME NEW s \in Servers, s \notin excused' PROVE Dead(meta', s) /\ Dead(disk', s)
      BY <1>2
    <2>1. Dead(disk', s)
      BY <1>5, <1>8 DEF Elsewhere
    <2>2. CASE meta'[s].state = meta[s].state /\ meta'[s].inst = meta[s].inst
      BY <1>5, <2>1, <2>2
    <2>3. CASE /\ table[s] # None /\ meta'[s].inst = table[s]
               /\ meta'[s].state = tomcat[table[s]].state
      <3>1. table[s] \in Insts /\ tomcat[table[s]].server # None
        BY <1>0, <1>1, <2>3 DEF References, Ours, InstOrNone
      <3> QED
        BY <1>1, <1>4, <2>1, <2>3, <3>1 DEF ProcessInv
    <2> QED
      BY <1>8, <2>2, <2>3 DEF Elsewhere
  <1>9. ASSUME NEW o \in Ops, Handles(o) PROVE StoppedInv'
    <2> SUFFICES ASSUME NEW s \in Servers, s \notin excused' PROVE Dead(meta', s) /\ Dead(disk', s)
      BY <1>2
    <2>1. Steps(o) /\ LetsGo(o) /\ Records(o) /\ op[o].pc # "idle" /\ InTurn(o)
      BY <1>9 DEF Handles, Steps, RunnerInv
    <2>2. Dead(meta', s)
      <3>1. CASE s # op[o].server \/ UNCHANGED meta
        BY <1>5, <2>1, <3>1 DEF Steps
      <3>2. CASE s = op[o].server /\ meta'[s].state = "error"
        BY <3>2
      <3>3. CASE s = op[o].server /\ op[o].pc = "stopped" /\ meta'[s].inst = meta[s].inst
        <4>1. op[o].kind = "stop"
          BY <3>3, RunnerFacts DEF Equipped
        <4>2. /\ table[s] = op[o].inst /\ table[s] # None
              /\ \A i \in Insts : op[o].inst = i => ~Minded(i)
          BY <1>3, <2>1, <3>3, <4>1 DEF InTurn, StopStages
        <4>3. ASSUME NEW i \in Insts, meta[s].inst = i PROVE ~tomcat[i].alive \/ tomcat[i].spared
          BY <1>1, <4>2, <4>3 DEF References, Ours, ProcessInv, Minded, Managed
        <4>4. ASSUME NEW i \in Insts, meta[s].inst = i PROVE ~tomcat'[i].alive \/ tomcat'[i].spared
          <5>1. tomcat[i].server # None
            BY <1>0, <1>1, <4>4 DEF References
          <5> QED
            BY <1>4, <4>3, <4>4, <5>1
        <4> QED
          BY <3>3, <4>4
      <3>4. CASE /\ s = op[o].server /\ op[o].pc = "record"
                 /\ meta'[s].state = tomcat[op[o].new].state /\ meta'[s].inst = op[o].new
        <4>1. op[o].new \in Insts /\ tomcat[op[o].new].server # None
          BY <1>0, <2>1, <3>4, Referred DEF Ours, LaunchStages
        <4> QED
          BY <1>1, <1>4, <3>4, <4>1 DEF ProcessInv
      <3> QED
        BY <2>1, <3>1, <3>2, <3>3, <3>4 DEF Records
    <2>3. disk' = disk \/ disk' = meta'
      BY <2>1 DEF Records
    <2> QED
      BY <1>5, <2>2, <2>3
  <1> QED
    BY <1>6, <1>7, <1>8, <1>9, RunnerSteps

(* A server recorded as stopped has no live process, as long as requests   *)
(* for it come one after the other and no stop has given up on the         *)
(* process: a stop that answers nil for a process that is not running      *)
(* (proc.go:258) then finds it dead.  The file a new agent loads is right  *)
(* in the same sense.                                                      *)
THEOREM StoppedIsDead == Spec => []StoppedIsDeadInTurn
  <1>1. Init => StoppedInv
    BY DEF Init, NoMeta, StoppedInv, StoppedIsDeadInTurn, StoppedOnDisk
  <1>2. RunnerInv /\ StoppedInv /\ [Next]_vars => StoppedInv'
    BY StoppedStep
  <1>3. StoppedInv => StoppedIsDeadInTurn
    BY DEF StoppedInv
  <1> QED
    BY RunnerInit, RunnerInvStep, <1>1, <1>2, <1>3, PTL DEF Spec
=============================================================================
