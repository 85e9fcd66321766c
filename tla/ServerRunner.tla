---------------------------- MODULE ServerRunner ----------------------------
(***************************************************************************)
(* The Tomcat servers of the runtime agent (internal/services/server.go    *)
(* over internal/tomcat6 and internal/proc).  The runner's mutex guards    *)
(* the server records and the table of instances, and is released around   *)
(* everything that takes time: stopping a process, choosing ports,         *)
(* launching Tomcat and probing it.  Several HTTP requests may therefore   *)
(* work on one server at once; each critical section is a step here.       *)
(*                                                                         *)
(* A Tomcat process is one element of Insts, with what the operating       *)
(* system knows of it (alive, killed, socket), what its managed process    *)
(* knows (mgr) and what its tomcat6.Instance reports (state); spared is a  *)
(* history flag: a stop has given up on it while it was alive.  Of its     *)
(* ports only HTTP is kept.                                                *)
(***************************************************************************)
EXTENDS Integers, FiniteSets

CONSTANTS
    Servers,      \* server ids
    Ops,          \* request handlers, each working on one request at a time
    Insts,        \* Tomcat processes that may ever be launched
    Ports,        \* HTTP ports
    KillOnClose,  \* the agent's death kills its children (Windows job object)
    MaxExits,     \* bound of the model: deaths of the agent
    None

ASSUME RunnerConstants == /\ None \notin Servers \cup Insts \cup Ports
                          /\ Servers # {} /\ Ports # {}
                          /\ KillOnClose \in BOOLEAN
                          /\ MaxExits \in Nat

VARIABLES
    meta,    \* server -> its record
    disk,    \* servers.json: the records as last saved
    table,   \* server -> the instance in the table, or None
    tomcat,  \* instance -> its process
    op,      \* handler -> the request it works on
    exits,
    excused  \* history variable: servers two requests worked on at once

vars == <<meta, disk, table, tomcat, op, exits, excused>>

NoMeta == [state |-> "absent", inst |-> None, port |-> None, wasRunning |-> FALSE]
NoProcess == [server |-> None, port |-> None, alive |-> FALSE, killed |-> FALSE, spared |-> FALSE,
              socket |-> "none", mgr |-> "unused", state |-> "starting"]
Idle == [pc |-> "idle", kind |-> None, server |-> None, inst |-> None,
         new |-> None, port |-> None, lease |-> None]

Init ==
    /\ meta = [s \in Servers |-> NoMeta]
    /\ disk = meta
    /\ table = [s \in Servers |-> None]
    /\ tomcat = [i \in Insts |-> NoProcess]
    /\ op = [o \in Ops |-> Idle]
    /\ exits = 0
    /\ excused = {}

-----------------------------------------------------------------------------
Known(s) == meta[s].state # "absent"
InFlight(s) == {o \in Ops : op[o].pc # "idle" /\ op[o].server = s}
Listening(p) == {i \in Insts : tomcat[i].alive /\ tomcat[i].socket = "bound" /\ tomcat[i].port = p}

(* What allocateOne may return: no lease on it and a trial listen succeeds.*)
FreePorts == {p \in Ports : Listening(p) = {} /\ \A o \in Ops : op[o].lease # p}

At(o, pc) == op[o].pc = pc
Goto(o, pc) == op' = [op EXCEPT ![o].pc = pc]
Return(o) == op' = [op EXCEPT ![o] = Idle]

(* Under the lock: change one record and write the whole file.             *)
Save(s, m) == /\ meta' = [meta EXCEPT ![s] = m]
              /\ disk' = [meta EXCEPT ![s] = m]

Begin(o, kind, s, pc, inst, port, lease) ==
    /\ At(o, "idle")
    /\ op' = [op EXCEPT ![o] = [pc |-> pc, kind |-> kind, server |-> s, inst |-> inst,
                                new |-> None, port |-> port, lease |-> lease]]
    /\ excused' = IF InFlight(s) = {} THEN excused ELSE excused \cup {s}

-----------------------------------------------------------------------------
(* The first critical section of each operation: look the server up and    *)
(* copy what the rest works with.                                          *)
(*                                                                         *)
(* The operators named ...Bug are plausible slips in the code that follows *)
(* them; the properties are checked to notice them.                        *)

BeginStart(o, s, p) ==
    /\ ~Known(s) /\ InFlight(s) = {}
    /\ \A i \in Insts : tomcat[i].server # s
    /\ p \in FreePorts
    /\ Begin(o, "start", s, "spawn", None, p, p)
    /\ UNCHANGED <<meta, disk, table, tomcat, exits>>

BeginStop(o, s, force) ==
    /\ table[s] # None
    /\ Begin(o, "stop", s, IF force THEN "force" ELSE "stop", table[s], None, None)
    /\ UNCHANGED <<meta, disk, table, tomcat, exits>>

BeginRestart(o, s) ==
    /\ Known(s)
    /\ Begin(o, "restart", s, IF table[s] = None THEN "read" ELSE "stop", table[s], None, None)
    /\ UNCHANGED <<meta, disk, table, tomcat, exits>>

BeginDebug(o, s) ==
    /\ Known(s)
    /\ Begin(o, "debug", s, IF table[s] = None THEN "spawn" ELSE "stop",
             table[s], meta[s].port, None)
    /\ UNCHANGED <<meta, disk, table, tomcat, exits>>

(* Recover takes the server off the list of recoverable ones at once, in   *)
(* memory only.                                                            *)
BeginRecover(o, s) ==
    /\ meta[s].state = "crashed"
    /\ meta' = [meta EXCEPT ![s].wasRunning = FALSE]
    /\ Begin(o, "recover", s, "pick", None, meta[s].port, None)
    /\ UNCHANGED <<disk, table, tomcat, exits>>

-----------------------------------------------------------------------------
(* Stopping a process.  What follows success and failure depends on the    *)
(* operation: Restart tries ForceStop after a failed graceful stop, Debug  *)
(* ignores failures.                                                       *)
AfterStop(o) ==
    CASE op[o].kind = "stop"    -> "stopped"
      [] op[o].kind = "restart" -> "untrack"
      [] op[o].kind = "debug"   -> "spawn"

AfterFailedStop(o, forced) ==
    CASE op[o].kind = "stop"    -> "error"
      [] op[o].kind = "restart" -> IF forced THEN "error" ELSE "force"
      [] op[o].kind = "debug"   -> "spawn"

(* A stop marks the process as stopping and then verifies its identity,    *)
(* which depends on /proc, clocks and the platform and may fail for any    *)
(* process; the outcome is left open.  Only a verified process is sent the *)
(* signal; otherwise the stop gives up on it.                              *)
Signal(i, kill, verified) ==
    tomcat' = [tomcat EXCEPT ![i].mgr = "stopping",
                             ![i].killed = @ \/ (tomcat[i].alive /\ kill /\ verified),
                             ![i].spared = @ \/ (tomcat[i].alive /\ ~verified)]

(* GracefulStop: a managed process that is not running (any more) is left  *)
(* alone, even while another handler is still stopping it, or after a stop *)
(* has given up on it.                                                     *)
SignalTerm(o) ==
    LET i == op[o].inst IN
    /\ At(o, "stop")
    /\ \/ /\ tomcat[i].mgr = "running"
          /\ \E verified \in BOOLEAN :
                /\ Signal(i, FALSE, verified)
                /\ Goto(o, IF verified THEN "await" ELSE AfterFailedStop(o, FALSE))
       \/ /\ tomcat[i].mgr # "running"
          /\ Goto(o, AfterStop(o))
          /\ UNCHANGED tomcat
    /\ UNCHANGED <<meta, disk, table, exits, excused>>

(* BUG: the grace period runs out and GracefulStop keeps waiting.          *)
GraceExpiresBug(o) ==
    /\ At(o, "await")
    /\ UNCHANGED vars

(* The grace period runs out: GracefulStop falls back on ForceStop.        *)
GraceExpires(o) ==
    /\ At(o, "await")
    /\ Goto(o, "kill")
    /\ UNCHANGED <<meta, disk, table, tomcat, exits, excused>>

(* ForceStop, as the fallback ("kill", without a deadline) or called       *)
(* directly ("force", with one).                                           *)
SignalKill(o) ==
    LET i == op[o].inst
        forced == At(o, "force")
        waiting == IF forced THEN "awaitforce" ELSE "awaitkill"
    IN
    /\ At(o, "kill") \/ forced
    /\ \/ /\ tomcat[i].mgr # "stopped"
          /\ \E verified \in BOOLEAN :
                /\ Signal(i, TRUE, verified)
                /\ Goto(o, IF verified THEN waiting ELSE AfterFailedStop(o, forced))
       \/ /\ tomcat[i].mgr = "stopped"
          /\ Goto(o, AfterStop(o))
          /\ UNCHANGED tomcat
    /\ UNCHANGED <<meta, disk, table, exits, excused>>

(* BUG: the stop returns without waiting for waitCh.                       *)
GoneBug(o) ==
    /\ op[o].pc \in {"await", "awaitkill", "awaitforce"}
    /\ Goto(o, AfterStop(o))
    /\ UNCHANGED <<meta, disk, table, tomcat, exits, excused>>

(* waitCh is closed.                                                       *)
Gone(o) ==
    /\ op[o].pc \in {"await", "awaitkill", "awaitforce"}
    /\ tomcat[op[o].inst].mgr = "stopped"
    /\ Goto(o, AfterStop(o))
    /\ UNCHANGED <<meta, disk, table, tomcat, exits, excused>>

(* Ten seconds after a SIGKILL ForceStop gives up as well.                 *)
ForceExpires(o) ==
    /\ At(o, "awaitforce")
    /\ tomcat' = [tomcat EXCEPT ![op[o].inst].spared = @ \/ tomcat[op[o].inst].alive]
    /\ Goto(o, AfterFailedStop(o, TRUE))
    /\ UNCHANGED <<meta, disk, table, exits, excused>>

(* Stop's last critical section.  It deletes whatever the table holds now. *)
RecordStopped(o) ==
    LET s == op[o].server IN
    /\ At(o, "stopped")
    /\ Save(s, [meta[s] EXCEPT !.state = "stopped"])
    /\ table' = [table EXCEPT ![s] = None]
    /\ Return(o)
    /\ UNCHANGED <<tomcat, exits, excused>>

(* BUG: the failed operation leaves the record as it was.                  *)
RecordErrorBug(o) ==
    /\ At(o, "error")
    /\ Return(o)
    /\ UNCHANGED <<meta, disk, table, tomcat, exits, excused>>

(* Stop, Restart and Recover record their failure; nothing else changes.   *)
RecordError(o) ==
    LET s == op[o].server IN
    /\ At(o, "error")
    /\ Save(s, [meta[s] EXCEPT !.state = "error"])
    /\ Return(o)
    /\ UNCHANGED <<table, tomcat, exits, excused>>

-----------------------------------------------------------------------------
(* Restart after the stop: drop the instance from the table, then read the *)
(* ports of the record, in two critical sections.                          *)
Untrack(o) ==
    /\ At(o, "untrack")
    /\ table' = [table EXCEPT ![op[o].server] = None]
    /\ Goto(o, "read")
    /\ UNCHANGED <<meta, disk, tomcat, exits, excused>>

ReadPort(o) ==
    /\ At(o, "read")
    /\ op' = [op EXCEPT ![o].port = meta[op[o].server].port, ![o].pc = "pick"]
    /\ UNCHANGED <<meta, disk, table, tomcat, exits, excused>>

(* startTomcatWithPortRetry: the previous port when nobody listens on it,  *)
(* otherwise a leased one.                                                 *)
PickPort(o) ==
    /\ At(o, "pick")
    /\ Goto(o, IF Listening(op[o].port) = {} THEN "spawn" ELSE "lease")
    /\ UNCHANGED <<meta, disk, table, tomcat, exits, excused>>

LeasePort(o) ==
    /\ At(o, "lease")
    /\ \/ \E p \in FreePorts :
            op' = [op EXCEPT ![o].lease = p, ![o].port = p, ![o].pc = "spawn"]
       \/ FreePorts = {} /\ Goto(o, "error")
    /\ UNCHANGED <<meta, disk, table, tomcat, exits, excused>>

-----------------------------------------------------------------------------
(* tomcat6.Start: launch the process and probe its HTTP port until anyone  *)
(* answers there.                                                          *)
Spawn(o) ==
    /\ At(o, "spawn")
    /\ \E i \in Insts : tomcat[i] = NoProcess
    /\ LET i == CHOOSE j \in Insts : tomcat[j] = NoProcess IN
         /\ tomcat' = [tomcat EXCEPT ![i] =
                         [NoProcess EXCEPT !.server = op[o].server, !.port = op[o].port,
                                           !.alive = TRUE, !.mgr = "running"]]
         /\ op' = [op EXCEPT ![o].new = i, ![o].pc = "probe"]
    /\ UNCHANGED <<meta, disk, table, exits, excused>>

(* A launch that failed: Start and Debug change no record.                 *)
FailLaunch(o) ==
    IF op[o].kind \in {"start", "debug"}
    THEN Return(o)
    ELSE op' = [op EXCEPT ![o].lease = None, ![o].pc = "error"]

SpawnFails(o) ==
    /\ At(o, "spawn")
    /\ FailLaunch(o)
    /\ UNCHANGED <<meta, disk, table, tomcat, exits, excused>>

(* Restart and Recover release their lease here, Start when it returns.    *)
Ready(o) ==
    /\ At(o, "probe")
    /\ Listening(op[o].port) # {}
    /\ tomcat' = [tomcat EXCEPT ![op[o].new].state = "running"]
    /\ op' = [op EXCEPT ![o].pc = "record",
                        ![o].lease = IF op[o].kind = "start" THEN @ ELSE None]
    /\ UNCHANGED <<meta, disk, table, exits, excused>>

(* A bind conflict in Tomcat's output makes Restart and Recover try once   *)
(* more on a leased port.                                                  *)
AfterAbort(o) ==
    \/ FailLaunch(o)
    \/ /\ op[o].kind \in {"restart", "recover"} /\ op[o].lease = None
       /\ tomcat[op[o].new].socket = "refused"
       /\ op' = [op EXCEPT ![o].new = None, ![o].pc = "lease"]

(* BUG: a launch that is not ready in time is given up without killing it. *)
ProbeExpiresBug(o) ==
    /\ At(o, "probe")
    /\ AfterAbort(o)
    /\ UNCHANGED <<meta, disk, table, tomcat, exits, excused>>

(* Readiness timeout: ForceStop without a deadline.  Its error is ignored, *)
(* also when the identity check failed and the process lives on.           *)
ProbeExpires(o) ==
    LET i == op[o].new IN
    /\ At(o, "probe")
    /\ \/ /\ tomcat[i].mgr # "stopped"
          /\ \E verified \in BOOLEAN :
                /\ Signal(i, TRUE, verified)
                /\ IF verified THEN Goto(o, "abort") ELSE AfterAbort(o)
       \/ /\ tomcat[i].mgr = "stopped"
          /\ AfterAbort(o)
          /\ UNCHANGED tomcat
    /\ UNCHANGED <<meta, disk, table, exits, excused>>

Aborted(o) ==
    /\ At(o, "abort")
    /\ tomcat[op[o].new].mgr = "stopped"
    /\ AfterAbort(o)
    /\ UNCHANGED <<meta, disk, table, tomcat, exits, excused>>

(* The last critical section of a successful launch.                       *)
Record(o) ==
    LET s == op[o].server IN
    /\ At(o, "record")
    /\ Save(s, [state |-> tomcat[op[o].new].state, inst |-> op[o].new,
                port |-> op[o].port, wasRunning |-> meta[s].wasRunning])
    /\ table' = [table EXCEPT ![s] = op[o].new]
    /\ Return(o)
    /\ UNCHANGED <<tomcat, exits, excused>>

(* Get and List copy the instance's state into the record, unsaved.        *)
Refresh(s) ==
    /\ table[s] # None
    /\ meta' = [meta EXCEPT ![s].state = tomcat[table[s]].state,
                            ![s].inst = table[s],
                            ![s].port = tomcat[table[s]].port]
    /\ UNCHANGED <<disk, table, tomcat, op, exits, excused>>

-----------------------------------------------------------------------------
(* The Tomcat process and the operating system.  A second listener on a    *)
(* port is refused; such a Tomcat stays up without a connector, or exits.  *)
Bind(i) ==
    /\ tomcat[i].alive /\ tomcat[i].socket = "none"
    /\ tomcat' = [tomcat EXCEPT ![i].socket =
                    IF Listening(tomcat[i].port) = {} THEN "bound" ELSE "refused"]
    /\ UNCHANGED <<meta, disk, table, op, exits, excused>>

Exit(i) ==
    /\ tomcat[i].alive
    /\ tomcat' = [tomcat EXCEPT ![i].alive = FALSE, ![i].killed = FALSE, ![i].spared = FALSE]
    /\ UNCHANGED <<meta, disk, table, op, exits, excused>>

(* waitExit: the managed process learns of the exit and closes waitCh.     *)
Reap(i) ==
    /\ ~tomcat[i].alive /\ tomcat[i].mgr \in {"running", "stopping"}
    /\ tomcat' = [tomcat EXCEPT ![i].mgr = "stopped"]
    /\ UNCHANGED <<meta, disk, table, op, exits, excused>>

(* The goroutine a ready instance leaves behind notices later.             *)
Monitor(i) ==
    /\ tomcat[i].mgr = "stopped" /\ tomcat[i].state = "running"
    /\ tomcat' = [tomcat EXCEPT ![i].state = "stopped"]
    /\ UNCHANGED <<meta, disk, table, op, exits, excused>>

(* load: what was running when the file was written has crashed.           *)
Load(m) ==
    IF m.state \in {"running", "starting"}
    THEN [m EXCEPT !.state = "crashed", !.wasRunning = TRUE]
    ELSE m

(* What a new agent makes of the processes of the last one: nothing; only  *)
(* the sockets of those that live on matter.                               *)
Orphan(t) ==
    LET alive == t.alive /\ ~KillOnClose IN
    [NoProcess EXCEPT !.server = t.server, !.port = t.port, !.alive = alive, !.mgr = "lost",
                      !.spared = alive /\ t.spared,
                      !.socket = IF alive THEN t.socket ELSE "none"]

(* The agent dies or restarts itself; either way no server is stopped.     *)
AgentExit ==
    /\ exits < MaxExits
    /\ exits' = exits + 1
    /\ op' = [o \in Ops |-> Idle]
    /\ table' = [s \in Servers |-> None]
    /\ tomcat' = [i \in Insts |->
                    IF tomcat[i] = NoProcess THEN NoProcess ELSE Orphan(tomcat[i])]
    /\ meta' = [s \in Servers |-> Load(disk[s])]
    /\ disk' = meta'
    /\ UNCHANGED excused

-----------------------------------------------------------------------------
Stopping(o) == SignalTerm(o) \/ GraceExpires(o) \/ SignalKill(o) \/ Gone(o) \/ ForceExpires(o)
Launching(o) == PickPort(o) \/ LeasePort(o) \/ Spawn(o) \/ SpawnFails(o) \/ Ready(o)
                \/ ProbeExpires(o) \/ Aborted(o)
Recording(o) == RecordStopped(o) \/ RecordError(o) \/ Untrack(o) \/ ReadPort(o) \/ Record(o)
Working(o) == Stopping(o) \/ Launching(o) \/ Recording(o)

Request(o) ==
    \E s \in Servers :
        \/ \E p \in Ports : BeginStart(o, s, p)
        \/ \E force \in BOOLEAN : BeginStop(o, s, force)
        \/ BeginRestart(o, s) \/ BeginDebug(o, s) \/ BeginRecover(o, s)

Next ==
    \/ \E o \in Ops : Request(o) \/ Working(o)
    \/ \E s \in Servers : Refresh(s)
    \/ \E i \in Insts : Bind(i) \/ Exit(i) \/ Reap(i) \/ Monitor(i)
    \/ AgentExit

Spec == Init /\ [][Next]_vars

(* A handler's goroutine is scheduled and its deadlines run out; a killed  *)
(* process dies; the goroutine that waits for a process is scheduled.  No  *)
(* process is assumed to heed SIGTERM or to become ready.                  *)
FairRunner ==
    /\ Spec
    /\ \A o \in Ops : WF_vars(Working(o))
    /\ \A i \in Insts : WF_vars(tomcat[i].killed /\ Exit(i)) /\ WF_vars(Reap(i))

-----------------------------------------------------------------------------
(* PROPERTIES                                                              *)

InstOrNone == Insts \cup {None}
PortOrNone == Ports \cup {None}
MetaType == [state : {"absent", "starting", "running", "stopped", "crashed", "error"},
             inst : InstOrNone, port : PortOrNone, wasRunning : BOOLEAN]
TomcatType == [server : Servers \cup {None}, port : PortOrNone,
               alive : BOOLEAN, killed : BOOLEAN, spared : BOOLEAN,
               socket : {"none", "bound", "refused"},
               mgr : {"unused", "running", "stopping", "stopped", "lost"},
               state : {"starting", "running", "stopped"}]
StopStages == {"stop", "await", "kill", "awaitkill", "force", "awaitforce"}
LaunchStages == {"probe", "abort", "record"}
OpType == [pc : StopStages \cup LaunchStages
                \cup {"idle", "stopped", "error", "untrack", "read", "pick", "lease", "spawn"},
           kind : {"start", "stop", "restart", "debug", "recover", None},
           server : Servers \cup {None}, inst : InstOrNone, new : InstOrNone,
           port : PortOrNone, lease : PortOrNone]

(* Types of the records, the table, the processes and the handlers; a      *)
(* handler that stops, launches or records has what that needs at hand     *)
(* (realServerRunner and serverMeta of server.go, Instance of tomcat6.go). *)
TypeOK ==
    /\ meta \in [Servers -> MetaType]
    /\ disk \in [Servers -> MetaType]
    /\ table \in [Servers -> InstOrNone]
    /\ tomcat \in [Insts -> TomcatType]
    /\ op \in [Ops -> OpType]
    /\ \A o \in Ops :
          /\ op[o].pc # "idle" => op[o].server # None
          /\ op[o].pc \in StopStages =>
                op[o].inst # None /\ op[o].kind \in {"stop", "restart", "debug"}
          /\ op[o].pc \in {"pick", "spawn"} => op[o].port # None
          /\ op[o].pc \in LaunchStages => op[o].new # None
    /\ exits \in 0..MaxExits
    /\ excused \subseteq Servers

(* A server shown as running has an instance behind it that can be         *)
(* stopped, or is on its way through a Restart, which will record either   *)
(* the new instance or an error (server.go, Stop, Restart and load).       *)
RestartUnderWay(s) ==
    \E o \in InFlight(s) :
        op[o].kind = "restart" /\ op[o].pc \notin StopStages \cup {"untrack"}

RunningIsTracked ==
    \A s \in Servers : meta[s].state = "running" => table[s] # None \/ RestartUnderWay(s)

Managed(i) == tomcat[i].alive /\ tomcat[i].mgr \in {"running", "stopping"}

(* While the requests for its server come one after the other, the only    *)
(* Tomcats of this agent that live and are neither in the table nor in the *)
(* hands of a request are those a stop has given up on: identity check     *)
(* failed, or SIGKILL without effect for ten seconds (proc.go:271,309; the *)
(* cleanup of tomcat6.Start and Debug ignore that error).                  *)
NoLeak ==
    \A i \in Insts : Managed(i) /\ ~tomcat[i].spared =>
        LET s == tomcat[i].server IN
        \/ s \in excused
        \/ table[s] = i
        \/ \E o \in InFlight(s) : i \in {op[o].inst, op[o].new}

(* A server recorded as stopped has no live process, as long as requests   *)
(* for it come one after the other and no stop has given up on it: a stop  *)
(* that answers nil because the process is no longer running (GracefulStop *)
(* at proc.go:258) finds it dead unless an earlier stop spared it.         *)
StoppedIsDeadInTurn ==
    \A s \in Servers \ excused : meta[s].state = "stopped" =>
        \A i \in Insts : meta[s].inst = i => ~tomcat[i].alive \/ tomcat[i].spared

(* Every request returns, whether or not Tomcat heeds SIGTERM, becomes     *)
(* ready, or dies in between.                                              *)
RequestsReturn == \A o \in Ops : ~At(o, "idle") ~> At(o, "idle")
=============================================================================
