---------------------------- MODULE AgentSupervisor ----------------------------
(***************************************************************************)
(* Who keeps the runtime agent alive, and who takes it down: the Electron  *)
(* main process (src/apps/desktop/src/main.ts with child-lifecycle.ts and  *)
(* process-manager.ts), the agent's own start, port hand-over and restart  *)
(* (src/runtime-agent/cmd/kairo-runtime/main.go, internal/api/lifecycle.go *)
(* and server.go), and agent-state.json, through which they find each      *)
(* other.  A session of the desktop application starts or reuses an agent, *)
(* respawns one that exits, replaces it when the user switches the JDK or  *)
(* the Tomcat, and stops what it tracks when it quits.                     *)
(*                                                                         *)
(* A process is its number, in the order of starting; an ephemeral port is *)
(* the number of the process that bound it.  A process asked to die dies.  *)
(***************************************************************************)
EXTENDS Naturals, FiniteSets

CONSTANTS
    MaxProcs,     \* bound: agent processes
    MaxSessions,  \* bound: sessions of the desktop application
    MaxCrashes,   \* bound: agents that die of something else
    TreeKill      \* the final sweep reaches the agent: taskkill does, the
                  \* signal to a process group it does not lead does not

ASSUME SupervisorConstants == /\ MaxProcs \in Nat \ {0} /\ MaxSessions \in Nat
                              /\ MaxCrashes \in Nat /\ TreeKill \in BOOLEAN

VARIABLES
    \* the agents
    agent,      \* process -> what it is and how far it has got
    spawned,    \* processes so far
    stateFile,  \* agent-state.json
    crashes,
    \* the desktop main process
    session,    \* sessions so far
    pc,         \* off, idle, or what the start-up or a switch awaits
    quit,       \* before-quit: no, theia (being stopped), agent (being stopped)
    agentProcess, agentPort, agentStartedByUs, agentRespawning,
    respawn,    \* the respawn timer: 0, or the port it was armed with
    registry,   \* the process manager's entry for the agent
    \* history
    replaced,   \* a switch, or a restart of an agent by itself, has happened
    left        \* agents alive when the session that started them had quit

files == <<agent, spawned, stateFile>>
refs == <<agentProcess, agentPort, agentStartedByUs, agentRespawning, respawn, registry>>
vars == <<agent, spawned, stateFile, crashes, session, pc, quit,
          agentProcess, agentPort, agentStartedByUs, agentRespawning, respawn,
          registry, replaced, left>>

Procs == 1..MaxProcs
NoProc == 0

(* life: booting until the starting state is written, binding until the    *)
(* port is bound, leaving once it has spawned its own replacement.  child: *)
(* how its exit event is handled, as that of a started or respawned child, *)
(* or not at all.  seen: that event was handled.  parent: the agent whose  *)
(* replacement it is.                                                      *)
Agents == [life : {"none", "booting", "binding", "serving", "leaving", "dead"},
           gen : 0..MaxProcs, port : 0..MaxProcs, home : 0..MaxSessions,
           child : {"started", "respawned", "no"}, seen : BOOLEAN, parent : 0..MaxProcs]

Unborn == [life |-> "none", gen |-> 0, port |-> 0, home |-> 0, child |-> "no", seen |-> FALSE,
           parent |-> 0]

NoFile == [pid |-> 0, gen |-> 0, port |-> 0, status |-> "none"]
Statuses == {"none", "starting", "ready", "handing_over", "failed"}

NoEntry == [pid |-> 0, exited |-> FALSE]

Alive(p) == agent[p].life \notin {"none", "dead"}

TypeOK ==
    /\ agent \in [Procs -> Agents]
    /\ spawned \in 0..MaxProcs
    /\ stateFile \in [pid : 0..MaxProcs, gen : 0..MaxProcs, port : 0..MaxProcs, status : Statuses]
    /\ crashes \in 0..MaxCrashes
    /\ session \in 0..MaxSessions
    /\ pc \in {"off", "launching", "awaitPort", "checking", "idle", "stopping", "failing"}
    /\ quit \in {"no", "theia", "agent"}
    /\ agentProcess \in {NoProc} \cup Procs
    /\ agentPort \in 0..MaxProcs
    /\ agentStartedByUs \in BOOLEAN
    /\ agentRespawning \in BOOLEAN
    /\ respawn \in 0..MaxProcs
    /\ registry \in [pid : {NoProc} \cup Procs, exited : BOOLEAN]
    /\ replaced \in BOOLEAN
    /\ left \in SUBSET Procs

NoRefs == /\ agentProcess' = NoProc
          /\ agentPort' = 0
          /\ agentStartedByUs' = FALSE
          /\ agentRespawning' = FALSE
          /\ respawn' = 0
          /\ registry' = NoEntry

Init ==
    /\ agent = [p \in Procs |-> Unborn]
    /\ spawned = 0
    /\ stateFile = NoFile
    /\ crashes = 0
    /\ session = 0
    /\ pc = "off"
    /\ quit = "no"
    /\ agentProcess = NoProc
    /\ agentPort = 0
    /\ agentStartedByUs = FALSE
    /\ agentRespawning = FALSE
    /\ respawn = 0
    /\ registry = NoEntry
    /\ replaced = FALSE
    /\ left = {}

-----------------------------------------------------------------------------
(* The agent process                                                       *)

(* WriteAgentStateAtomic: a newer generation in the file stays, and so     *)
(* does a ready process of the same one against one that is starting.      *)
Refused(st) ==
    \/ stateFile.gen > st.gen
    \/ /\ stateFile.gen = st.gen /\ stateFile.pid # st.pid
       /\ stateFile.status = "ready" /\ st.status = "starting"

WriteState(p, port, status) ==
    LET st == [pid |-> p, gen |-> agent[p].gen, port |-> port, status |-> status]
    IN stateFile' = IF Refused(st) THEN stateFile ELSE st

Becomes(p, life) == [agent EXCEPT ![p].life = life]

Dead(ps) == [p \in Procs |->
                IF p \in ps /\ Alive(p) THEN [agent[p] EXCEPT !.life = "dead"] ELSE agent[p]]

Born(gen, port, home, child, parent) ==
    [life |-> "booting", gen |-> gen, port |-> port, home |-> home,
     child |-> child, seen |-> FALSE, parent |-> parent]

(* main: the container is up, the starting state is written.               *)
Boot(p) ==
    /\ agent[p].life = "booting"
    /\ agent' = Becomes(p, "binding")
    /\ WriteState(p, agent[p].port, "starting")
    /\ UNCHANGED <<spawned, crashes, session, pc, quit, refs, replaced, left>>

Holders(port) == {q \in Procs : agent[q].life \in {"serving", "leaving"} /\ agent[q].port = port}

(* ListenWithHandoff binds a free port, then the ready state is written.   *)
Bind(p) ==
    /\ agent[p].life = "binding"
    /\ Holders(agent[p].port) = {}
    /\ LET port == IF agent[p].port = 0 THEN p ELSE agent[p].port IN
          /\ agent' = [agent EXCEPT ![p] = [@ EXCEPT !.life = "serving", !.port = port]]
          /\ WriteState(p, port, "ready")
    /\ UNCHANGED <<spawned, crashes, session, pc, quit, refs, replaced, left>>

(* The port stays taken until the hand-over times out.                     *)
BindFails(p) ==
    /\ agent[p].life = "binding"
    /\ Holders(agent[p].port) # {}
    /\ agent' = Becomes(p, "dead")
    /\ WriteState(p, agent[p].port, "failed")
    /\ UNCHANGED <<spawned, crashes, session, pc, quit, refs, replaced, left>>

(* The replacement is one generation on.                                   *)
NextGenerationBug(p) == agent[p].gen + 2  \* counted by both processes
NextGeneration(p) == agent[p].gen + 1

(* doRestart, up to the spawn of the replacement: whatever the file says   *)
(* is marked as handing over.                                              *)
SelfRestart(p) ==
    /\ agent[p].life = "serving" /\ spawned < MaxProcs
    /\ spawned' = spawned + 1
    /\ agent' = [agent EXCEPT ![p].life = "leaving",
                              ![spawned + 1] = Born(NextGeneration(p), agent[p].port,
                                                    agent[p].home, "no", p)]
    /\ stateFile' = IF stateFile = NoFile THEN NoFile
                    ELSE [stateFile EXCEPT !.status = "handing_over"]
    /\ replaced' = TRUE
    /\ UNCHANGED <<crashes, session, pc, quit, refs, left>>

(* The rest of it: the listener closes, main returns through its deferred  *)
(* RemoveAgentState unless os.Exit comes first.                            *)
RemoveState(p) ==
    IF stateFile.gen > agent[p].gen \/ stateFile.pid # p THEN stateFile ELSE NoFile

Leave(p) ==
    /\ agent[p].life = "leaving"
    /\ agent' = Becomes(p, "dead")
    /\ stateFile' \in {stateFile, RemoveState(p)}
    /\ UNCHANGED <<spawned, crashes, session, pc, quit, refs, replaced, left>>

CrashAgent(p) ==
    /\ Alive(p) /\ crashes < MaxCrashes
    /\ crashes' = crashes + 1
    /\ agent' = Becomes(p, "dead")
    /\ UNCHANGED <<spawned, stateFile, session, pc, quit, refs, replaced, left>>

-----------------------------------------------------------------------------
(* The desktop application starts                                          *)

Running == pc # "off"

Launch ==
    /\ pc = "off" /\ session < MaxSessions
    /\ session' = session + 1
    /\ pc' = "launching"
    /\ UNCHANGED <<files, crashes, quit, refs, replaced, left>>

(* tryReuseAgent: the process on the port of the file is healthy and takes *)
(* the secret of the environment.                                          *)
Reuse ==
    /\ pc = "launching" /\ Holders(stateFile.port) # {} /\ stateFile.pid # NoProc
    /\ agentPort' = stateFile.port
    /\ registry' = [pid |-> stateFile.pid, exited |-> FALSE]
    /\ agentStartedByUs' = FALSE
    /\ pc' = "checking"
    /\ UNCHANGED <<files, crashes, session, quit, agentProcess, agentRespawning, respawn,
                   replaced, left>>

(* spawn and register, as a child of this session.                         *)
Spawn(gen, port, child, base) ==
    LET p == spawned + 1 IN
    /\ spawned < MaxProcs
    /\ spawned' = p
    /\ agent' = [base EXCEPT ![p] = Born(gen, port, session, child, 0)]
    /\ agentProcess' = p
    /\ registry' = [pid |-> p, exited |-> FALSE]

(* tryReuseAgent gives up, killing the process of the file when the JDK    *)
(* has changed since it started; startAgent, until it awaits the port.     *)
StartAgent ==
    /\ pc = "launching"
    /\ \E base \in {agent, Dead({stateFile.pid})} : Spawn(1, 0, "started", base)
    /\ stateFile' = NoFile
    /\ pc' = "awaitPort"
    /\ UNCHANGED <<crashes, session, quit, agentPort, agentStartedByUs, agentRespawning,
                   respawn, replaced, left>>

(* waitForAgentPort takes the port in the file, whoever wrote it.  A first *)
(* start goes on to await the agent's health and the Theia backend.        *)
PortFound ==
    /\ pc = "awaitPort" /\ agentProcess # NoProc /\ stateFile.port # 0
    /\ agentPort' = stateFile.port
    /\ agentStartedByUs' = TRUE
    /\ pc' = IF agentStartedByUs THEN "idle" ELSE "checking"
    /\ UNCHANGED <<files, crashes, session, quit, agentProcess, agentRespawning, respawn,
                   registry, replaced, left>>

(* It gives up: the process is gone, or the port took too long.  A first   *)
(* start fails the launch; a switch is left as it is.                      *)
NoPort ==
    /\ pc = "awaitPort"
    /\ pc' = IF agentStartedByUs THEN "idle" ELSE "failing"
    /\ UNCHANGED <<files, crashes, session, quit, refs, replaced, left>>

(* ready, and the Theia backend: the window opens.                         *)
Ready ==
    /\ pc = "checking"
    /\ agentStartedByUs => agentProcess # NoProc /\ Holders(agentPort) # {}
    /\ pc' = "idle"
    /\ UNCHANGED <<files, crashes, session, quit, refs, replaced, left>>

(* shutdownOne kills the registered process unless its exit is recorded    *)
(* already; the exit event follows.                                        *)
Target == IF registry.exited THEN {} ELSE {registry.pid} \ {NoProc}

(* The agent is gone or does not answer (it is killed), or Theia fails.    *)
NotReady ==
    /\ pc = "checking"
    /\ pc' = "failing"
    /\ \/ UNCHANGED <<agent, agentProcess>>
       \/ /\ agentStartedByUs /\ (agentProcess = NoProc \/ Holders(agentPort) = {})
          /\ agent' = Dead(Target)
          /\ agentProcess' = NoProc
    /\ UNCHANGED <<spawned, stateFile, crashes, session, quit, agentPort, agentStartedByUs,
                   agentRespawning, respawn, registry, replaced, left>>

-----------------------------------------------------------------------------
(* Exit events and the respawn                                             *)

(* The exit handlers of a child.  The process manager's entry is left      *)
(* alone when it is another process by now; the child reference is not.    *)
RegistryAfterBug(p) == IF registry.pid # NoProc THEN [registry EXCEPT !.exited = TRUE] ELSE registry
RegistryAfter(p) == IF registry.pid = p THEN [registry EXCEPT !.exited = TRUE] ELSE registry

Respawns(p) ==
    /\ agent[p].child = "started" /\ quit = "no"
    /\ agentStartedByUs /\ agentPort # 0 /\ ~agentRespawning

ExitEvent(p) ==
    /\ Running /\ agent[p].life = "dead"
    /\ agent[p].child # "no" /\ agent[p].home = session /\ ~agent[p].seen
    /\ agent' = [agent EXCEPT ![p].seen = TRUE]
    /\ registry' = RegistryAfter(p)
    /\ agentProcess' = NoProc
    /\ agentRespawning' = (agentRespawning \/ Respawns(p))
    /\ respawn' = IF Respawns(p) THEN agentPort ELSE respawn
    /\ UNCHANGED <<spawned, stateFile, crashes, session, pc, quit, agentPort, agentStartedByUs,
                   replaced, left>>

(* The timer: same port, same secret, whatever happened in between.        *)
RespawnBug ==  \* the new child is not registered
    /\ Running /\ respawn # 0 /\ spawned < MaxProcs
    /\ spawned' = spawned + 1
    /\ agent' = [agent EXCEPT ![spawned + 1] = Born(1, respawn, session, "respawned", 0)]
    /\ agentProcess' = spawned + 1
    /\ respawn' = 0
    /\ UNCHANGED <<stateFile, crashes, session, pc, quit, agentPort, agentStartedByUs,
                   agentRespawning, registry, replaced, left>>
RespawnElsewhere ==  \* on a port of its own
    /\ Running /\ respawn # 0
    /\ Spawn(1, 0, "respawned", agent)
    /\ respawn' = 0
    /\ UNCHANGED <<stateFile, crashes, session, pc, quit, agentPort, agentStartedByUs,
                   agentRespawning, replaced, left>>
Respawn ==
    /\ Running /\ respawn # 0
    /\ Spawn(1, respawn, "respawned", agent)
    /\ respawn' = 0
    /\ UNCHANGED <<stateFile, crashes, session, pc, quit, agentPort, agentStartedByUs,
                   agentRespawning, replaced, left>>

(* The health poll behind it ends, one way or the other.                   *)
RespawnSettles ==
    /\ Running /\ agentRespawning /\ respawn = 0
    /\ agentRespawning' = FALSE
    /\ UNCHANGED <<files, crashes, session, pc, quit, agentProcess, agentPort, agentStartedByUs,
                   respawn, registry, replaced, left>>

-----------------------------------------------------------------------------
(* Switching the JDK or the Tomcat                                         *)

(* stopAgent, up to the kill.                                              *)
Switch ==
    /\ pc = "idle" /\ quit = "no" /\ agentStartedByUs
    /\ pc' = "stopping"
    /\ agent' = Dead(Target)
    /\ replaced' = TRUE
    /\ UNCHANGED <<spawned, stateFile, crashes, session, quit, refs, left>>

(* waitForExit asks for the entry by label.                                *)
Gone == \/ registry.exited
        \/ registry.pid \notin {p \in Procs : Alive(p) \/ agent[p].home = session}

(* stopAgent is done; startAgent, with a new secret and any port.          *)
Restart ==
    /\ pc = "stopping" /\ Gone
    /\ Spawn(1, 0, "started", agent)
    /\ stateFile' = NoFile
    /\ pc' = "awaitPort"
    /\ UNCHANGED <<crashes, session, quit, agentPort, agentStartedByUs, agentRespawning, respawn,
                   replaced, left>>

-----------------------------------------------------------------------------
(* Quitting                                                                *)

(* before-quit: Theia first.                                               *)
Quit ==
    /\ Running /\ quit = "no"
    /\ quit' = "theia"
    /\ UNCHANGED <<files, crashes, session, pc, refs, replaced, left>>

(* A failed launch stops everything and only then quits.                   *)
FailLaunch ==
    /\ pc = "failing" /\ quit = "no"
    /\ quit' = "theia"
    /\ agent' = Dead(Target)
    /\ agentProcess' = NoProc
    /\ UNCHANGED <<spawned, stateFile, crashes, session, pc, agentPort, agentStartedByUs,
                   agentRespawning, respawn, registry, replaced, left>>

(* stopOwned gets to the agent: shutdownOne on the registered process.     *)
QuitAgent ==
    /\ quit = "theia"
    /\ quit' = "agent"
    /\ agent' = Dead(Target)
    /\ UNCHANGED <<spawned, stateFile, crashes, session, pc, refs, replaced, left>>

Ours(agents) == {p \in Procs : agents[p].home = session /\ agents[p].life \notin {"none", "dead"}}

(* forceKillOwnedSync: with the children of a process that still lives.    *)
Tree(ps) == ps \cup {q \in Procs : \E p \in ps : Alive(p) /\ agent[q].parent = p}

Exit ==
    /\ agent' = IF TreeKill THEN Dead(Tree(Target)) ELSE agent
    /\ left' = left \cup Ours(agent')
    /\ pc' = "off"
    /\ quit' = "no"
    /\ NoRefs
    /\ UNCHANGED <<spawned, stateFile, crashes, session, replaced>>

(* shutdownOne has seen it go, or the five seconds are over: the final     *)
(* sweep, and the end.                                                     *)
Quitted == quit = "agent" /\ Gone /\ Exit
QuitTimeout == quit # "no" /\ Exit

(* The main process dies without any of this.                              *)
DesktopDies ==
    /\ Running
    /\ pc' = "off"
    /\ quit' = "no"
    /\ NoRefs
    /\ UNCHANGED <<files, crashes, session, replaced, left>>

-----------------------------------------------------------------------------
AgentStep(p) == Boot(p) \/ Bind(p) \/ BindFails(p) \/ Leave(p)

Next ==
    \/ \E p \in Procs : AgentStep(p) \/ SelfRestart(p) \/ CrashAgent(p) \/ ExitEvent(p)
    \/ Launch \/ Reuse \/ StartAgent \/ PortFound \/ NoPort \/ Ready \/ NotReady \/ FailLaunch
    \/ Respawn \/ RespawnSettles \/ Switch \/ Restart
    \/ Quit \/ QuitAgent \/ Quitted \/ QuitTimeout \/ DesktopDies

Spec == Init /\ [][Next]_vars

(* Agents get on, exit events arrive, the timer fires, and what was begun  *)
(* is finished.  Nobody owes a launch, a switch or a quit.                 *)
FairSupervisor ==
    /\ Spec
    /\ \A p \in Procs : WF_vars(AgentStep(p)) /\ WF_vars(ExitEvent(p))
    /\ WF_vars(Respawn) /\ WF_vars(Restart) /\ WF_vars(PortFound)

-----------------------------------------------------------------------------
(* Properties                                                              *)

(* The process manager's entry never says exited of a process that lives,  *)
(* although the exit event of a predecessor may come after its successor   *)
(* was registered (the generation check in register): a quit that believed *)
(* it would leave the agent running.                                       *)
RegistryIsRight == registry.exited => registry.pid \notin {p \in Procs : Alive(p)}

(* No agent was replaced, and one that this session started found none of  *)
(* an earlier session.                                                     *)
Undisturbed ==
    ~replaced /\ (agentStartedByUs => \A p \in Procs : agent[p].home \in {0, session})

(* The port the front end was given is the port of the agent the desktop   *)
(* tracks, through reuse, respawn and whatever else wrote the state file   *)
(* (waitForAgentPort), in an undisturbed session.                          *)
OnePort ==
    pc = "idle" /\ Undisturbed =>
        \A p \in Procs : p = registry.pid /\ Alive(p) => agent[p].port = agentPort

(* A session that quits takes every agent it started down, the respawned   *)
(* one and one still starting included, as long as no agent was replaced   *)
(* (stopOwned, forceKillOwnedSync).                                        *)
QuitsClean == ~replaced => left = {}

(* An agent that dies once under an open desktop is served again on the    *)
(* same port (the respawn of the exit handler), in an undisturbed session: *)
(* for whoever holds that address, it recovers.                            *)
Recovered == \E p \in Procs : agent[p].life = "serving" /\ agent[p].port = agentPort
FirstKillRecovers ==
    <>[](pc = "idle" /\ quit = "no" /\ agentStartedByUs /\ Undisturbed /\ crashes <= 1 => Recovered)

(* "kill agent -> reconnect must recover" (main.ts, the exit handler):     *)
(* the same for any number of deaths.                                      *)
KillRecovers ==
    <>[](pc = "idle" /\ quit = "no" /\ agentStartedByUs /\ Undisturbed => Recovered)
=============================================================================
