----------------------- MODULE AgentSupervisorProofs -----------------------
(* Theorems about AgentSupervisor, for any number of processes, sessions    *)
(* and crashes: the types, that the process manager never writes off a      *)
(* living agent, that a quit leaves nothing behind, and that the port the   *)
(* front end was given is the port of the agent the desktop tracks.         *)
EXTENDS AgentSupervisor, TLAPS

(* Processes are numbered in the order of starting; generations grow no    *)
(* faster, and no process belongs to a session still to come.              *)
Numbered ==
    \A p \in Procs :
        /\ p > spawned => agent[p] = Unborn
        /\ agent[p].gen <= p
        /\ agent[p].home <= session

(* The entry says exited of a dead process only.                           *)
ExitedIsDead ==
    registry.exited => registry.pid \in Procs /\ agent[registry.pid].life = "dead"

Own(p) == agent[p].home = session

(* Where the main process is: nothing is armed before a session has        *)
(* started an agent, and only a switch stops one.                          *)
Stages ==
    /\ pc \in {"off", "launching"} => respawn = 0
    /\ pc = "launching" => \A p \in Procs : ~Own(p)
    /\ pc = "off" => quit = "no"
    /\ pc = "stopping" => replaced

(* Where no agent was replaced, a session has at most the agent it started *)
(* and, once the exit of that one was handled, the respawned one; the one  *)
(* that lives is the one the process manager knows.                        *)
Alone ==
    ~replaced /\ Running =>
        /\ \A p \in Procs : Own(p) /\ Alive(p) => p = registry.pid
        /\ \A p \in Procs : Own(p) /\ agent[p].child = "started" /\ ~agent[p].seen =>
              respawn = 0 /\ \A q \in Procs : Own(q) => q = p
        /\ \A p \in Procs : Own(p) /\ respawn # 0 => ~Alive(p)

IndInv == TypeOK /\ Numbered /\ ExitedIsDead /\ Stages /\ Alone

-----------------------------------------------------------------------------
(* What becomes of agents                                                  *)

Lives == {"booting", "binding", "serving", "leaving", "dead"}
Files == [pid : 0..MaxProcs, gen : 0..MaxProcs, port : 0..MaxProcs, status : Statuses]

(* The agents get on or die: none is born, revived or adopted.             *)
Aged(next) ==
    /\ next \in [Procs -> Agents]
    /\ \A p \in Procs :
          /\ next[p].gen = agent[p].gen /\ next[p].home = agent[p].home
          /\ next[p].child = agent[p].child /\ next[p].seen = agent[p].seen
          /\ agent[p].life = "none" => next[p] = agent[p]
          /\ agent[p].life = "dead" => next[p].life = "dead"

(* A process is none that is out of range.                                 *)
LEMMA ProcsAreNat == Procs \subseteq Nat /\ Procs \subseteq 0..MaxProcs /\ 0 \in 0..MaxProcs
                     /\ 0 \notin Procs
  BY SupervisorConstants DEF Procs

(* A process that lives may enter any stage of its life.                   *)
LEMMA BecomesAged ==
    ASSUME TypeOK, NEW p \in Procs, Alive(p), NEW life \in Lives
    PROVE  Aged(Becomes(p, life))
  <1> DEFINE a == [agent[p] EXCEPT !.life = life]
  <1>1. a \in Agents /\ a.gen = agent[p].gen /\ a.home = agent[p].home
        /\ a.child = agent[p].child /\ a.seen = agent[p].seen /\ a.life = life
    BY DEF TypeOK, Agents, Lives
  <1>2. Becomes(p, life) = [agent EXCEPT ![p] = a]
    BY DEF Becomes
  <1> HIDE DEF a
  <1> QED BY <1>1, <1>2 DEF TypeOK, Aged, Alive

(* Any processes may die.                                                  *)
LEMMA DeadAged ==
    ASSUME TypeOK, NEW ps PROVE Aged(Dead(ps))
  <1> DEFINE a(p) == [agent[p] EXCEPT !.life = "dead"]
  <1>1. \A p \in Procs : /\ a(p) \in Agents /\ a(p).gen = agent[p].gen /\ a(p).home = agent[p].home
                         /\ a(p).child = agent[p].child /\ a(p).seen = agent[p].seen
                         /\ a(p).life = "dead"
    BY DEF TypeOK, Agents
  <1>2. Dead(ps) = [p \in Procs |-> IF p \in ps /\ Alive(p) THEN a(p) ELSE agent[p]]
    BY DEF Dead
  <1> HIDE DEF a
  <1> QED BY <1>1, <1>2 DEF TypeOK, Aged, Alive

(* Nothing ages when nothing happens to the agents.                        *)
LEMMA SameAged == TypeOK => Aged(agent)
  BY DEF TypeOK, Aged

(* What an agent writes into the state file is of its type.                *)
LEMMA WriteOK ==
    ASSUME TypeOK, NEW p \in Procs, NEW port \in 0..MaxProcs, NEW status \in Statuses,
           WriteState(p, port, status)
    PROVE  stateFile' \in Files
  <1>1. agent[p].gen \in 0..MaxProcs
    BY DEF TypeOK, Agents
  <1> QED BY <1>1, ProcsAreNat DEF WriteState, TypeOK, Files

(* So is the absence of the file, and of an entry in the registry.         *)
LEMMA NoFileOK == NoFile \in Files /\ NoEntry \in [pid : {NoProc} \cup Procs, exited : BOOLEAN]
  BY ProcsAreNat DEF NoFile, Files, Statuses, NoEntry, NoProc

(* Nothing runs at first.                                                  *)
LEMMA InitOK == Init => IndInv
  <1> SUFFICES ASSUME Init PROVE IndInv
    OBVIOUS
  <1>1. Unborn \in Agents
    BY SupervisorConstants DEF Unborn, Agents
  <1>2. 0 \in 0..MaxCrashes /\ 0 \in 0..MaxSessions
    BY SupervisorConstants
  <1>3. TypeOK
    BY <1>1, <1>2, NoFileOK, ProcsAreNat DEF Init, TypeOK, Files
  <1>4. Numbered
    BY ProcsAreNat DEF Init, Numbered, Unborn
  <1>5. ExitedIsDead /\ Stages /\ Alone
    BY DEF Init, ExitedIsDead, Stages, Alone, NoEntry, Running
  <1> QED BY <1>3, <1>4, <1>5 DEF IndInv

(* The steps in which agents only get on or die, and the desktop stays in  *)
(* the session it is in.                                                   *)
LEMMA AgedOK ==
    ASSUME IndInv, TypeOK', Stages', Aged(agent'),
           UNCHANGED <<spawned, session>>, replaced => replaced',
           \/ pc' = "off" /\ ~registry'.exited
           \/ /\ UNCHANGED <<registry, respawn>> /\ pc # "off"
              /\ pc' = "launching" => pc = "launching"
           \/ UNCHANGED <<registry, respawn, pc>>
    PROVE  IndInv'
  <1>1. Numbered'
    BY DEF IndInv, Numbered, Aged, Unborn
  <1>2. ExitedIsDead'
    BY DEF IndInv, ExitedIsDead, Aged
  <1>3. Alone'
    <2>1. CASE pc' = "off"
      BY <2>1 DEF Alone, Running
    <2>2. CASE pc' # "off"
      <3>1. \A p \in Procs : (Own(p)' <=> Own(p)) /\ (Alive(p)' => Alive(p))
        BY DEF Own, Alive, Aged
      <3>2. pc # "off" /\ (pc' = "launching" => pc = "launching") /\ UNCHANGED <<registry, respawn>>
        BY <2>2
      <3> QED BY <3>1, <3>2 DEF IndInv, Alone, Running, Aged
    <2> QED BY <2>1, <2>2
  <1> QED BY <1>1, <1>2, <1>3 DEF IndInv

(* Steps of an agent that start no other.                                  *)
LEMMA AgentStepOK ==
    ASSUME IndInv, NEW p \in Procs, AgentStep(p) \/ CrashAgent(p)
    PROVE  IndInv'
  <1> USE DEF refs
  <1>1. agent[p] \in Agents /\ agent[p].port \in 0..MaxProcs /\ p \in 0..MaxProcs
    BY ProcsAreNat DEF IndInv, TypeOK, Agents
  <1>2. Aged(agent')
    <2>1. CASE Boot(p) \/ BindFails(p) \/ Leave(p) \/ CrashAgent(p)
      <3>1. Alive(p)
        BY <2>1 DEF Boot, BindFails, Leave, CrashAgent, Alive
      <3>2. \E life \in Lives : agent' = Becomes(p, life)
        BY <2>1 DEF Boot, BindFails, Leave, CrashAgent, Lives
      <3> QED BY <3>1, <3>2, BecomesAged DEF IndInv
    <2>2. CASE Bind(p)
      <3> DEFINE port == IF agent[p].port = 0 THEN p ELSE agent[p].port
                 a == [agent[p] EXCEPT !.life = "serving", !.port = port]
      <3>1. port \in 0..MaxProcs
        BY <1>1
      <3> HIDE DEF port
      <3>2. a \in Agents /\ a.gen = agent[p].gen /\ a.home = agent[p].home
            /\ a.child = agent[p].child /\ a.seen = agent[p].seen /\ a.life = "serving"
        BY <1>1, <3>1 DEF Agents
      <3>3. agent' = [agent EXCEPT ![p] = a] /\ agent[p].life = "binding"
        BY <2>2 DEF Bind, port
      <3> HIDE DEF a
      <3> QED BY <3>2, <3>3 DEF IndInv, TypeOK, Aged
    <2> QED BY <2>1, <2>2 DEF AgentStep
  <1>3. UNCHANGED <<spawned, session, pc, quit, agentProcess, agentPort, agentStartedByUs,
                    agentRespawning, respawn, registry, replaced, left>>
    BY DEF AgentStep, Boot, Bind, BindFails, Leave, CrashAgent
  <1>4. stateFile' \in Files
    <2>1. CASE Boot(p)
      BY <1>1, <2>1, WriteOK DEF Boot, IndInv, Statuses
    <2>2. CASE BindFails(p)
      BY <1>1, <2>2, WriteOK DEF BindFails, IndInv, Statuses
    <2>3. CASE Bind(p)
      BY <1>1, <2>3, WriteOK DEF Bind, IndInv, Statuses
    <2>4. CASE Leave(p) \/ CrashAgent(p)
      BY <2>4, NoFileOK DEF Leave, CrashAgent, RemoveState, IndInv, TypeOK, Files
    <2> QED BY <2>1, <2>2, <2>3, <2>4 DEF AgentStep
  <1>5. crashes' \in 0..MaxCrashes
    <2>1. crashes' = crashes \/ (crashes < MaxCrashes /\ crashes' = crashes + 1)
      BY DEF AgentStep, Boot, Bind, BindFails, Leave, CrashAgent
    <2> QED BY <2>1, SupervisorConstants DEF IndInv, TypeOK
  <1>6. TypeOK' /\ Stages'
    BY <1>2, <1>3, <1>4, <1>5 DEF IndInv, TypeOK, Aged, Files, Stages, Own
  <1> QED BY <1>2, <1>3, <1>6, AgedOK

(* Steps of the desktop that start no agent and close no session.          *)
LEMMA DesktopOK ==
    ASSUME IndInv,
           \/ Reuse \/ PortFound \/ NoPort \/ Ready \/ NotReady \/ FailLaunch
           \/ RespawnSettles \/ Switch \/ Quit \/ QuitAgent
    PROVE  IndInv'
  <1> USE DEF refs, files
  <1>1. Aged(agent')
    BY SameAged, DeadAged DEF IndInv, Reuse, PortFound, NoPort, Ready, NotReady, FailLaunch,
       RespawnSettles, Switch, Quit, QuitAgent
  <1>2. UNCHANGED <<spawned, stateFile, crashes, session, respawn, left>> /\ (replaced => replaced')
    BY DEF Reuse, PortFound, NoPort, Ready, NotReady, FailLaunch,
       RespawnSettles, Switch, Quit, QuitAgent
  <1>3. /\ pc' \in {"off", "launching", "awaitPort", "checking", "idle", "stopping", "failing"}
        /\ quit' \in {"no", "theia", "agent"}
        /\ agentProcess' \in {NoProc} \cup Procs
        /\ agentStartedByUs' \in BOOLEAN /\ agentRespawning' \in BOOLEAN
        /\ replaced' \in BOOLEAN
    BY DEF IndInv, TypeOK, Reuse, PortFound, NoPort, Ready, NotReady, FailLaunch,
       RespawnSettles, Switch, Quit, QuitAgent
  <1>4. agentPort' \in 0..MaxProcs
    BY DEF IndInv, TypeOK, Reuse, PortFound, NoPort, Ready, NotReady, FailLaunch,
       RespawnSettles, Switch, Quit, QuitAgent
  <1>5. registry' \in [pid : {NoProc} \cup Procs, exited : BOOLEAN]
    <2>1. stateFile.pid \in {NoProc} \cup Procs
      BY SupervisorConstants DEF IndInv, TypeOK, NoProc, Procs
    <2>2. CASE Reuse
      BY <2>1, <2>2 DEF Reuse
    <2>3. CASE ~Reuse
      <3>1. registry' = registry
        BY <2>3 DEF PortFound, NoPort, Ready, NotReady, FailLaunch,
           RespawnSettles, Switch, Quit, QuitAgent
      <3> QED BY <3>1 DEF IndInv, TypeOK
    <2> QED BY <2>2, <2>3
  <1>6. TypeOK'
    BY <1>1, <1>2, <1>3, <1>4, <1>5 DEF IndInv, TypeOK, Aged
  <1>7. Stages' /\ pc # "off"
    <2>1. \A p \in Procs : Own(p)' <=> Own(p)
      BY <1>1, <1>2 DEF Own, Aged
    <2> QED BY <1>2, <2>1 DEF IndInv, Stages, Running, Reuse, PortFound, NoPort, Ready, NotReady,
        FailLaunch, RespawnSettles, Switch, Quit, QuitAgent
  <1>8. CASE ~Reuse
    <2>1. UNCHANGED registry /\ (pc' = "launching" => pc = "launching")
      BY <1>8 DEF PortFound, NoPort, Ready, NotReady, FailLaunch,
         RespawnSettles, Switch, Quit, QuitAgent
    <2> QED BY <1>1, <1>2, <1>6, <1>7, <2>1, AgedOK
  <1>9. CASE Reuse
    <2>1. Numbered'
      BY <1>2, <1>9 DEF IndInv, Numbered, Reuse
    <2>2. ExitedIsDead' /\ Alone'
      BY <1>2, <1>9 DEF IndInv, ExitedIsDead, Alone, Stages, Running, Own, Reuse
    <2> QED BY <1>6, <1>7, <2>1, <2>2 DEF IndInv
  <1> QED BY <1>8, <1>9

(* A launch begins a session to which no process belongs yet.              *)
LEMMA LaunchOK == ASSUME IndInv, Launch PROVE IndInv'
  <1> USE DEF refs, files
  <1>1. session' = session + 1 /\ session' \in 0..MaxSessions /\ session \in Nat
    BY SupervisorConstants DEF IndInv, TypeOK, Launch
  <1>2. \A p \in Procs : agent[p].home \in Nat
    BY SupervisorConstants DEF IndInv, TypeOK, Agents
  <1>3. TypeOK' /\ Stages'
    <2>1. \A p \in Procs : ~Own(p)'
      BY <1>1, <1>2 DEF IndInv, Numbered, Own, Launch
    <2> QED BY <1>1, <2>1 DEF IndInv, TypeOK, Stages, Launch
  <1>4. Numbered'
    BY <1>1, <1>2 DEF IndInv, Numbered, Launch
  <1>5. ExitedIsDead'
    BY DEF IndInv, ExitedIsDead, Launch
  <1>6. Alone'
    <2>1. \A p \in Procs : ~Own(p)'
      BY <1>1, <1>2 DEF IndInv, Numbered, Own, Launch
    <2> QED BY <2>1 DEF Alone
  <1> QED BY <1>3, <1>4, <1>5, <1>6 DEF IndInv

(* A session that ends tracks nothing.                                     *)
LEMMA CloseOK == ASSUME IndInv, Quitted \/ QuitTimeout \/ DesktopDies PROVE IndInv'
  <1> USE DEF refs, files, NoRefs
  <1>1. Aged(agent')
    BY SameAged, DeadAged DEF IndInv, Quitted, QuitTimeout, DesktopDies, Exit
  <1>2. /\ UNCHANGED <<spawned, stateFile, crashes, session, replaced>>
        /\ pc' = "off" /\ quit' = "no" /\ agentProcess' = NoProc /\ agentPort' = 0
        /\ agentStartedByUs' = FALSE /\ agentRespawning' = FALSE /\ respawn' = 0
        /\ registry' = NoEntry
    BY DEF Quitted, QuitTimeout, DesktopDies, Exit
  <1>3. left' \in SUBSET Procs
    BY DEF IndInv, TypeOK, Quitted, QuitTimeout, DesktopDies, Exit, Ours
  <1>4. TypeOK'
    BY <1>1, <1>2, <1>3, NoFileOK, ProcsAreNat DEF IndInv, TypeOK, Aged
  <1>5. Stages' /\ ~registry'.exited
    BY <1>2 DEF Stages, NoEntry
  <1> QED BY <1>1, <1>2, <1>4, <1>5, AgedOK

(* The exit event of a child marks the entry only if it is still its own,  *)
(* and arms the timer when nothing else of the session can live.           *)
LEMMA ExitEventOK == ASSUME IndInv, NEW p \in Procs, ExitEvent(p) PROVE IndInv'
  <1> DEFINE a == [agent[p] EXCEPT !.seen = TRUE]
  <1>1. a \in Agents /\ a.life = "dead" /\ a.gen = agent[p].gen /\ a.home = agent[p].home
        /\ a.child = agent[p].child /\ a.seen = TRUE
    <2>1. agent[p] \in Agents /\ agent[p].life = "dead"
      BY DEF IndInv, TypeOK, ExitEvent
    <2> QED BY <2>1 DEF Agents
  <1>2. agent' = [agent EXCEPT ![p] = a]
    BY DEF ExitEvent
  <1> HIDE DEF a
  <1>3. agent' \in [Procs -> Agents] /\ agent'[p] = a
        /\ \A q \in Procs : q # p => agent'[q] = agent[q]
    BY <1>1, <1>2 DEF IndInv, TypeOK
  <1>4. /\ UNCHANGED <<spawned, stateFile, crashes, session, pc, quit, agentPort, agentStartedByUs,
                        replaced, left>>
        /\ agent[p].life = "dead" /\ agent[p].child # "no" /\ Own(p) /\ ~agent[p].seen /\ Running
        /\ agentProcess' = NoProc
    BY DEF ExitEvent, Own
  <1>5. /\ registry' \in [pid : {NoProc} \cup Procs, exited : BOOLEAN]
        /\ registry'.pid = registry.pid
        /\ registry'.exited => registry.exited \/ registry.pid = p
    BY DEF IndInv, TypeOK, ExitEvent, RegistryAfter
  <1>6. /\ respawn' \in 0..MaxProcs /\ agentRespawning' \in BOOLEAN
        /\ respawn' = respawn \/ agent[p].child = "started"
    BY DEF IndInv, TypeOK, ExitEvent, Respawns
  <1>7. TypeOK'
    BY <1>3, <1>4, <1>5, <1>6 DEF IndInv, TypeOK
  <1>8. Numbered'
    BY <1>1, <1>3, <1>4 DEF IndInv, Numbered, Unborn
  <1>9. ExitedIsDead'
    BY <1>1, <1>3, <1>4, <1>5 DEF IndInv, ExitedIsDead, TypeOK
  <1>10. pc # "launching" /\ pc # "off"
    BY <1>4 DEF IndInv, Stages, Running
  <1>11. Stages'
    BY <1>4, <1>10 DEF IndInv, Stages
  <1>12. Alone'
    <2> SUFFICES ASSUME ~replaced PROVE Alone'
      BY <1>4 DEF Alone
    <2>1. \A q \in Procs : /\ Own(q)' <=> Own(q)
                           /\ Alive(q)' <=> Alive(q)
                           /\ agent'[q].child = agent[q].child
                           /\ agent[q].seen => agent'[q].seen
      BY <1>1, <1>3, <1>4 DEF Own, Alive
    <2>2. CASE agent[p].child = "started"
      <3>1. \A q \in Procs : Own(q) => q = p
        BY <1>4, <2>2 DEF IndInv, Alone
      <3>2. ~Alive(p) /\ agent'[p].seen
        BY <1>1, <1>3, <1>4 DEF Alive
      <3> QED BY <2>1, <3>1, <3>2 DEF Alone
    <2>3. CASE agent[p].child # "started"
      BY <1>4, <1>5, <1>6, <2>1, <2>3 DEF IndInv, Alone, Running
    <2> QED BY <2>2, <2>3
  <1> QED BY <1>7, <1>8, <1>9, <1>11, <1>12 DEF IndInv

(* A process is born: it gets the next number, and the session when the    *)
(* desktop starts it.                                                      *)
LEMMA BornOK ==
    ASSUME IndInv, NEW base, Aged(base), spawned < MaxProcs, NEW b \in Agents,
           b.gen <= spawned + 1, b.home <= session,
           agent' = [base EXCEPT ![spawned + 1] = b],
           spawned' = spawned + 1, session' = session
    PROVE  /\ spawned + 1 \in Procs /\ agent[spawned + 1] = Unborn
           /\ agent' \in [Procs -> Agents] /\ spawned' \in 0..MaxProcs
           /\ agent'[spawned + 1] = b /\ \A p \in Procs : p # spawned + 1 => agent'[p] = base[p]
           /\ Numbered'
  <1>1. spawned + 1 \in Procs /\ spawned' \in 0..MaxProcs /\ spawned \in Nat
    BY SupervisorConstants DEF IndInv, TypeOK, Procs
  <1>2. agent[spawned + 1] = Unborn
    BY <1>1 DEF IndInv, Numbered
  <1>3. agent' \in [Procs -> Agents] /\ agent'[spawned + 1] = b
        /\ \A p \in Procs : p # spawned + 1 => agent'[p] = base[p]
    BY <1>1 DEF Aged
  <1>4. Numbered'
    <2> SUFFICES ASSUME NEW p \in Procs
                 PROVE  /\ p > spawned + 1 => agent'[p] = Unborn
                        /\ agent'[p].gen <= p /\ agent'[p].home <= session
      BY DEF Numbered
    <2>1. CASE p = spawned + 1
      BY <1>1, <1>3, <2>1
    <2>2. CASE p # spawned + 1
      <3>1. p \in Nat
        BY ProcsAreNat
      <3>2. p > spawned + 1 => agent[p] = Unborn
        BY <1>1, <3>1 DEF IndInv, Numbered
      <3> QED BY <1>3, <2>2, <3>2 DEF IndInv, Numbered, Aged, Unborn
    <2> QED BY <2>1, <2>2
  <1> QED BY <1>1, <1>2, <1>3, <1>4

(* An agent starts its own replacement, one generation on.                 *)
LEMMA SelfRestartOK == ASSUME IndInv, NEW p \in Procs, SelfRestart(p) PROVE IndInv'
  <1> USE DEF refs
  <1> DEFINE base == Becomes(p, "leaving")
             b == Born(NextGeneration(p), agent[p].port, agent[p].home, "no", p)
  <1>1. /\ agent[p].life = "serving" /\ spawned < MaxProcs /\ spawned' = spawned + 1
        /\ replaced' = TRUE
        /\ UNCHANGED <<crashes, session, pc, quit, refs, left>>
    BY DEF SelfRestart
  <1>2. p <= spawned /\ p \in Nat /\ spawned \in Nat /\ agent[p] \in Agents
    BY <1>1, ProcsAreNat, SupervisorConstants DEF IndInv, TypeOK, Numbered, Unborn
  <1>3. Aged(base)
    BY <1>1, BecomesAged DEF IndInv, Alive, Lives
  <1>4. b \in Agents /\ b.gen <= spawned + 1 /\ b.home = agent[p].home
    <2>1. agent[p].gen \in Nat /\ agent[p].gen <= p
      BY <1>2, SupervisorConstants DEF IndInv, Numbered, Agents
    <2>2. NextGeneration(p) \in 0..MaxProcs /\ NextGeneration(p) <= spawned + 1 /\ p \in 0..MaxProcs
      BY <1>1, <1>2, <2>1, ProcsAreNat, SupervisorConstants DEF NextGeneration
    <2> QED BY <1>2, <2>2 DEF Born, Agents
  <1>5. agent' = [base EXCEPT ![spawned + 1] = b]
    BY DEF SelfRestart, Becomes
  <1>6. b.home <= session
    BY <1>4 DEF IndInv, Numbered
  <1> HIDE DEF base, b
  <1>7. /\ spawned + 1 \in Procs /\ agent[spawned + 1] = Unborn
        /\ agent' \in [Procs -> Agents] /\ spawned' \in 0..MaxProcs
        /\ agent'[spawned + 1] = b /\ \A q \in Procs : q # spawned + 1 => agent'[q] = base[q]
        /\ Numbered'
    BY <1>1, <1>3, <1>4, <1>5, <1>6, BornOK
  <1>8. stateFile' \in Files
    BY NoFileOK DEF SelfRestart, IndInv, TypeOK, Files, Statuses
  <1>9. TypeOK'
    BY <1>1, <1>7, <1>8 DEF IndInv, TypeOK, Files
  <1>10. ExitedIsDead'
    BY <1>1, <1>3, <1>7 DEF IndInv, ExitedIsDead, Aged, Unborn
  <1>11. Stages'
    BY <1>1, <1>3, <1>4, <1>7 DEF IndInv, Stages, Own, Aged
  <1>12. Alone'
    BY <1>1 DEF Alone
  <1> QED BY <1>7, <1>9, <1>10, <1>11, <1>12 DEF IndInv

(* The desktop starts a child and registers it.                            *)
LEMMA SpawnOK ==
    ASSUME IndInv, NEW base, Aged(base), NEW port \in 0..MaxProcs,
           NEW child \in {"started", "respawned"}, Spawn(1, port, child, base), session' = session
    PROVE  /\ agent' \in [Procs -> Agents] /\ spawned' \in 0..MaxProcs
           /\ agentProcess' \in Procs
           /\ registry' \in [pid : {NoProc} \cup Procs, exited : BOOLEAN]
           /\ Numbered' /\ ExitedIsDead'
           /\ registry'.pid \in Procs /\ agent'[registry'.pid].child = child
           /\ \A p \in Procs : p # registry'.pid => agent'[p] = base[p]
  <1> DEFINE b == Born(1, port, session, child, 0)
  <1>1. /\ spawned < MaxProcs /\ spawned' = spawned + 1
        /\ agent' = [base EXCEPT ![spawned + 1] = b]
        /\ agentProcess' = spawned + 1 /\ registry' = [pid |-> spawned + 1, exited |-> FALSE]
    BY DEF Spawn
  <1>2. session \in 0..MaxSessions /\ session \in Nat /\ spawned \in Nat
    BY SupervisorConstants DEF IndInv, TypeOK
  <1>3. 1 \in 0..MaxProcs
    BY SupervisorConstants
  <1>4. b \in Agents /\ b.gen <= spawned + 1 /\ b.home <= session /\ b.child = child
    BY <1>2, <1>3, ProcsAreNat DEF Born, Agents
  <1> HIDE DEF b
  <1> QED BY <1>1, <1>4, BornOK DEF ExitedIsDead

(* The three starts: at launch, when nothing belongs to the session; after *)
(* a switch, which is outside Alone; and by the timer, when all that       *)
(* belongs to the session is dead.                                         *)
LEMMA StartsOK == ASSUME IndInv, StartAgent \/ Restart \/ Respawn PROVE IndInv'
  <1>1. \A ps : Aged(Dead(ps))
    BY DeadAged DEF IndInv
  <1>2. respawn \in 0..MaxProcs /\ session' = session
    BY DEF IndInv, TypeOK, StartAgent, Restart, Respawn
  <1>3. CASE StartAgent
    <2>1. PICK base \in {agent, Dead({stateFile.pid})} : Spawn(1, 0, "started", base)
      BY <1>3 DEF StartAgent
    <2>2. Aged(base)
      BY <1>1, SameAged DEF IndInv
    <2>3. /\ UNCHANGED <<crashes, session, quit, agentPort, agentStartedByUs, agentRespawning,
                          respawn, replaced, left>>
          /\ stateFile' = NoFile /\ pc = "launching" /\ pc' = "awaitPort"
      BY <1>3 DEF StartAgent
    <2>4. /\ agent' \in [Procs -> Agents] /\ spawned' \in 0..MaxProcs
          /\ agentProcess' \in Procs
          /\ registry' \in [pid : {NoProc} \cup Procs, exited : BOOLEAN]
          /\ Numbered' /\ ExitedIsDead'
          /\ \A p \in Procs : p # registry'.pid => agent'[p] = base[p]
      BY <1>2, <2>1, <2>2, ProcsAreNat, SpawnOK
    <2>5. TypeOK' /\ Stages'
      BY <2>3, <2>4, NoFileOK DEF IndInv, TypeOK, Files, Stages
    <2>6. Alone'
      <3>1. \A p \in Procs : p # registry'.pid => ~Own(p)'
        BY <2>2, <2>3, <2>4 DEF IndInv, Stages, Own, Aged
      <3>2. respawn' = 0
        BY <2>3 DEF IndInv, Stages
      <3> QED BY <3>1, <3>2 DEF Alone
    <2> QED BY <2>4, <2>5, <2>6 DEF IndInv
  <1>4. CASE Restart
    <2>1. /\ UNCHANGED <<crashes, session, quit, agentPort, agentStartedByUs, agentRespawning,
                          respawn, replaced, left>>
          /\ stateFile' = NoFile /\ pc = "stopping" /\ pc' = "awaitPort"
          /\ Spawn(1, 0, "started", agent)
      BY <1>4 DEF Restart
    <2>2. /\ agent' \in [Procs -> Agents] /\ spawned' \in 0..MaxProcs
          /\ agentProcess' \in Procs
          /\ registry' \in [pid : {NoProc} \cup Procs, exited : BOOLEAN]
          /\ Numbered' /\ ExitedIsDead'
      BY <1>2, <2>1, SameAged, ProcsAreNat, SpawnOK DEF IndInv
    <2>3. TypeOK' /\ Stages'
      BY <2>1, <2>2, NoFileOK DEF IndInv, TypeOK, Files, Stages
    <2>4. Alone'
      BY <2>1 DEF IndInv, Stages, Alone
    <2> QED BY <2>2, <2>3, <2>4 DEF IndInv
  <1>5. CASE Respawn
    <2>1. /\ UNCHANGED <<stateFile, crashes, session, pc, quit, agentPort, agentStartedByUs,
                          agentRespawning, replaced, left>>
          /\ Running /\ respawn # 0 /\ respawn' = 0
          /\ Spawn(1, respawn, "respawned", agent)
      BY <1>5 DEF Respawn
    <2>2. /\ agent' \in [Procs -> Agents] /\ spawned' \in 0..MaxProcs
          /\ agentProcess' \in Procs
          /\ registry' \in [pid : {NoProc} \cup Procs, exited : BOOLEAN]
          /\ Numbered' /\ ExitedIsDead'
          /\ registry'.pid \in Procs /\ agent'[registry'.pid].child = "respawned"
          /\ \A p \in Procs : p # registry'.pid => agent'[p] = agent[p]
      BY <1>2, <2>1, SameAged, SpawnOK DEF IndInv
    <2>3. pc # "launching" /\ pc # "off"
      BY <2>1 DEF IndInv, Stages
    <2>4. TypeOK' /\ Stages'
      BY <2>1, <2>2, <2>3, ProcsAreNat DEF IndInv, TypeOK, Files, Stages
    <2>5. Alone'
      <3> SUFFICES ASSUME ~replaced PROVE Alone'
        BY <2>1 DEF Alone
      <3>1. \A p \in Procs : Own(p) => ~Alive(p) /\ (agent[p].child = "started" => agent[p].seen)
        BY <2>1 DEF IndInv, Alone
      <3>2. \A p \in Procs : p # registry'.pid =>
               (Own(p)' <=> Own(p)) /\ (Alive(p)' <=> Alive(p))
        BY <2>1, <2>2 DEF Own, Alive
      <3> QED BY <2>1, <2>2, <3>1, <3>2 DEF Alone
    <2> QED BY <2>2, <2>4, <2>5 DEF IndInv
  <1> QED BY <1>3, <1>4, <1>5

(* Every step keeps the invariant.                                         *)
LEMMA NextOK == IndInv /\ [Next]_vars => IndInv'
  <1> SUFFICES ASSUME IndInv, [Next]_vars PROVE IndInv'
    OBVIOUS
  <1>1. CASE UNCHANGED vars
    BY <1>1 DEF vars, IndInv, TypeOK, Numbered, ExitedIsDead, Stages, Own, Alone, Running, Alive
  <1>2. CASE Next
    BY <1>2, AgentStepOK, SelfRestartOK, ExitEventOK, LaunchOK, DesktopOK, StartsOK, CloseOK
       DEF Next
  <1> QED BY <1>1, <1>2

(* The invariant holds in every reachable state.                           *)
LEMMA Invariance == Spec => []IndInv
  BY InitOK, NextOK, PTL DEF Spec

(* TypeOK: the agents, their state file and the references of the desktop  *)
(* keep their types; generations stay within the number of processes.      *)
THEOREM TypeCorrect == Spec => []TypeOK
  BY Invariance, PTL DEF IndInv

(* The process manager never has a living agent down as exited (the        *)
(* generation check in register's exit handler).                           *)
THEOREM NoneWrittenOff == Spec => []RegistryIsRight
  <1>1. IndInv => RegistryIsRight
    BY DEF IndInv, ExitedIsDead, RegistryIsRight, Alive
  <1> QED BY <1>1, Invariance, PTL

(* Where the final sweep reaches the agent, a session that quits leaves    *)
(* none it started behind, unless an agent was replaced (stopOwned,        *)
(* forceKillOwnedSync).                                                    *)
THEOREM QuitLeavesNothing ==
    ASSUME TreeKill = TRUE PROVE Spec => []QuitsClean
  <1>1. Init => QuitsClean
    BY DEF Init, QuitsClean
  <1>2. IndInv /\ QuitsClean /\ [Next]_vars => QuitsClean'
    <2> SUFFICES ASSUME IndInv, QuitsClean, [Next]_vars, ~replaced' PROVE left' = {}
      BY DEF QuitsClean
    <2>1. CASE Exit /\ pc # "off"
      <3>1. ~replaced /\ left = {}
        BY <2>1 DEF Exit, QuitsClean
      <3>2. \A p \in Procs : Own(p) /\ Alive(p) => p \in Target
        BY <2>1, <3>1, ProcsAreNat
           DEF IndInv, Alone, Running, ExitedIsDead, Alive, Target, NoProc
      <3>3. \A p \in Procs : agent'[p].home = session => agent'[p].life \in {"none", "dead"}
        <4>1. agent' = Dead(Tree(Target)) /\ Target \subseteq Tree(Target)
          BY <2>1 DEF Exit, Tree
        <4>2. Aged(Dead(Tree(Target)))
          BY DeadAged DEF IndInv
        <4>3. ASSUME NEW p \in Procs, Own(p), Alive(p) PROVE agent'[p].life = "dead"
          <5>1. agent'[p] = [agent[p] EXCEPT !.life = "dead"] /\ agent[p] \in Agents
            BY <3>2, <4>1, <4>3 DEF Dead, IndInv, TypeOK
          <5> QED BY <5>1 DEF Agents
        <4> QED BY <4>1, <4>2, <4>3 DEF Aged, Own, Alive
      <3>4. Ours(agent') = {}
        BY <3>3 DEF Ours
      <3> QED BY <2>1, <3>1, <3>4 DEF Exit
    <2>2. CASE ~(Exit /\ pc # "off")
      <3>1. left' = left /\ (replaced => replaced')
        BY <2>2 DEF IndInv, Stages, Next, vars, AgentStep, Boot, Bind, BindFails, Leave, SelfRestart,
           CrashAgent, ExitEvent, Launch, Reuse, StartAgent, PortFound, NoPort, Ready, NotReady,
           FailLaunch, Respawn, RespawnSettles, Switch, Restart, Quit, QuitAgent, Quitted,
           QuitTimeout, DesktopDies
      <3> QED BY <3>1 DEF QuitsClean
    <2> QED BY <2>1, <2>2
  <1> QED BY <1>1, <1>2, Invariance, PTL DEF Spec

-----------------------------------------------------------------------------
(* One port.                                                               *)
(*                                                                         *)
(* Where no agent was replaced, every agent is of the first generation,    *)
(* and so none is refused the state file: it names the port of the agent   *)
(* that wrote it.                                                          *)
FirstGeneration ==
    ~replaced =>
        /\ \A p \in Procs : agent[p].life # "none" => agent[p].gen = 1 /\ agent[p].home # 0
        /\ \A p \in Procs : agent[p].life = "serving" => agent[p].port # 0
        /\ \A p \in Procs : agent[p].life # "leaving"
        /\ stateFile.gen <= 1
        /\ stateFile.pid = 0 => stateFile.port = 0
        /\ \A p \in Procs : stateFile.pid = p =>
              agent[p].life # "none" /\ stateFile.port = agent[p].port

(* A session that awaits the port of its agent has started no other.       *)
Starting ==
    /\ pc # "off" => session # 0
    /\ pc \in {"off", "launching"} => ~agentStartedByUs
    /\ ~agentStartedByUs => respawn = 0
    /\ ~replaced /\ pc = "awaitPort" =>
          ~agentStartedByUs /\ \A p \in Procs : Own(p) => p = registry.pid

(* From then on the registered agent has, or will bind, the port the front *)
(* end was given, and a respawn is armed with no other.                    *)
GivenPort ==
    Undisturbed /\ pc \in {"checking", "idle"} =>
        /\ agentPort # 0 /\ respawn \in {0, agentPort}
        /\ registry.pid \in Procs /\ agent[registry.pid].port = agentPort

PortInv == IndInv /\ FirstGeneration /\ Starting /\ GivenPort

(* What a step makes of an agent that neither is born nor binds its port.  *)
Settled(p) ==
    /\ agent'[p].gen = agent[p].gen /\ agent'[p].home = agent[p].home
    /\ agent'[p].port = agent[p].port
    /\ \/ agent'[p].life = agent[p].life
       \/ agent[p].life # "none" /\ agent'[p].life \notin {"none", "serving", "leaving"}

(* The desktop starts agent n, on the given port or on any.                *)
Starts(n, port) ==
    /\ agent[n] = Unborn
    /\ agent'[n].life = "booting" /\ agent'[n].gen = 1
    /\ agent'[n].home = session /\ agent'[n].port = port
    /\ registry'.pid = n
    /\ \A p \in Procs : p # n => Settled(p)

(* Killing and letting be settle everything.                               *)
LEMMA DeadSettles ==
  ASSUME TypeOK, NEW ps, NEW base \in {agent, Dead(ps)}, NEW p \in Procs
  PROVE  /\ base[p].gen = agent[p].gen /\ base[p].home = agent[p].home
         /\ base[p].port = agent[p].port
         /\ \/ base[p].life = agent[p].life
            \/ agent[p].life # "none" /\ base[p].life \notin {"none", "serving", "leaving"}
  <1> DEFINE a == [agent[p] EXCEPT !.life = "dead"]
  <1>1. /\ a.gen = agent[p].gen /\ a.home = agent[p].home /\ a.port = agent[p].port
        /\ a.life = "dead"
    BY DEF TypeOK, Agents
  <1>2. base[p] = agent[p] \/ (base[p] = a /\ Alive(p))
    BY DEF Dead
  <1> QED BY <1>1, <1>2 DEF Alive

(* The steps that leave every agent and the state file settled.            *)
LEMMA QuietSettles ==
  ASSUME IndInv,
         \/ \E p \in Procs : CrashAgent(p) \/ ExitEvent(p)
         \/ Launch \/ Reuse \/ PortFound \/ NoPort \/ Ready \/ NotReady \/ FailLaunch
         \/ RespawnSettles \/ Switch \/ Quit \/ QuitAgent \/ Quitted \/ QuitTimeout \/ DesktopDies
         \/ UNCHANGED vars
  PROVE  (\A q \in Procs : Settled(q)) /\ stateFile' = stateFile
  <1> USE DEF files, refs
  <1>1. TypeOK
    BY DEF IndInv
  <1>2. ASSUME NEW p \in Procs, CrashAgent(p) PROVE (\A q \in Procs : Settled(q)) /\ stateFile' = stateFile
    BY <1>1, <1>2 DEF CrashAgent, Becomes, Alive, Settled, TypeOK, Agents
  <1>3. ASSUME NEW p \in Procs, ExitEvent(p) PROVE (\A q \in Procs : Settled(q)) /\ stateFile' = stateFile
    BY <1>1, <1>3 DEF ExitEvent, Settled, TypeOK, Agents
  <1>4. CASE \/ Launch \/ Reuse \/ PortFound \/ NoPort \/ Ready \/ NotReady \/ FailLaunch
             \/ RespawnSettles \/ Switch \/ Quit \/ QuitAgent \/ Quitted \/ QuitTimeout \/ DesktopDies
             \/ UNCHANGED vars
    <2>1. stateFile' = stateFile /\ \E ps : agent' \in {agent, Dead(ps)}
      BY <1>4 DEF Launch, Reuse, PortFound, NoPort, Ready, NotReady, FailLaunch, RespawnSettles,
         Switch, Quit, QuitAgent, Quitted, QuitTimeout, Exit, DesktopDies, vars
    <2> QED BY <1>1, <2>1, DeadSettles DEF Settled
  <1> QED BY <1>2, <1>3, <1>4

(* An agent that boots or cannot bind.                                     *)
LEMMA BootSettles ==
  ASSUME IndInv, NEW p \in Procs, Boot(p) \/ BindFails(p)
  PROVE  /\ \A q \in Procs : Settled(q)
         /\ agent[p].life # "none" /\ agent'[p].life # "none"
         /\ \E status \in Statuses : WriteState(p, agent[p].port, status)
  <1>1. TypeOK
    BY DEF IndInv
  <1>2. PICK life \in {"binding", "dead"} : agent' = Becomes(p, life)
    BY DEF Boot, BindFails
  <1>3. agent[p].life # "none"
    BY DEF Boot, BindFails
  <1>4. (\A q \in Procs : Settled(q)) /\ agent'[p].life # "none"
    BY <1>1, <1>2, <1>3 DEF Becomes, Settled, TypeOK, Agents
  <1>5. \E status \in Statuses : WriteState(p, agent[p].port, status)
    BY DEF Boot, BindFails, Statuses
  <1> QED BY <1>3, <1>4, <1>5

(* The three ways the desktop starts an agent.                             *)
LEMMA StartShape ==
  ASSUME IndInv, StartAgent \/ Restart \/ Respawn
  PROVE  /\ \E n \in Procs : /\ Starts(n, IF Respawn THEN respawn ELSE 0)
         /\ stateFile' \in {stateFile, NoFile}
  <1>1. TypeOK /\ session \in 0..MaxSessions
    BY DEF IndInv, TypeOK
  <1>2. ASSUME NEW ps, NEW base \in {agent, Dead(ps)}, NEW port, NEW child,
               Spawn(1, port, child, base)
        PROVE  \E n \in Procs : Starts(n, port)
    <2> DEFINE n == spawned + 1
               b == Born(1, port, session, child, 0)
    <2>1. n \in Procs /\ agent[n] = Unborn
      <3>1. spawned \in Nat /\ n \in Procs /\ n > spawned
        BY <1>1, <1>2, SupervisorConstants DEF Spawn, TypeOK, Procs
      <3> QED BY <3>1 DEF IndInv, Numbered
    <2>2. agent' = [base EXCEPT ![n] = b] /\ registry'.pid = n
      BY <1>2 DEF Spawn
    <2>3. b.life = "booting" /\ b.gen = 1 /\ b.home = session /\ b.port = port
      BY DEF Born
    <2>4. base \in [Procs -> Agents]
      BY <1>1, SameAged, DeadAged DEF Aged
    <2> HIDE DEF n, b
    <2>5. agent'[n] = b /\ \A p \in Procs : p # n => agent'[p] = base[p]
      BY <2>1, <2>2, <2>4
    <2>6. \A p \in Procs : p # n => Settled(p)
      BY <1>1, <2>5, DeadSettles DEF Settled
    <2> QED BY <2>1, <2>2, <2>3, <2>5, <2>6 DEF Starts
  <1>3. CASE Respawn
    <2>1. Spawn(1, respawn, "respawned", agent) /\ stateFile' = stateFile
      BY <1>3 DEF Respawn
    <2> QED BY <1>2, <1>3, <2>1
  <1>4. CASE ~Respawn
    <2>1. \E base \in {agent, Dead({stateFile.pid})} : Spawn(1, 0, "started", base)
      BY <1>4 DEF StartAgent, Restart
    <2>2. stateFile' = NoFile
      BY <1>4 DEF StartAgent, Restart
    <2> QED BY <1>2, <1>4, <2>1, <2>2
  <1> QED BY <1>3, <1>4

(* What was replaced stays replaced.                                       *)
LEMMA ReplacedStays ==
  ASSUME [Next]_vars, ~replaced'
  PROVE  ~replaced
  BY DEF Next, vars, refs, files, AgentStep, Boot, Bind, BindFails, Leave, SelfRestart,
     CrashAgent, ExitEvent, Launch, Reuse, StartAgent, PortFound, NoPort, Ready, NotReady,
     FailLaunch, Respawn, RespawnSettles, Switch, Restart, Quit, QuitAgent, Quitted,
     QuitTimeout, Exit, DesktopDies

(* Every step keeps the state file right while no agent is replaced.       *)
LEMMA GenerationStep ==
  ASSUME IndInv, FirstGeneration, Starting, [Next]_vars
  PROVE  FirstGeneration'
  <1> SUFFICES ASSUME ~replaced' PROVE FirstGeneration'
    BY DEF FirstGeneration
  <1>1. IndInv /\ TypeOK /\ stateFile.pid \in 0..MaxProcs
    BY DEF IndInv, TypeOK
  <1>2. ~replaced
    BY ReplacedStays
  <1>3. /\ \A p \in Procs : agent[p].life # "none" => agent[p].gen = 1 /\ agent[p].home # 0
        /\ \A p \in Procs : agent[p].life = "serving" => agent[p].port # 0
        /\ \A p \in Procs : agent[p].life # "leaving"
        /\ stateFile.gen <= 1
        /\ stateFile.pid = 0 => stateFile.port = 0
        /\ \A p \in Procs : stateFile.pid = p =>
              agent[p].life # "none" /\ stateFile.port = agent[p].port
    BY <1>2 DEF FirstGeneration
  <1>4. ASSUME \A p \in Procs : Settled(p), stateFile' \in {stateFile, NoFile} PROVE FirstGeneration'
    <2>1. \A p \in Procs : agent'[p].life # "none" => agent[p].life # "none"
      BY <1>4 DEF Settled
    <2> QED BY <1>3, <1>4, <2>1, ProcsAreNat DEF FirstGeneration, Settled, NoFile
  <1>5. ASSUME NEW p \in Procs, Boot(p) \/ BindFails(p) PROVE FirstGeneration'
    <2>1. PICK status \in Statuses : WriteState(p, agent[p].port, status)
      BY <1>1, <1>5, BootSettles
    <2>2. CASE stateFile' = stateFile
      BY <1>1, <1>4, <1>5, <2>2, BootSettles
    <2>3. CASE stateFile' = [pid |-> p, gen |-> agent[p].gen, port |-> agent[p].port, status |-> status]
      <3>1. stateFile'.pid = p /\ stateFile'.gen = agent[p].gen /\ stateFile'.port = agent[p].port
        BY <2>3
      <3>2. agent[p].life # "none" /\ agent'[p].life # "none" /\ \A q \in Procs : Settled(q)
        BY <1>1, <1>5, BootSettles
      <3> QED BY <1>3, <3>1, <3>2, ProcsAreNat DEF FirstGeneration, Settled
    <2> QED BY <2>1, <2>2, <2>3 DEF WriteState
  <1>6. ASSUME NEW p \in Procs, Bind(p) PROVE FirstGeneration'
    <2> DEFINE port == IF agent[p].port = 0 THEN p ELSE agent[p].port
               a == [agent[p] EXCEPT !.life = "serving", !.port = port]
    <2>1. agent' = [agent EXCEPT ![p] = a] /\ WriteState(p, port, "ready") /\ agent[p].life = "binding"
      BY <1>6 DEF Bind
    <2>2. port # 0
      BY ProcsAreNat
    <2> HIDE DEF port
    <2>3. agent[p] \in Agents
      BY <1>1 DEF TypeOK
    <2>4. /\ a.life = "serving" /\ a.port = port /\ a.gen = agent[p].gen /\ a.home = agent[p].home
      BY <2>3 DEF Agents
    <2> HIDE DEF a
    <2>5. agent'[p] = a /\ \A q \in Procs : q # p => agent'[q] = agent[q]
      BY <1>1, <2>1 DEF TypeOK
    <2>6. /\ stateFile'.pid = p /\ stateFile'.gen = agent[p].gen /\ stateFile'.port = port
      <3>1. agent[p].gen = 1 /\ stateFile.gen \in Nat
        BY <1>1, <1>3, <2>1, SupervisorConstants DEF TypeOK
      <3>2. ~Refused([pid |-> p, gen |-> agent[p].gen, port |-> port, status |-> "ready"])
        BY <1>3, <3>1 DEF Refused
      <3> QED BY <2>1, <3>2 DEF WriteState
    <2> QED BY <1>3, <2>1, <2>2, <2>4, <2>5, <2>6, ProcsAreNat DEF FirstGeneration
  <1>7. CASE StartAgent \/ Restart \/ Respawn
    <2>0. PICK n \in Procs : \E port : Starts(n, port)
      BY <1>1, <1>7, StartShape
    <2>1. PICK port : Starts(n, port)
      BY <2>0
    <2>2. stateFile' \in {stateFile, NoFile}
      BY <1>1, <1>7, StartShape
    <2>3. session # 0
      BY <1>7 DEF Starting, StartAgent, Restart, Respawn, Running
    <2>4. /\ agent[n].life = "none" /\ agent'[n].life = "booting" /\ agent'[n].gen = 1
          /\ agent'[n].home # 0 /\ \A p \in Procs : p # n => Settled(p)
      BY <2>1, <2>3 DEF Starts, Unborn
    <2>5. \A p \in Procs : agent'[p].life # "none" => p = n \/ agent[p].life # "none"
      BY <2>4 DEF Settled
    <2> QED BY <1>3, <2>2, <2>4, <2>5, ProcsAreNat DEF FirstGeneration, Settled, NoFile
  <1>8. ASSUME NEW p \in Procs, Leave(p) PROVE FALSE
    BY <1>3, <1>8 DEF Leave
  <1>9. ASSUME NEW p \in Procs, SelfRestart(p) PROVE FALSE
    BY <1>9 DEF SelfRestart
  <1> QED BY <1>1, <1>4, <1>5, <1>6, <1>7, <1>8, <1>9, QuietSettles DEF Next, AgentStep

(* Every step keeps a session that is still starting to one agent.         *)
LEMMA StartingStep ==
  ASSUME IndInv, Starting, [Next]_vars
  PROVE  Starting'
  <1> USE DEF files, refs
  <1>1. TypeOK /\ Stages /\ session \in Nat
    BY SupervisorConstants DEF IndInv, TypeOK
  <1>2. ASSUME \/ \E p \in Procs : AgentStep(p) \/ SelfRestart(p) \/ CrashAgent(p)
               \/ PortFound \/ NoPort \/ Ready \/ FailLaunch \/ NotReady
               \/ RespawnSettles \/ Switch \/ Quit \/ QuitAgent \/ UNCHANGED vars
        PROVE  Starting'
    <2>1. /\ UNCHANGED <<session, respawn, registry>> /\ (replaced => replaced')
          /\ pc' = pc \/ (pc # "off" /\ pc' \notin {"off", "launching", "awaitPort"})
          /\ \/ agentStartedByUs' = agentStartedByUs
             \/ agentStartedByUs' = TRUE /\ pc' \notin {"off", "launching", "awaitPort"}
      <3>1. CASE \E p \in Procs : AgentStep(p) \/ SelfRestart(p) \/ CrashAgent(p)
        BY <3>1 DEF AgentStep, Boot, Bind, BindFails, Leave, SelfRestart, CrashAgent
      <3>2. CASE PortFound
        BY <3>2 DEF PortFound
      <3>3. CASE NoPort \/ Ready \/ FailLaunch \/ NotReady \/ RespawnSettles
        BY <3>3 DEF NoPort, Ready, FailLaunch, NotReady, RespawnSettles
      <3>4. CASE Switch \/ Quit \/ QuitAgent \/ UNCHANGED vars
        BY <3>4 DEF Switch, Quit, QuitAgent, vars
      <3> QED BY <1>2, <3>1, <3>2, <3>3, <3>4
    <2>2. \A p \in Procs : ~replaced' => agent'[p].home = agent[p].home
      <3>1. ASSUME NEW p \in Procs, Bind(p) PROVE \A q \in Procs : agent'[q].home = agent[q].home
        <4> DEFINE port == IF agent[p].port = 0 THEN p ELSE agent[p].port
        <4>1. agent' = [agent EXCEPT ![p] = [agent[p] EXCEPT !.life = "serving", !.port = port]]
          BY <3>1 DEF Bind
        <4> HIDE DEF port
        <4> QED BY <1>1, <4>1 DEF TypeOK, Agents
      <3>2. ASSUME NEW p \in Procs, Leave(p) PROVE \A q \in Procs : agent'[q].home = agent[q].home
        BY <1>1, <3>2 DEF Leave, Becomes, TypeOK, Agents
      <3>3. ASSUME NEW p \in Procs, SelfRestart(p) PROVE replaced'
        BY <3>3 DEF SelfRestart
      <3> QED BY <1>2, <3>1, <3>2, <3>3, BootSettles, QuietSettles DEF AgentStep, Settled
    <2> QED BY <2>1, <2>2 DEF Starting, Own
  <1>3. ASSUME NEW p \in Procs, ExitEvent(p) PROVE Starting'
    <2>1. \A q \in Procs : Settled(q)
      BY <1>3, QuietSettles
    <2>2. /\ UNCHANGED <<session, pc, agentStartedByUs, replaced>>
          /\ registry'.pid = registry.pid
          /\ ~agentStartedByUs => respawn' = respawn
      BY <1>1, <1>3 DEF ExitEvent, RegistryAfter, Respawns, TypeOK
    <2> QED BY <2>1, <2>2 DEF Starting, Own, Settled
  <1>4. CASE Launch
    BY <1>1, <1>4 DEF Launch, Starting
  <1>5. CASE Reuse
    BY <1>1, <1>5 DEF Reuse, Starting, Stages
  <1>6. CASE Quitted \/ QuitTimeout \/ DesktopDies
    BY <1>6 DEF Quitted, QuitTimeout, DesktopDies, Exit, NoRefs, Starting
  <1>7. CASE StartAgent
    <2>0. PICK n \in Procs : \E port : Starts(n, port)
      BY <1>7, StartShape
    <2>1. PICK port : Starts(n, port)
      BY <2>0
    <2>2. UNCHANGED <<session, agentStartedByUs, respawn, replaced>> /\ pc = "launching" /\ pc' = "awaitPort"
      BY <1>7 DEF StartAgent
    <2>3. \A p \in Procs : Own(p)' => p = registry'.pid
      BY <1>1, <2>1, <2>2 DEF Stages, Own, Starts, Settled
    <2> QED BY <2>2, <2>3 DEF Starting
  <1>8. CASE Restart
    <2>1. UNCHANGED <<session, agentStartedByUs, respawn, replaced>> /\ replaced /\ pc = "stopping" /\ pc' = "awaitPort"
      BY <1>1, <1>8 DEF Restart, Stages
    <2> QED BY <2>1 DEF Starting
  <1>9. CASE Respawn
    <2>1. UNCHANGED <<session, pc, agentStartedByUs, replaced>> /\ respawn' = 0 /\ agentStartedByUs
      BY <1>9 DEF Respawn, Starting
    <2> QED BY <2>1 DEF Starting
  <1> QED BY <1>2, <1>3, <1>4, <1>5, <1>6, <1>7, <1>8, <1>9 DEF Next

(* A port once bound or asked for, and a session, are an agent's for good. *)
LEMMA PortsKept ==
  ASSUME IndInv, [Next]_vars, ~replaced', NEW p \in Procs
  PROVE  /\ agent[p].port # 0 => agent'[p].port = agent[p].port
         /\ agent[p].home \in {0, agent'[p].home}
  <1>1. TypeOK
    BY DEF IndInv
  <1>2. CASE Settled(p)
    BY <1>2 DEF Settled
  <1>3. ASSUME NEW q \in Procs, Bind(q) PROVE agent[p].port # 0 => agent'[p].port = agent[p].port
    BY <1>1, <1>3 DEF Bind, TypeOK, Agents
  <1>4. ASSUME NEW q \in Procs, Bind(q) PROVE agent'[p].home = agent[p].home
    <2> DEFINE port == IF agent[q].port = 0 THEN q ELSE agent[q].port
    <2>1. agent' = [agent EXCEPT ![q] = [agent[q] EXCEPT !.life = "serving", !.port = port]]
      BY <1>4 DEF Bind
    <2> HIDE DEF port
    <2> QED BY <1>1, <2>1 DEF TypeOK, Agents
  <1>5. ASSUME NEW q \in Procs, Leave(q) PROVE agent'[p].port = agent[p].port /\ agent'[p].home = agent[p].home
    BY <1>1, <1>5 DEF Leave, Becomes, TypeOK, Agents
  <1>6. CASE StartAgent \/ Restart \/ Respawn
    <2>0. PICK n \in Procs : \E port : Starts(n, port)
      BY <1>6, StartShape
    <2>1. PICK port : Starts(n, port)
      BY <2>0
    <2> QED BY <1>2, <2>1 DEF Starts, Unborn
  <1>7. \A q \in Procs : ~SelfRestart(q)
    BY DEF SelfRestart
  <1> QED BY <1>2, <1>3, <1>4, <1>5, <1>6, <1>7, QuietSettles, BootSettles DEF Next, AgentStep

(* Every step keeps the registered agent on the port that was given out.   *)
LEMMA GivenPortStep ==
  ASSUME PortInv, [Next]_vars
  PROVE  GivenPort'
  <1> USE DEF files, refs
  <1> SUFFICES ASSUME Undisturbed', pc' \in {"checking", "idle"}
               PROVE  /\ agentPort' # 0 /\ respawn' \in {0, agentPort'}
                      /\ registry'.pid \in Procs /\ agent'[registry'.pid].port = agentPort'
    BY DEF GivenPort
  <1>1. TypeOK /\ Stages /\ IndInv /\ FirstGeneration /\ Starting /\ GivenPort
    BY DEF PortInv, IndInv
  <1>0. ~replaced'
    BY DEF Undisturbed
  <1>2. ~replaced /\ ~replaced'
    BY <1>0, ReplacedStays
  <1>3. \A p \in Procs : /\ agent[p].port # 0 => agent'[p].port = agent[p].port
                         /\ agent[p].home \in {0, agent'[p].home}
    BY <1>1, <1>2, PortsKept
  <1>4. ASSUME agentStartedByUs' = agentStartedByUs, session' = session, pc \in {"checking", "idle"}
        PROVE  /\ agentPort # 0 /\ respawn \in {0, agentPort}
               /\ registry.pid \in Procs /\ agent[registry.pid].port = agentPort
    <2>1. Undisturbed
      BY <1>2, <1>3, <1>4 DEF Undisturbed
    <2> QED BY <1>1, <1>4, <2>1 DEF GivenPort
  <1>5. ASSUME UNCHANGED <<session, agentStartedByUs, agentPort, respawn>>, registry'.pid = registry.pid,
               pc \in {"checking", "idle"}
        PROVE  /\ agentPort' # 0 /\ respawn' \in {0, agentPort'}
               /\ registry'.pid \in Procs /\ agent'[registry'.pid].port = agentPort'
    BY <1>3, <1>4, <1>5
  <1>6. CASE Reuse
    <2>1. stateFile.pid \in Procs /\ Holders(stateFile.port) # {}
      BY <1>1, <1>6, SupervisorConstants DEF Reuse, TypeOK, NoProc, Procs
    <2>2. stateFile.port # 0 /\ agent[stateFile.pid].port = stateFile.port
      BY <1>1, <1>2, <2>1 DEF FirstGeneration, Holders
    <2>3. respawn = 0
      BY <1>1, <1>6 DEF Reuse, Stages
    <2> QED BY <1>6, <2>1, <2>2, <2>3 DEF Reuse
  <1>7. CASE PortFound
    <2>1. pc = "awaitPort" /\ stateFile.port # 0 /\ agentPort' = stateFile.port /\ agentStartedByUs'
          /\ UNCHANGED <<agent, session, respawn, registry>>
      BY <1>7 DEF PortFound
    <2>2. ~agentStartedByUs /\ respawn = 0 /\ \A p \in Procs : Own(p) => p = registry.pid
      BY <1>1, <1>2, <2>1 DEF Starting
    <2>3. stateFile.pid \in Procs
      BY <1>1, <1>2, <2>1, SupervisorConstants DEF FirstGeneration, TypeOK, Procs
    <2>4. /\ agent[stateFile.pid].life # "none" /\ stateFile.port = agent[stateFile.pid].port
          /\ agent[stateFile.pid].home # 0
      BY <1>1, <1>2, <2>3 DEF FirstGeneration
    <2>5. Own(stateFile.pid)
      BY <2>1, <2>3, <2>4 DEF Undisturbed, Own
    <2> QED BY <2>1, <2>2, <2>3, <2>4, <2>5
  <1>8. CASE NoPort
    BY <1>1, <1>2, <1>8 DEF NoPort, Starting
  <1>9. CASE Respawn
    <2>1. PICK n \in Procs : Starts(n, respawn)
      BY <1>1, <1>9, StartShape
    <2>2. UNCHANGED <<session, pc, agentStartedByUs, agentPort>> /\ respawn # 0 /\ respawn' = 0
      BY <1>9 DEF Respawn
    <2> QED BY <1>4, <2>1, <2>2 DEF Starts
  <1>10. ASSUME NEW p \in Procs, ExitEvent(p)
         PROVE  /\ agentPort' # 0 /\ respawn' \in {0, agentPort'}
                /\ registry'.pid \in Procs /\ agent'[registry'.pid].port = agentPort'
    <2>1. UNCHANGED <<session, pc, agentStartedByUs, agentPort>>
          /\ registry'.pid = registry.pid /\ respawn' \in {respawn, agentPort}
      BY <1>1, <1>10 DEF ExitEvent, RegistryAfter, TypeOK
    <2> QED BY <1>3, <1>4, <2>1
  <1>11. CASE StartAgent \/ Restart \/ Launch \/ Switch \/ FailLaunch \/ NotReady
              \/ Quitted \/ QuitTimeout \/ DesktopDies
    <2>1. CASE StartAgent \/ Restart \/ Launch \/ Switch \/ NotReady \/ Quitted \/ QuitTimeout \/ DesktopDies
      BY <2>1 DEF StartAgent, Restart, Launch, Switch, NotReady, Quitted, QuitTimeout, Exit, DesktopDies
    <2>2. CASE FailLaunch
      BY <2>2 DEF FailLaunch
    <2> QED BY <1>11, <2>1, <2>2
  <1>12. CASE Ready \/ RespawnSettles \/ Quit \/ QuitAgent \/ UNCHANGED vars
    BY <1>5, <1>12 DEF Ready, RespawnSettles, Quit, QuitAgent, vars
  <1>13. ASSUME NEW p \in Procs, AgentStep(p) \/ SelfRestart(p) \/ CrashAgent(p)
         PROVE  /\ agentPort' # 0 /\ respawn' \in {0, agentPort'}
                /\ registry'.pid \in Procs /\ agent'[registry'.pid].port = agentPort'
    BY <1>5, <1>13 DEF AgentStep, Boot, Bind, BindFails, Leave, SelfRestart, CrashAgent
  <1> QED BY <1>6, <1>7, <1>8, <1>9, <1>10, <1>11, <1>12, <1>13 DEF Next

(* OnePort: the port the front end was given is the port of the agent the  *)
(* process manager tracks, through reuse, respawn and every writer of the  *)
(* state file (main.ts, waitForAgentPort), in an undisturbed session.      *)
THEOREM OnePortGiven == Spec => []OnePort
  <1>1. Init => PortInv
    BY InitOK, ProcsAreNat DEF Init, PortInv, FirstGeneration, Starting, GivenPort, Unborn, NoFile
  <1>2. PortInv /\ [Next]_vars => PortInv'
    BY NextOK, GenerationStep, StartingStep, GivenPortStep DEF PortInv
  <1>3. PortInv => OnePort
    BY DEF PortInv, GivenPort, OnePort
  <1> QED BY <1>1, <1>2, <1>3, PTL DEF Spec
=============================================================================
