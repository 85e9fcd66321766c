------------------------------ MODULE AgentEvents ------------------------------
(***************************************************************************)
(* The front end's end of the event bus: the shared event stream of        *)
(* RuntimeConnectionService (src/packages/runtime-extension/src/browser/   *)
(* runtime-connection-service.ts).  The service owns at most one           *)
(* EventStream, replaces it when the workspace or the configuration        *)
(* changes, and hands every event to all subscribers; an EventStream owns  *)
(* one WebSocket after another, reconnects behind a timer, and asks for    *)
(* the events after the last sequence number it saw.                       *)
(*                                                                         *)
(* The agent is kept as far as a stream sees it: EventHub has its          *)
(* internals.  A publishing goroutine takes a number, stores the event and *)
(* sends it in three steps, so that events may be stored and sent out of   *)
(* the order of their numbers; a full channel drops.  The numbers are      *)
(* those of all workspaces together and start again at 1 after a restart.  *)
(* A new connection is replayed the events of its workspace, behind a      *)
(* snapshot.required mark (whose own number is 0) when there may be others *)
(* in between.  The address of the agent does not change here, the history *)
(* ring loses nothing, and a broken connection loses what it still carried.*)
(***************************************************************************)
EXTENDS Naturals, Sequences, FiniteSets

CONSTANTS
    Workspaces,   \* workspace ids
    NoWorkspace,  \* the empty id
    Streams,      \* bound: EventStreams at one time, closed ones included
    MaxSeq,       \* bound: events of one run of the agent
    MaxSubBuffer, \* capacity of the agent's channel to a connection
    MaxCrashes,   \* bound: crashes of the agent
    MaxMoves      \* bound: calls of the user interface and dropped connections

ASSUME NoWorkspaceIsNone == NoWorkspace \notin Workspaces
ASSUME BoundsAreNat == /\ Streams \in Nat \ {0} /\ MaxSeq \in Nat
                       /\ MaxSubBuffer \in Nat \ {0}
                       /\ MaxCrashes \in Nat /\ MaxMoves \in Nat

VARIABLES
    \* the agent
    up,          \* it runs
    event,       \* the workspaces of the events numbered in this run
    stored,      \* the numbers in the history, in the order they were stored
    crashes,     \* crashes so far
    \* the service
    configured,  \* config.baseUrl is set
    fetching,    \* a GET /endpoints of eagerFetchEndpoints is under way
    workspace,   \* workspaceId
    subscribers, \* keys of the subscribers map
    sequence,    \* sequence number handed to the next EventStream
    internal,    \* internalEventStream, 0 for none
    told,        \* the status the status subscribers were last told
    \* the EventStreams
    stream,      \* slot -> EventStream
    \* history
    heard,       \* events of this run handed to the subscribers
    lost,        \* those a full channel dropped
    raced,       \* those overtaken by a later number of their workspace
    skipped,     \* overtaken ones behind the cursor a connection began with
    promise,     \* workspace and cursor a connection to it first began with
    moves        \* calls and drops so far

agent == <<up, event, stored, crashes>>
config == <<configured, fetching, workspace, subscribers>>
fates == <<heard, lost, raced, skipped>>
history == <<fates, promise, moves>>
vars == <<agent, config, sequence, internal, told, stream, history>>

Keys == Workspaces \cup {NoWorkspace}
Slots == 1..Streams
Statuses == {"connecting", "open", "disconnected", "closed"}

(* socket: none before connect and after its close event, opening, up, or  *)
(* lost when that event is still to come.  queue: the numbers on their way,*)
(* in the agent's channel and on the wire, 0 for snapshot.required and gap *)
(* events; owed: events whose publishers copied this subscriber and are    *)
(* about to send.                                                          *)
EventStreams == [ws : Keys, seq : 0..MaxSeq, status : Statuses, closed : BOOLEAN,
                 timer : BOOLEAN, socket : {"none", "opening", "up", "lost"},
                 queue : Seq(0..MaxSeq), owed : SUBSET (1..MaxSeq)]

Unused == [ws |-> NoWorkspace, seq |-> 0, status |-> "closed", closed |-> TRUE,
           timer |-> FALSE, socket |-> "none", queue |-> <<>>, owed |-> {}]

NoPromise == [ws |-> NoWorkspace, from |-> 0]

TypeOK ==
    /\ up \in BOOLEAN
    /\ event \in Seq(Workspaces) /\ Len(event) <= MaxSeq
    /\ stored \in Seq(DOMAIN event)
    /\ \A i, j \in DOMAIN stored : stored[i] = stored[j] => i = j
    /\ crashes \in 0..MaxCrashes
    /\ configured \in BOOLEAN
    /\ fetching \in BOOLEAN
    /\ workspace \in Keys
    /\ subscribers \in SUBSET Keys
    /\ sequence \in 0..MaxSeq
    /\ internal \in {0} \cup Slots
    /\ told \in Statuses
    /\ stream \in [Slots -> EventStreams]
    /\ {heard, lost, raced, skipped} \subseteq SUBSET (1..MaxSeq)
    /\ promise \in [ws : Keys, from : 0..MaxSeq]
    /\ moves \in 0..MaxMoves

Init ==
    /\ up \in BOOLEAN
    /\ event = <<>>
    /\ stored = <<>>
    /\ crashes = 0
    /\ configured = FALSE
    /\ fetching = FALSE
    /\ workspace = NoWorkspace
    /\ subscribers = {}
    /\ sequence = 0
    /\ internal = 0
    /\ told = "disconnected"
    /\ stream = [s \in Slots |-> Unused]
    /\ heard = {} /\ lost = {} /\ raced = {} /\ skipped = {}
    /\ promise = NoPromise
    /\ moves = 0

Move == moves < MaxMoves /\ moves' = moves + 1

-----------------------------------------------------------------------------
(* The service: at most one stream                                         *)

(* new EventStream: it connects at once.                                   *)
FreshBug(w) == [ws |-> w, seq |-> sequence + 1, status |-> "connecting", closed |-> FALSE,
                timer |-> FALSE, socket |-> "opening", queue |-> <<>>, owed |-> {}]
Fresh(w) == [ws |-> w, seq |-> sequence, status |-> "connecting", closed |-> FALSE,
             timer |-> FALSE, socket |-> "opening", queue |-> <<>>, owed |-> {}]

(* EventStream.close; the close event of its socket is still to come.      *)
Closed(e) ==
    IF e.socket = "none" THEN Unused
    ELSE [e EXCEPT !.closed = TRUE, !.status = "closed", !.timer = FALSE,
                   !.socket = "lost", !.queue = <<>>, !.owed = {}]

WithoutInternal == [s \in Slots |-> IF s = internal THEN Closed(stream[s]) ELSE stream[s]]

(* ensureEventStream on what is left of the streams.                       *)
OpenAmong(rest, w) ==
    \E s \in Slots :
        /\ rest[s] = Unused
        /\ \A t \in 1..s-1 : rest[t] # Unused
        /\ stream' = [rest EXCEPT ![s] = Fresh(w)]
        /\ internal' = s
        /\ told' = "connecting"

(* closeEventStream, then ensureEventStream when wanted.                   *)
ReplaceStream(wanted, w) ==
    IF wanted
    THEN OpenAmong(WithoutInternal, w)
    ELSE /\ stream' = WithoutInternal
         /\ internal' = 0
         /\ told' = IF internal = 0 THEN told ELSE "closed"

EnsureStream(w) ==
    IF configured /\ internal = 0
    THEN OpenAmong(stream, w)
    ELSE UNCHANGED <<stream, internal, told>>

(* refreshEventStreamAfterConfig: reopens for any subscriber, even without *)
(* a workspace.                                                            *)
Refresh == ReplaceStream(subscribers # {}, workspace)

(* bootstrapFromTheiaConfig, ensureAgentSecretFromBackend, initialize: the *)
(* address and the secret become known, with the discovery of the          *)
(* endpoints behind it.                                                    *)
Bootstrap ==
    /\ ~configured
    /\ configured' = TRUE
    /\ fetching' = TRUE
    /\ Refresh
    /\ UNCHANGED <<agent, workspace, subscribers, sequence, fates, promise, moves>>

(* eagerFetchEndpoints: an answer refreshes the stream, an error does not. *)
EndpointsFetched ==
    /\ fetching
    /\ fetching' = FALSE
    /\ IF up THEN Refresh ELSE UNCHANGED <<stream, internal, told>>
    /\ UNCHANGED <<agent, configured, workspace, subscribers, sequence, fates, promise, moves>>

SetWorkspaceBug(w) ==  \* closes without opening again
    /\ Move
    /\ workspace # w
    /\ workspace' = w
    /\ ReplaceStream(FALSE, w)
    /\ UNCHANGED <<agent, configured, fetching, subscribers, sequence, fates, promise>>
SetWorkspace(w) ==
    /\ Move
    /\ workspace # w
    /\ workspace' = w
    /\ ReplaceStream(configured /\ subscribers # {}, w)
    /\ UNCHANGED <<agent, configured, fetching, subscribers, sequence, fates, promise>>

(* subscribeEvents.  The views subscribe with the current workspace id,    *)
(* which may be empty; the stores with that of the context they saw.       *)
SubscribeBug(k) ==  \* a new key moves the service without closing the stream
    /\ Move
    /\ k \in Workspaces \/ workspace = NoWorkspace
    /\ subscribers' = subscribers \cup {k}
    /\ workspace' = IF k = NoWorkspace THEN workspace ELSE k
    /\ IF k = NoWorkspace THEN UNCHANGED <<stream, internal, told>> ELSE EnsureStream(k)
    /\ UNCHANGED <<agent, configured, fetching, sequence, fates, promise>>
Subscribe(k) ==
    /\ Move
    /\ k \in Workspaces \/ workspace = NoWorkspace
    /\ subscribers' = subscribers \cup {k}
    /\ workspace' = IF k = NoWorkspace THEN workspace ELSE k
    /\ IF k = NoWorkspace THEN UNCHANGED <<stream, internal, told>>
       ELSE IF k # workspace THEN ReplaceStream(configured, k)
       ELSE EnsureStream(k)
    /\ UNCHANGED <<agent, configured, fetching, sequence, fates, promise>>

(* The last callback of a key goes; the stream goes with the last key.     *)
Unsubscribe(k) ==
    /\ Move
    /\ k \in subscribers
    /\ subscribers' = subscribers \ {k}
    /\ IF subscribers' = {} THEN ReplaceStream(FALSE, workspace)
       ELSE UNCHANGED <<stream, internal, told>>
    /\ UNCHANGED <<agent, configured, fetching, workspace, sequence, fates, promise>>

(* reconnectEventStream, from the reconnect command and before a server    *)
(* command: reopens whether anybody listens or not.                        *)
Reconnect ==
    /\ Move
    /\ ReplaceStream(configured, workspace)
    /\ UNCHANGED <<agent, config, sequence, fates, promise>>

-----------------------------------------------------------------------------
(* An EventStream and its socket                                           *)

Elems(q) == {q[i] : i \in 1..Len(q)}
Smaller(a, b) == IF a < b THEN a ELSE b

(* What the agent replays after a cursor, as positions in its history, in  *)
(* the order it stored them; and whether it marks a gap: the first event   *)
(* of the workspace it has is not the next one.                            *)
Of(w) == {k \in DOMAIN event : event[k] = w}
Replayed(w, since) == {i \in DOMAIN stored : stored[i] \in Of(w) /\ stored[i] > since}

InOrder(ps) ==
    UNION { {pick \in [1..n -> ps] :
                /\ \A i, j \in 1..n : i < j => pick[i] < pick[j]
                /\ \A p \in ps : \E i \in 1..n : pick[i] = p} : n \in 0..Len(stored) }

HasGap(w, since) ==
    /\ since > 0 /\ Replayed(w, since) # {}
    /\ \A i \in DOMAIN stored : stored[i] \in Of(w) => stored[i] > since + 1

Tell(s, status) == told' = IF s = internal THEN status ELSE told

(* The open event, with the agent's Subscribe behind it: the replay is put *)
(* into the empty channel and stops where it is full.  The cursor a stream *)
(* comes to a workspace with, or to an agent that was restarted, is where  *)
(* its duty to that workspace begins.                                      *)
AcceptBug(s) ==  \* registers without a replay
    /\ stream[s].socket = "opening" /\ up
    /\ stream' = [stream EXCEPT ![s] = [@ EXCEPT !.socket = "up", !.status = "open"]]
    /\ promise' = IF promise.ws = stream[s].ws THEN promise
                  ELSE [ws |-> stream[s].ws, from |-> stream[s].seq]
    /\ Tell(s, "open")
    /\ UNCHANGED <<agent, config, sequence, internal, fates, moves>>
Accept(s) ==
    LET w == stream[s].ws
        since == stream[s].seq
    IN
    /\ stream[s].socket = "opening" /\ up
    /\ \E pick \in InOrder(Replayed(w, since)) :
          LET mark == IF HasGap(w, since) THEN <<0>> ELSE <<>>
              fit  == Smaller(Len(pick), MaxSubBuffer - Len(mark))
              sent == [i \in 1..fit |-> stored[pick[i]]]
          IN
          /\ stream' = [stream EXCEPT ![s] =
                          [@ EXCEPT !.socket = "up", !.status = "open", !.queue = mark \o sent]]
          /\ lost' = (lost \ Elems(sent)) \cup {stored[pick[i]] : i \in fit+1..Len(pick)}
    /\ skipped' = skipped \cup {k \in Elems(stored) \cap Of(w) : k <= since /\ k \in raced \ heard}
    /\ promise' = IF promise.ws = w THEN promise ELSE [ws |-> w, from |-> since]
    /\ Tell(s, "open")
    /\ UNCHANGED <<agent, config, sequence, internal, heard, raced, moves>>

Refuse(s) ==
    /\ stream[s].socket = "opening" /\ ~up
    /\ stream' = [stream EXCEPT ![s] = [@ EXCEPT !.socket = "lost"]]
    /\ UNCHANGED <<agent, config, sequence, internal, told, history>>

(* The connection breaks: the network, a write deadline, or the agent      *)
(* hanging up on a stream without a workspace.                             *)
Drop(s) ==
    /\ Move
    /\ stream[s].socket = "up"
    /\ stream' = [stream EXCEPT ![s] = [@ EXCEPT !.socket = "lost", !.queue = <<>>, !.owed = {}]]
    /\ UNCHANGED <<agent, config, sequence, internal, told, fates, promise>>

(* The close event: disconnected, and a timer unless closed by the caller. *)
(* A replaced stream's status reaches nobody (ensureEventStream's guard).  *)
SocketClosedBug(s) ==  \* without that guard
    /\ stream[s].socket = "lost"
    /\ stream' = [stream EXCEPT ![s] =
                    IF @.closed THEN Unused
                    ELSE [@ EXCEPT !.socket = "none", !.status = "disconnected", !.timer = TRUE]]
    /\ told' = "disconnected"
    /\ UNCHANGED <<agent, config, sequence, internal, history>>
SocketClosed(s) ==
    /\ stream[s].socket = "lost"
    /\ stream' = [stream EXCEPT ![s] =
                    IF @.closed THEN Unused
                    ELSE [@ EXCEPT !.socket = "none", !.status = "disconnected", !.timer = TRUE]]
    /\ Tell(s, "disconnected")
    /\ UNCHANGED <<agent, config, sequence, internal, history>>

(* scheduleReconnect's timer runs connect.                                 *)
TimerFires(s) ==
    /\ stream[s].timer
    /\ stream' = [stream EXCEPT ![s] =
                    [@ EXCEPT !.timer = FALSE, !.socket = "opening", !.status = "connecting"]]
    /\ Tell(s, "connecting")
    /\ UNCHANGED <<agent, config, sequence, internal, history>>

(* A message event.  The stream keeps the highest number it saw, the       *)
(* service the last one, the 0 of a mark included.                         *)
Message(s) ==
    /\ stream[s].socket = "up" /\ stream[s].queue # <<>>
    /\ LET k == Head(stream[s].queue) IN
          /\ stream' = [stream EXCEPT ![s] =
                          [@ EXCEPT !.queue = Tail(stream[s].queue),
                                    !.seq = IF k > stream[s].seq THEN k ELSE stream[s].seq]]
          /\ sequence' = k
          /\ heard' = heard \cup ({k} \ {0})
    /\ UNCHANGED <<agent, config, internal, told, lost, raced, skipped, promise, moves>>

-----------------------------------------------------------------------------
(* The agent.  Publish numbers an event before it takes the lock, stores   *)
(* it and copies the subscribers under the lock, and sends after it; the   *)
(* numbers it overtakes are noted.                                         *)
Take(w) ==
    /\ up /\ Len(event) < MaxSeq
    /\ event' = Append(event, w)
    /\ UNCHANGED <<up, stored, crashes, config, sequence, internal, told, stream, history>>

Store(n) ==
    /\ n \in DOMAIN event /\ n \notin Elems(stored)
    /\ stored' = Append(stored, n)
    /\ stream' = [s \in Slots |->
                    IF stream[s].socket = "up" /\ stream[s].ws = event[n]
                    THEN [stream[s] EXCEPT !.owed = @ \cup {n}]
                    ELSE stream[s]]
    /\ raced' = raced \cup {k \in Of(event[n]) \ Elems(stored) : k < n}
    /\ UNCHANGED <<up, event, crashes, config, sequence, internal, told, heard, lost, skipped,
                   promise, moves>>

(* The channel of a connection with so much on its way may be full.        *)
Send(s, n) ==
    LET e == stream[s] IN
    /\ n \in e.owed
    /\ \/ /\ stream' = [stream EXCEPT ![s] =
                          [e EXCEPT !.owed = e.owed \ {n}, !.queue = Append(e.queue, n)]]
          /\ raced' = raced \cup {k \in e.owed : k < n}
          /\ UNCHANGED lost
       \/ /\ Len(e.queue) >= MaxSubBuffer
          /\ \E gap \in {<<>>, <<0>>} :
                stream' = [stream EXCEPT ![s] =
                             [e EXCEPT !.owed = e.owed \ {n}, !.queue = e.queue \o gap]]
          /\ lost' = lost \cup {n}
          /\ UNCHANGED raced
    /\ UNCHANGED <<agent, config, sequence, internal, told, heard, skipped, promise, moves>>

(* Every connection breaks and the numbers start again; what the streams   *)
(* remember of the old ones promises nothing any more.                     *)
Crash ==
    /\ up /\ crashes < MaxCrashes
    /\ up' = FALSE
    /\ crashes' = crashes + 1
    /\ event' = <<>>
    /\ stored' = <<>>
    /\ heard' = {} /\ lost' = {} /\ raced' = {} /\ skipped' = {}
    /\ promise' = NoPromise
    /\ stream' = [s \in Slots |->
                    IF stream[s].socket = "up"
                    THEN [stream[s] EXCEPT !.socket = "lost", !.queue = <<>>, !.owed = {}]
                    ELSE stream[s]]
    /\ UNCHANGED <<config, sequence, internal, told, moves>>

Restart ==
    /\ ~up
    /\ up' = TRUE
    /\ UNCHANGED <<event, stored, crashes, config, sequence, internal, told, stream, history>>

-----------------------------------------------------------------------------
Next ==
    \/ Bootstrap \/ EndpointsFetched \/ Reconnect
    \/ \E w \in Workspaces : SetWorkspace(w) \/ Take(w)
    \/ \E k \in Keys : Subscribe(k) \/ Unsubscribe(k)
    \/ \E s \in Slots :
          \/ Accept(s) \/ Refuse(s) \/ Drop(s) \/ SocketClosed(s)
          \/ TimerFires(s) \/ Message(s)
    \/ \E n \in 1..MaxSeq : Store(n) \/ \E s \in Slots : Send(s, n)
    \/ Crash \/ Restart

Spec == Init /\ [][Next]_vars

(* The browser fires its timers and its socket events, the configuration   *)
(* arrives, an agent that listens accepts, and a goroutine inside Publish  *)
(* is scheduled.  Nobody owes a restart, a call or an event.               *)
FairEvents ==
    /\ Spec
    /\ WF_vars(Bootstrap) /\ WF_vars(EndpointsFetched)
    /\ \A s \in Slots :
          /\ WF_vars(Accept(s)) /\ WF_vars(Refuse(s)) /\ WF_vars(SocketClosed(s))
          /\ WF_vars(TimerFires(s)) /\ WF_vars(Message(s))
    /\ \A n \in 1..MaxSeq : WF_vars(Store(n)) /\ \A s \in Slots : WF_vars(Send(s, n))

-----------------------------------------------------------------------------
(* Properties                                                              *)

(* The stream the service holds is for the workspace it is on, and every   *)
(* other stream was closed and will not connect again: moving to another   *)
(* workspace or configuration never leaves two live streams or one on the  *)
(* old id (subscribeEvents, setWorkspace, refreshEventStreamAfterConfig).  *)
OneStream ==
    \A s \in Slots :
        IF s = internal
        THEN ~stream[s].closed /\ stream[s].ws = workspace
        ELSE stream[s].closed /\ ~stream[s].timer /\ stream[s].socket \in {"none", "lost"}

(* The status bar shows the state of the stream in use: the late close     *)
(* event of a replaced socket cannot take it back (onStatus).              *)
StatusIsCurrent == internal # 0 => told = stream[internal].status

(* While the service stays on a workspace and the agent runs, a cursor     *)
(* never passes an event of it that was not handed to the subscribers,     *)
(* whatever drops, timers, refreshes and reopened streams come in between  *)
(* (connect's since), but for two losses that the agent makes possible: a  *)
(* full channel, and an event overtaken by a later number, which a broken  *)
(* connection may cost because the stream keeps the maximum.               *)
NoGap ==
    internal # 0 /\ promise.ws = workspace =>
        \A k \in Of(workspace) :
            promise.from < k /\ k <= stream[internal].seq => k \in heard \cup lost \cup raced

(* Once nobody calls any more and the agent stays up, a subscribed         *)
(* workspace has an open stream with nothing on its way, and of the events *)
(* with numbers after the cursor it first came to this run of the agent on *)
(* this visit with, all were handed to the subscribers but those a full    *)
(* channel dropped or an overtaking number hid from a new connection.      *)
(* Numbers up to that cursor are not promised: those of a restarted agent  *)
(* that the front end is ahead of, or of another workspace's time.         *)
Wanted == up /\ workspace # NoWorkspace /\ subscribers # {}
Connects ==
    <>[](Wanted => /\ told = "open" /\ internal # 0
                   /\ stream[internal].queue = <<>> /\ stream[internal].owed = {}
                   /\ promise.ws = workspace
                   /\ \A k \in Of(workspace) : k > promise.from => k \in heard \cup lost \cup skipped)
=============================================================================
