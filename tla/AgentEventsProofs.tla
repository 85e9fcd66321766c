------------------------- MODULE AgentEventsProofs -------------------------
(* Theorems about AgentEvents, for every number of workspaces, streams,     *)
(* events and crashes and every channel capacity: the types, that one       *)
(* stream lives, that its status is the one shown, and that a cursor passes *)
(* no event of the workspace but those dropped or overtaken.                *)
EXTENDS AgentEvents, SequenceTheorems, TLAPS

(* A closed stream has no timer and no socket that could open.             *)
Shut(e) == e.closed /\ ~e.timer /\ e.socket \in {"none", "lost"}

(* What opening and closing streams touches, with its types.               *)
StreamTypes ==
    /\ stream \in [Slots -> EventStreams]
    /\ internal \in {0} \cup Slots
    /\ told \in Statuses

(* What NoGap asks of an event: it was handed over, or it may be missed.   *)
Past == heard \cup lost \cup raced

(* The events of the promised workspace up to n are past.                  *)
Behind(n) == \A k \in Of(promise.ws) : promise.from < k /\ k <= n => k \in Past

(* A number a stream may go on from: what lies behind it is past, and      *)
(* nothing still to be published will lie behind it.                       *)
Known(n) ==
    promise.ws \in Workspaces => Behind(n) /\ (n <= promise.from \/ n <= Len(event))

(* An event in the history with a higher number than another one of its    *)
(* workspace was stored after it, or is known to have overtaken it.        *)
Overtaken ==
    \A j \in DOMAIN stored : \A k \in Of(event[stored[j]]) :
        k < stored[j] => k \in raced \/ \E i \in 1..j-1 : stored[i] = k

(* On a connection, every stored event is past or on its way, and what an  *)
(* event on its way has in front of it is past or comes before it.         *)
OnItsWay(e) ==
    /\ e.owed \subseteq Elems(stored) \cap Of(e.ws)
    /\ Elems(e.queue) \ {0} \subseteq Elems(stored) \cap Of(e.ws)
    /\ \A k \in Elems(stored) \cap Of(e.ws) :
          promise.from < k => k \in Past \cup Elems(e.queue) \cup e.owed
    /\ \A i \in DOMAIN e.queue : \A k \in Of(e.ws) :
          promise.from < k /\ k < e.queue[i] =>
              k \in Past \/ \E j \in 1..i-1 : e.queue[j] = k

(* Every cursor from which a stream goes on, now or after a new connection *)
(* or a new stream, is known.                                              *)
Cursors ==
    /\ Known(sequence)
    /\ internal # 0 => Known(stream[internal].seq) /\ sequence <= stream[internal].seq

(* A connection is to the promised workspace.                              *)
Connected ==
    internal # 0 /\ stream[internal].socket = "up" =>
        promise.ws = workspace /\ OnItsWay(stream[internal])

(* Only a connection has anything on its way, and a timer runs without one.*)
Idle ==
    \A s \in Slots :
        /\ stream[s].socket # "up" => stream[s].queue = <<>> /\ stream[s].owed = {}
        /\ stream[s].timer => stream[s].socket = "none"

IndInv == TypeOK /\ OneStream /\ StatusIsCurrent /\ Overtaken /\ Cursors /\ Connected /\ Idle

-----------------------------------------------------------------------------
(* Every event belongs to a workspace: none to the empty id.               *)
LEMMA NobodysEvents == TypeOK => Of(NoWorkspace) = {}
  BY NoWorkspaceIsNone DEF TypeOK, Of

(* Numbers are naturals, and those in the history were taken.              *)
LEMMA Numbers ==
    ASSUME TypeOK
    PROVE  /\ Len(event) \in Nat /\ Len(event) <= MaxSeq /\ DOMAIN event = 1..Len(event)
           /\ \A w : Of(w) \subseteq 1..Len(event)
           /\ Len(stored) \in Nat /\ DOMAIN stored = 1..Len(stored)
           /\ Elems(stored) \subseteq 1..Len(event)
  BY DEF TypeOK, Of, Elems

(* Closing a stream leaves it shut, with nothing on its way.               *)
LEMMA ClosedIsShut ==
    ASSUME NEW e \in EventStreams, e.socket # "up" => e.queue = <<>> /\ e.owed = {}
    PROVE  /\ Closed(e) \in EventStreams /\ Shut(Closed(e))
           /\ Closed(e).queue = <<>> /\ Closed(e).owed = {}
  <1>1. CASE e.socket = "none"
    BY <1>1, BoundsAreNat DEF Closed, Unused, EventStreams, Keys, Statuses, Shut
  <1>2. CASE e.socket # "none"
    <2> DEFINE c == [e EXCEPT !.closed = TRUE, !.status = "closed", !.timer = FALSE,
                              !.socket = "lost", !.queue = <<>>, !.owed = {}]
    <2>1. Closed(e) = c
      BY <1>2 DEF Closed
    <2>2. c \in EventStreams
      <3>1. <<>> \in Seq(0..MaxSeq) /\ {} \in SUBSET (1..MaxSeq) /\ "closed" \in Statuses
        BY DEF Statuses
      <3>2. \A f \in EventStreams, v \in BOOLEAN, x \in Statuses, q \in Seq(0..MaxSeq),
               o \in SUBSET (1..MaxSeq) :
              /\ [f EXCEPT !.closed = v, !.timer = v] \in EventStreams
              /\ [f EXCEPT !.status = x, !.queue = q, !.owed = o] \in EventStreams
              /\ [f EXCEPT !.socket = "lost"] \in EventStreams
        BY DEF EventStreams
      <3> QED BY <3>1, <3>2 DEF EventStreams
    <2>3. /\ c.closed = TRUE /\ c.timer = FALSE /\ c.socket = "lost"
          /\ c.queue = <<>> /\ c.owed = {}
      BY DEF EventStreams
    <2> QED BY <2>1, <2>2, <2>3 DEF Shut
  <1> QED BY <1>1, <1>2

(* What is left once the service's stream is closed.                       *)
LEMMA WithoutIsShut ==
    ASSUME IndInv
    PROVE  /\ WithoutInternal \in [Slots -> EventStreams]
           /\ \A s \in Slots : /\ Shut(WithoutInternal[s])
                               /\ WithoutInternal[s].queue = <<>> /\ WithoutInternal[s].owed = {}
  BY ClosedIsShut DEF IndInv, TypeOK, WithoutInternal, OneStream, Shut, Idle

(* The empty service satisfies the invariant.                              *)
LEMMA InitOK == Init => IndInv
  <1> SUFFICES ASSUME Init PROVE IndInv
    OBVIOUS
  <1>1. TypeOK
    <2>1. Unused \in EventStreams /\ NoPromise \in [ws : Keys, from : 0..MaxSeq]
      BY BoundsAreNat DEF Unused, NoPromise, EventStreams, Keys, Statuses
    <2>2. event \in Seq(Workspaces) /\ Len(event) = 0 /\ stored = <<>>
      BY DEF Init
    <2>3. 0 \in 0..MaxSeq /\ 0 \in 0..MaxCrashes /\ 0 \in 0..MaxMoves /\ 0 <= MaxSeq
      BY BoundsAreNat
    <2>4. stream \in [Slots -> EventStreams] /\ {heard, lost, raced, skipped} \subseteq SUBSET (1..MaxSeq)
      BY <2>1 DEF Init
    <2>5. workspace \in Keys /\ subscribers \in SUBSET Keys /\ internal \in {0} \cup Slots
          /\ told \in Statuses
      BY DEF Init, Keys, Statuses
    <2>6. stored \in Seq(DOMAIN event) /\ \A i, j \in DOMAIN stored : stored[i] = stored[j] => i = j
      BY <2>2
    <2> QED BY <2>1, <2>2, <2>3, <2>4, <2>5, <2>6 DEF Init, TypeOK
  <1>2. OneStream /\ StatusIsCurrent /\ Connected /\ Idle
    BY DEF Init, OneStream, StatusIsCurrent, Connected, Idle, Unused, Slots
  <1>3. Cursors
    BY NoWorkspaceIsNone DEF Init, Cursors, Known, NoPromise
  <1>4. Overtaken
    BY DEF Init, Overtaken
  <1> QED BY <1>1, <1>2, <1>3, <1>4 DEF IndInv

(* What opening and closing streams keeps.                                 *)
Held == StreamTypes /\ OneStream /\ StatusIsCurrent /\ Cursors /\ Connected /\ Idle

(* What was known stays known while nothing is published, handed over or   *)
(* lost.                                                                   *)
LEMMA KnownStays ==
    ASSUME UNCHANGED <<event, heard, lost, raced, promise>>
    PROVE  \A n : Known(n)' <=> Known(n)
  BY DEF Known, Behind, Past, Of

(* So does what is on its way.                                             *)
LEMMA WayStays ==
    ASSUME UNCHANGED <<event, stored, heard, lost, raced, promise>>
    PROVE  \A e : OnItsWay(e) =>
              /\ e.owed \subseteq (Elems(stored) \cap Of(e.ws))'
              /\ Elems(e.queue) \ {0} \subseteq (Elems(stored) \cap Of(e.ws))'
              /\ \A k \in (Elems(stored) \cap Of(e.ws))' :
                    promise'.from < k => k \in Past' \cup Elems(e.queue) \cup e.owed
              /\ \A i \in DOMAIN e.queue : \A k \in Of(e.ws)' :
                    promise'.from < k /\ k < e.queue[i] =>
                        k \in Past' \/ \E j \in 1..i-1 : e.queue[j] = k
  BY DEF OnItsWay, Elems, Past, Of

(* A stream opened among shut ones is the one stream, and goes on from the *)
(* cursor of the service.                                                  *)
LEMMA OpenAmongOK ==
    ASSUME IndInv, NEW w \in Keys, NEW rest \in [Slots -> EventStreams],
           \A s \in Slots : Shut(rest[s]) /\ rest[s].queue = <<>> /\ rest[s].owed = {},
           OpenAmong(rest, w), workspace' = w,
           UNCHANGED <<event, stored, fates, promise, sequence>>
    PROVE  Held'
  <1>1. PICK s \in Slots :
          /\ rest[s] = Unused
          /\ stream' = [rest EXCEPT ![s] = Fresh(w)]
          /\ internal' = s
          /\ told' = "connecting"
    BY DEF OpenAmong
  <1>2. Fresh(w) \in EventStreams
    BY BoundsAreNat DEF IndInv, TypeOK, Fresh, EventStreams, Statuses
  <1>3. stream'[s] = Fresh(w) /\ \A t \in Slots : t # s => stream'[t] = rest[t]
    BY <1>1
  <1>4. StreamTypes'
    BY <1>1, <1>2 DEF StreamTypes, Statuses
  <1>5. (OneStream /\ StatusIsCurrent /\ Idle)'
    <2>1. s # 0
      BY BoundsAreNat DEF Slots
    <2> QED BY <1>1, <1>3, <2>1 DEF OneStream, StatusIsCurrent, Idle, Fresh, Shut
  <1>6. Cursors' /\ Connected'
    <2>1. /\ stream'[internal'].seq = sequence' /\ stream'[internal'].socket = "opening"
          /\ sequence' \in Nat
      BY <1>1, <1>3, BoundsAreNat DEF Fresh, IndInv, TypeOK
    <2>2. Known(sequence)'
      BY KnownStays DEF IndInv, Cursors, fates, Known, Behind, Past, Of
    <2>3. Connected'
      BY <2>1 DEF Connected
    <2>4. Cursors'
      BY <2>1, <2>2 DEF Cursors, Known, Behind, Past, Of
    <2> QED BY <2>3, <2>4
  <1> QED BY <1>4, <1>5, <1>6 DEF Held

(* Replacing or dropping the stream.                                       *)
LEMMA ReplaceOK ==
    ASSUME IndInv, NEW w \in Keys, NEW wanted \in BOOLEAN, ReplaceStream(wanted, w),
           workspace' = w, UNCHANGED <<event, stored, fates, promise, sequence>>
    PROVE  Held'
  <1>1. CASE wanted
    BY <1>1, WithoutIsShut, OpenAmongOK DEF ReplaceStream
  <1>2. CASE ~wanted
    <2>1. /\ stream' = WithoutInternal
          /\ internal' = 0
          /\ told' \in Statuses
      BY <1>2 DEF ReplaceStream, Statuses, IndInv, TypeOK
    <2>2. (StreamTypes /\ OneStream /\ StatusIsCurrent /\ Idle)'
      BY <2>1, WithoutIsShut DEF StreamTypes, OneStream, StatusIsCurrent, Idle, Shut,
         IndInv, TypeOK, Slots
    <2>3. Cursors' /\ Connected'
      BY <2>1 DEF Cursors, Connected, Known, Behind, Past, Of, IndInv, fates
    <2> QED BY <2>2, <2>3 DEF Held
  <1> QED BY <1>1, <1>2

(* The refresh, whether anybody subscribes or not.                         *)
LEMMA RefreshOK ==
    ASSUME IndInv, Refresh, UNCHANGED <<workspace, event, stored, fates, promise, sequence>>
    PROVE  Held'
  <1>1. workspace \in Keys
    BY DEF IndInv, TypeOK
  <1>2. CASE subscribers # {}
    BY <1>1, <1>2, ReplaceOK DEF Refresh, ReplaceStream
  <1>3. CASE subscribers = {}
    BY <1>1, <1>3, ReplaceOK DEF Refresh, ReplaceStream
  <1> QED BY <1>2, <1>3

(* A step of the user interface that leaves the stream alone.              *)
LEMMA HeldStays ==
    ASSUME IndInv, UNCHANGED <<stream, internal, told, workspace, event, stored, fates, promise,
                               sequence>>
    PROVE  Held'
  <1>1. (StreamTypes /\ OneStream /\ StatusIsCurrent /\ Idle)'
    BY DEF IndInv, TypeOK, StreamTypes, OneStream, StatusIsCurrent, Idle
  <1>2. Cursors'
    BY DEF IndInv, Cursors, Known, Behind, Past, Of, fates
  <1>3. Connected'
    <2>1. OnItsWay(stream[internal])' <=> OnItsWay(stream[internal])
      BY DEF OnItsWay, Elems, Past, Of, fates
    <2> QED BY <2>1 DEF IndInv, Connected
  <1> QED BY <1>1, <1>2, <1>3 DEF Held

(* Opening a stream where there is none.                                   *)
LEMMA EnsureOK ==
    ASSUME IndInv, EnsureStream(workspace), workspace' = workspace,
           UNCHANGED <<event, stored, fates, promise, sequence>>
    PROVE  Held'
  <1>1. CASE configured /\ internal = 0
    <2>1. /\ stream \in [Slots -> EventStreams]
          /\ \A s \in Slots : Shut(stream[s]) /\ stream[s].queue = <<>> /\ stream[s].owed = {}
      BY <1>1 DEF IndInv, TypeOK, OneStream, Shut, Slots, Idle
    <2> QED BY <1>1, <2>1, OpenAmongOK DEF EnsureStream, IndInv, TypeOK
  <1>2. CASE ~(configured /\ internal = 0)
    BY <1>2, HeldStays DEF EnsureStream
  <1> QED BY <1>1, <1>2

(* The types of what opening a stream leaves alone.                        *)
Others ==
    /\ up \in BOOLEAN /\ event \in Seq(Workspaces) /\ Len(event) <= MaxSeq
    /\ stored \in Seq(DOMAIN event)
    /\ \A i, j \in DOMAIN stored : stored[i] = stored[j] => i = j
    /\ crashes \in 0..MaxCrashes
    /\ configured \in BOOLEAN /\ fetching \in BOOLEAN
    /\ workspace \in Keys /\ subscribers \in SUBSET Keys
    /\ sequence \in 0..MaxSeq /\ {heard, lost, raced, skipped} \subseteq SUBSET (1..MaxSeq)
    /\ promise \in [ws : Keys, from : 0..MaxSeq] /\ moves \in 0..MaxMoves

(* The calls of the user interface and the discovery of the agent.         *)
LEMMA ServiceOK ==
    ASSUME IndInv,
           \/ Bootstrap \/ EndpointsFetched \/ Reconnect
           \/ \E w \in Workspaces : SetWorkspace(w)
           \/ \E k \in Keys : Subscribe(k) \/ Unsubscribe(k)
    PROVE  IndInv'
  <1> USE DEF agent, config
  <1>1. UNCHANGED <<up, event, stored, crashes, sequence, fates, promise>>
    BY DEF Bootstrap, EndpointsFetched, Reconnect, SetWorkspace, Subscribe, Unsubscribe
  <1>2. Others'
    <2>1. moves' \in 0..MaxMoves
      <3>1. Move \/ moves' = moves
        BY DEF Bootstrap, EndpointsFetched, Reconnect, SetWorkspace, Subscribe, Unsubscribe
      <3> QED BY <3>1, BoundsAreNat DEF IndInv, TypeOK, Move
    <2>2. /\ configured' \in BOOLEAN /\ fetching' \in BOOLEAN
          /\ workspace' \in Keys /\ subscribers' \in SUBSET Keys
      BY DEF IndInv, TypeOK, Bootstrap, EndpointsFetched, Reconnect,
         SetWorkspace, Subscribe, Unsubscribe, Keys
    <2> QED BY <1>1, <2>1, <2>2 DEF IndInv, TypeOK, Others, fates
  <1>3. /\ workspace \in Keys /\ (configured /\ subscribers # {}) \in BOOLEAN
        /\ (subscribers # {}) \in BOOLEAN /\ configured \in BOOLEAN
    BY DEF IndInv, TypeOK
  <1>4. ASSUME Bootstrap PROVE Held'
    BY <1>1, <1>4, RefreshOK DEF Bootstrap
  <1>5. ASSUME EndpointsFetched PROVE Held'
    BY <1>1, <1>5, RefreshOK, HeldStays DEF EndpointsFetched
  <1>6. ASSUME Reconnect PROVE Held'
    BY <1>1, <1>3, <1>6, ReplaceOK DEF Reconnect
  <1>7. ASSUME NEW w \in Workspaces, SetWorkspace(w) PROVE Held'
    BY <1>1, <1>3, <1>7, ReplaceOK DEF SetWorkspace, Keys
  <1>8. ASSUME NEW k \in Keys, Subscribe(k) PROVE Held'
    <2>1. CASE k = NoWorkspace
      BY <1>1, <1>8, <2>1, HeldStays DEF Subscribe
    <2>2. CASE k # NoWorkspace /\ k # workspace
      BY <1>1, <1>3, <1>8, <2>2, ReplaceOK DEF Subscribe
    <2>3. CASE k # NoWorkspace /\ k = workspace
      BY <1>1, <1>8, <2>3, EnsureOK DEF Subscribe
    <2> QED BY <2>1, <2>2, <2>3
  <1>9. ASSUME NEW k \in Keys, Unsubscribe(k) PROVE Held'
    <2>1. CASE subscribers' = {}
      BY <1>1, <1>3, <1>9, <2>1, ReplaceOK DEF Unsubscribe
    <2>2. CASE subscribers' # {}
      BY <1>1, <1>9, <2>2, HeldStays DEF Unsubscribe
    <2> QED BY <2>1, <2>2
  <1>10. Held'
    BY <1>4, <1>5, <1>6, <1>7, <1>8, <1>9
  <1>11. Overtaken'
    BY <1>1 DEF IndInv, Overtaken, Of, fates
  <1> QED BY <1>2, <1>10, <1>11 DEF IndInv, TypeOK, Held, StreamTypes, Others

-----------------------------------------------------------------------------
(* One stream changes, by its socket, its timer or what is on its way.     *)
LEMMA SlotOK ==
    ASSUME IndInv, NEW s \in Slots, NEW e \in EventStreams,
           stream' = [stream EXCEPT ![s] = e], Tell(s, e.status),
           e.ws = stream[s].ws, e.closed = stream[s].closed,
           s # internal => ~e.timer /\ e.socket \in {"none", "lost"},
           e.socket # "up" => e.queue = <<>> /\ e.owed = {}, e.timer => e.socket = "none",
           UNCHANGED <<internal, workspace>>
    PROVE  /\ (StreamTypes /\ OneStream /\ StatusIsCurrent /\ Idle)'
           /\ stream'[s] = e /\ \A t \in Slots : t # s => stream'[t] = stream[t]
  <1>1. stream'[s] = e /\ \A t \in Slots : t # s => stream'[t] = stream[t]
    BY DEF IndInv, TypeOK
  <1>2. StreamTypes'
    BY DEF IndInv, TypeOK, StreamTypes, Tell, EventStreams
  <1>3. (OneStream /\ StatusIsCurrent)'
    BY <1>1, BoundsAreNat DEF IndInv, TypeOK, OneStream, StatusIsCurrent, Tell, Slots
  <1>4. Idle'
    BY <1>1 DEF IndInv, Idle
  <1> QED BY <1>1, <1>2, <1>3, <1>4

(* A step in which a stream is not, or no longer, connected: nothing       *)
(* becomes known or unknown.                                               *)
LEMMA QuietOK ==
    ASSUME IndInv, NEW s \in Slots, NEW e \in EventStreams,
           stream' = [stream EXCEPT ![s] = e], Tell(s, e.status),
           e.ws = stream[s].ws, e.seq = stream[s].seq, e.closed = stream[s].closed,
           s # internal => ~e.timer /\ e.socket \in {"none", "lost"},
           e.socket # "up", e.queue = <<>>, e.owed = {}, e.timer => e.socket = "none",
           UNCHANGED <<agent, config, sequence, internal, fates, promise>>, moves' \in 0..MaxMoves
    PROVE  IndInv'
  <1> USE DEF agent, config
  <1>1. /\ (StreamTypes /\ OneStream /\ StatusIsCurrent /\ Idle)'
        /\ stream'[s] = e /\ \A t \in Slots : t # s => stream'[t] = stream[t]
    BY SlotOK
  <1>2. TypeOK'
    BY <1>1 DEF IndInv, TypeOK, StreamTypes, fates
  <1>3. Overtaken'
    BY DEF IndInv, Overtaken, Of, fates
  <1>4. internal # 0 => internal \in Slots
    BY DEF IndInv, TypeOK
  <1>5. Cursors'
    <2>1. \A n : Known(n)' <=> Known(n)
      BY KnownStays DEF fates
    <2> QED BY <1>1, <1>4, <2>1 DEF IndInv, Cursors, Known, Behind, Past, Of
  <1>6. Connected'
    <2>1. CASE s = internal
      BY <1>1, <2>1 DEF Connected
    <2>2. CASE s # internal
      <3>1. internal # 0 => stream'[internal] = stream[internal]
        BY <1>1, <1>4, <2>2
      <3>2. stream'[internal'].socket = "up" /\ internal' # 0 => OnItsWay(stream[internal])'
        BY <3>1, WayStays DEF IndInv, Connected, OnItsWay, fates
      <3> QED BY <3>1, <3>2 DEF IndInv, Connected
    <2> QED BY <2>1, <2>2
  <1> QED BY <1>1, <1>2, <1>3, <1>5, <1>6 DEF IndInv

(* The other socket events and the timer.                                  *)
LEMMA SocketOK ==
    ASSUME IndInv, NEW s \in Slots, Refuse(s) \/ Drop(s) \/ SocketClosed(s) \/ TimerFires(s)
    PROVE  IndInv'
  <1>1. /\ stream[s] \in EventStreams /\ (s # internal => Shut(stream[s]))
        /\ (stream[s].socket # "up" => stream[s].queue = <<>> /\ stream[s].owed = {})
        /\ (stream[s].timer => stream[s].socket = "none")
    BY DEF IndInv, TypeOK, OneStream, Shut, Idle
  <1>2. CASE Refuse(s)
    <2> DEFINE e == [stream[s] EXCEPT !.socket = "lost"]
    <2>1. e \in EventStreams /\ e.ws = stream[s].ws /\ e.seq = stream[s].seq
          /\ e.closed = stream[s].closed /\ e.socket = "lost" /\ ~e.timer
          /\ e.status = stream[s].status /\ e.queue = <<>> /\ e.owed = {}
      BY <1>1, <1>2 DEF Refuse, EventStreams
    <2>2. /\ stream' = [stream EXCEPT ![s] = e] /\ Tell(s, stream[s].status)
          /\ UNCHANGED <<agent, config, sequence, internal, fates, promise>> /\ moves' \in 0..MaxMoves
      BY <1>2, BoundsAreNat DEF Refuse, history, IndInv, TypeOK, StatusIsCurrent, Tell, Slots
    <2> HIDE DEF e
    <2> QED BY <1>1, <2>1, <2>2, QuietOK DEF Shut
  <1>3. CASE Drop(s)
    <2> DEFINE e == [stream[s] EXCEPT !.socket = "lost", !.queue = <<>>, !.owed = {}]
    <2>1. e \in EventStreams /\ e.ws = stream[s].ws /\ e.seq = stream[s].seq
          /\ e.closed = stream[s].closed /\ e.socket = "lost" /\ ~e.timer
          /\ e.status = stream[s].status /\ e.queue = <<>> /\ e.owed = {}
      <3>1. <<>> \in Seq(0..MaxSeq) /\ {} \in SUBSET (1..MaxSeq)
        OBVIOUS
      <3> QED BY <1>1, <1>3, <3>1 DEF Drop, EventStreams
    <2>2. /\ stream' = [stream EXCEPT ![s] = e] /\ Tell(s, stream[s].status)
          /\ UNCHANGED <<agent, config, sequence, internal, fates, promise>> /\ moves' \in 0..MaxMoves
      BY <1>3, BoundsAreNat DEF Drop, Move, IndInv, TypeOK, StatusIsCurrent, Tell, Slots
    <2> HIDE DEF e
    <2> QED BY <1>1, <2>1, <2>2, QuietOK DEF Shut
  <1>4. CASE TimerFires(s)
    <2> DEFINE e == [stream[s] EXCEPT !.timer = FALSE, !.socket = "opening", !.status = "connecting"]
    <2>1. s = internal
      BY <1>1, <1>4 DEF TimerFires, Shut
    <2>2. stream[s].socket # "up"
      BY <1>4, <2>1 DEF TimerFires, IndInv, Idle
    <2>3. e \in EventStreams /\ e.ws = stream[s].ws /\ e.seq = stream[s].seq
          /\ e.closed = stream[s].closed /\ e.socket = "opening" /\ e.status = "connecting"
          /\ ~e.timer /\ e.queue = <<>> /\ e.owed = {}
      BY <1>1, <2>2 DEF EventStreams, Statuses
    <2>4. /\ stream' = [stream EXCEPT ![s] = e] /\ Tell(s, "connecting")
          /\ UNCHANGED <<agent, config, sequence, internal, fates, promise>> /\ moves' \in 0..MaxMoves
      BY <1>4 DEF TimerFires, history, IndInv, TypeOK
    <2> HIDE DEF e
    <2> QED BY <2>1, <2>3, <2>4, QuietOK
  <1>5. CASE SocketClosed(s) /\ s = internal
    <2> DEFINE e == [stream[s] EXCEPT !.socket = "none", !.status = "disconnected", !.timer = TRUE]
    <2>1. e \in EventStreams /\ e.ws = stream[s].ws /\ e.seq = stream[s].seq
          /\ e.closed = stream[s].closed /\ e.socket = "none" /\ e.status = "disconnected"
          /\ e.queue = <<>> /\ e.owed = {}
      BY <1>1, <1>5 DEF SocketClosed, EventStreams, Statuses
    <2>2. /\ stream' = [stream EXCEPT ![s] = e] /\ Tell(s, "disconnected")
          /\ UNCHANGED <<agent, config, sequence, internal, fates, promise>> /\ moves' \in 0..MaxMoves
      BY <1>5 DEF SocketClosed, history, IndInv, TypeOK, OneStream
    <2> HIDE DEF e
    <2> QED BY <1>5, <2>1, <2>2, QuietOK
  <1>6. CASE SocketClosed(s) /\ s # internal
    <2>1. stream' = [stream EXCEPT ![s] = Unused]
      BY <1>1, <1>6 DEF SocketClosed, Shut
    <2>2. Unused \in EventStreams /\ Shut(Unused) /\ Unused.queue = <<>> /\ Unused.owed = {}
      BY BoundsAreNat DEF Unused, EventStreams, Keys, Statuses, Shut
    <2>3. UNCHANGED <<agent, config, sequence, internal, told, history>>
      BY <1>6 DEF SocketClosed, Tell
    <2>4. stream' \in [Slots -> EventStreams] /\ stream'[s] = Unused
          /\ \A t \in Slots : t # s => stream'[t] = stream[t]
      BY <2>1, <2>2 DEF IndInv, TypeOK
    <2>5. TypeOK'
      BY <2>3, <2>4 DEF IndInv, TypeOK, agent, config, history, fates
    <2>6. internal # 0 => internal \in Slots /\ stream'[internal] = stream[internal]
      BY <1>6, <2>4 DEF IndInv, TypeOK
    <2>7. (OneStream /\ StatusIsCurrent /\ Idle)'
      BY <1>6, <2>2, <2>3, <2>4, <2>6 DEF IndInv, OneStream, StatusIsCurrent, Idle, Shut, config
    <2>8. (Overtaken /\ Cursors)'
      BY <2>3, <2>6 DEF IndInv, Overtaken, Cursors, Known, Behind, Past, Of, agent, history, fates
    <2>9. Connected'
      <3>1. stream'[internal'].socket = "up" /\ internal' # 0 => OnItsWay(stream[internal])'
        BY <2>3, <2>6, WayStays DEF IndInv, Connected, OnItsWay, agent, history, fates
      <3> QED BY <2>3, <2>6, <3>1 DEF IndInv, Connected, agent, config, history
    <2> QED BY <2>5, <2>7, <2>8, <2>9 DEF IndInv
  <1> QED BY <1>2, <1>3, <1>4, <1>5, <1>6

(* What the agent replays is in stored order; the rest does not fit.       *)
ReplaySound(w, since, pick, fit, sent) ==
    /\ sent \in Seq(1..MaxSeq) /\ Len(sent) = fit
    /\ Elems(sent) \subseteq Elems(stored) \cap Of(w)
    /\ \A k \in Elems(sent) : k > since
    /\ {stored[pick[i]] : i \in fit+1..Len(pick)} \subseteq 1..MaxSeq
    /\ \A k \in Elems(stored) \cap Of(w) : k > since =>
          k \in Elems(sent) \cup {stored[pick[i]] : i \in fit+1..Len(pick)}
    /\ \A i \in 1..fit : \A k \in Of(w) : since < k /\ k < sent[i] =>
          k \in raced \/ \E j \in 1..i-1 : sent[j] = k

(* An agent that accepts replays so much of its history.                   *)
LEMMA ReplayOK ==
    ASSUME IndInv, NEW w \in Keys, NEW since \in Nat,
           NEW pick \in InOrder(Replayed(w, since)), NEW fit \in 0..Len(pick),
           NEW sent, sent = [i \in 1..fit |-> stored[pick[i]]]
    PROVE  ReplaySound(w, since, pick, fit, sent)
  <1>1. PICK n \in 0..Len(stored) :
          /\ pick \in [1..n -> Replayed(w, since)]
          /\ \A i, j \in 1..n : i < j => pick[i] < pick[j]
          /\ \A p \in Replayed(w, since) : \E i \in 1..n : pick[i] = p
    BY DEF InOrder
  <1>2. n \in Nat /\ Len(pick) = n /\ fit \in 0..n /\ fit \in Nat
    <2>1. n \in Nat
      BY Numbers DEF IndInv
    <2> QED BY <1>1, <2>1
  <1>3. \A i \in 1..n : /\ pick[i] \in 1..Len(stored) /\ stored[pick[i]] \in Of(w)
                        /\ stored[pick[i]] > since /\ stored[pick[i]] \in 1..MaxSeq
    BY <1>1, Numbers, BoundsAreNat DEF Replayed, IndInv
  <1>4. sent \in Seq(1..MaxSeq) /\ Len(sent) = fit /\ \A i \in 1..fit : sent[i] = stored[pick[i]]
    BY <1>2, <1>3
  <1>5. Elems(sent) \subseteq Elems(stored) \cap Of(w) /\ \A k \in Elems(sent) : k > since
    BY <1>2, <1>3, <1>4 DEF Elems
  <1>6. {stored[pick[i]] : i \in fit+1..Len(pick)} \subseteq 1..MaxSeq
    BY <1>2, <1>3
  <1>7. ASSUME NEW k \in Elems(stored) \cap Of(w), k > since
        PROVE  k \in Elems(sent) \cup {stored[pick[i]] : i \in fit+1..Len(pick)}
    <2>1. PICK p \in DOMAIN stored : stored[p] = k
      BY Numbers DEF Elems, IndInv
    <2>2. PICK i \in 1..n : pick[i] = p
      BY <1>1, <1>7, <2>1 DEF Replayed
    <2>3. CASE i <= fit
      BY <1>2, <1>4, <2>1, <2>2, <2>3 DEF Elems
    <2>4. CASE ~(i <= fit)
      BY <1>2, <2>1, <2>2, <2>4
    <2> QED BY <2>3, <2>4
  <1>8. ASSUME NEW i \in 1..fit, NEW k \in Of(w), since < k, k < sent[i]
        PROVE  k \in raced \/ \E j \in 1..i-1 : sent[j] = k
    <2>1. i \in 1..n /\ sent[i] = stored[pick[i]] /\ pick[i] \in DOMAIN stored
          /\ event[stored[pick[i]]] = w
      BY <1>2, <1>3, <1>4, Numbers DEF Of, IndInv
    <2>2. k \in Of(event[stored[pick[i]]])
      BY <2>1
    <2>3. k \in raced \/ \E q \in 1..pick[i]-1 : stored[q] = k
      BY <1>8, <2>1, <2>2 DEF IndInv, Overtaken
    <2>4. ASSUME NEW q \in 1..pick[i]-1, stored[q] = k PROVE \E j \in 1..i-1 : sent[j] = k
      <3>1. q \in Replayed(w, since) /\ q < pick[i]
        BY <1>3, <1>8, <2>1, <2>4, Numbers DEF Replayed, IndInv
      <3>2. PICK j \in 1..n : pick[j] = q
        BY <1>1, <3>1
      <3>3. j < i
        <4>1. j # i /\ ~(i < j)
          BY <1>1, <1>3, <2>1, <3>1, <3>2
        <4> QED BY <1>2, <2>1, <4>1
      <3> QED BY <1>2, <1>4, <2>4, <3>2, <3>3
    <2> QED BY <2>3, <2>4
  <1> QED BY <1>4, <1>5, <1>6, <1>7, <1>8 DEF ReplaySound

(* The agent accepts: the stream goes on from its cursor with the replay   *)
(* on its way.                                                             *)
LEMMA AcceptOK == ASSUME IndInv, NEW s \in Slots, Accept(s) PROVE IndInv'
  <1> PICK w, since : w = stream[s].ws /\ since = stream[s].seq
    OBVIOUS
  <1> DEFINE mark == IF HasGap(w, since) THEN <<0>> ELSE <<>>
             fit(pick) == Smaller(Len(pick), MaxSubBuffer - Len(mark))
             sentOf(pick) == [i \in 1..fit(pick) |-> stored[pick[i]]]
             cutOf(pick) == {stored[pick[i]] : i \in fit(pick)+1..Len(pick)}
             eOf(pick) == [stream[s] EXCEPT !.socket = "up", !.status = "open",
                                           !.queue = mark \o sentOf(pick)]
  <1>1. PICK pick \in InOrder(Replayed(w, since)) :
          /\ stream' = [stream EXCEPT ![s] = eOf(pick)]
          /\ lost' = (lost \ Elems(sentOf(pick))) \cup cutOf(pick)
    BY DEF Accept
  <1>2. /\ up /\ stream[s].socket = "opening" /\ Tell(s, "open")
        /\ skipped' = skipped \cup {k \in Elems(stored) \cap Of(w) : k <= since /\ k \in raced \ heard}
        /\ promise' = IF promise.ws = w THEN promise ELSE [ws |-> w, from |-> since]
        /\ UNCHANGED <<agent, config, sequence, internal, heard, raced, moves>>
    BY DEF Accept
  <1>3. stream[s] \in EventStreams /\ w \in Keys /\ since \in 0..MaxSeq /\ since \in Nat
    BY BoundsAreNat DEF IndInv, TypeOK, EventStreams
  <1>4. s = internal /\ s # 0 /\ w = workspace /\ stream[s].owed = {} /\ ~stream[s].timer
        /\ ~stream[s].closed
    BY <1>2, BoundsAreNat DEF IndInv, OneStream, Idle, Slots
  <1>5. mark \in Seq({0}) /\ Len(mark) \in 0..1 /\ \A i \in 1..Len(mark) : mark[i] = 0
    OBVIOUS
  <1>6. fit(pick) \in 0..Len(pick)
    <2>1. Len(pick) \in Nat
      BY Numbers DEF InOrder, IndInv
    <2> QED BY <1>5, <2>1, BoundsAreNat DEF Smaller
  <1> DEFINE sent == sentOf(pick)
             cut == cutOf(pick)
             q == mark \o sent
  <1> PICK e : e = eOf(pick)
    OBVIOUS
  <1>7. /\ sent \in Seq(1..MaxSeq) /\ Len(sent) = fit(pick)
        /\ Elems(sent) \subseteq Elems(stored) \cap Of(w)
        /\ \A k \in Elems(sent) : k > since
        /\ cut \subseteq 1..MaxSeq
        /\ \A k \in Elems(stored) \cap Of(w) : k > since => k \in Elems(sent) \cup cut
        /\ \A i \in 1..fit(pick) : \A k \in Of(w) : since < k /\ k < sent[i] =>
             k \in raced \/ \E j \in 1..i-1 : sent[j] = k
    <2>1. ReplaySound(w, since, pick, fit(pick), sent)
      <3> DEFINE f == fit(pick)
                 z == [i \in 1..f |-> stored[pick[i]]]
      <3>1. f \in 0..Len(pick) /\ pick \in InOrder(Replayed(w, since))
        BY <1>1, <1>6
      <3> HIDE DEF f, fit, z
      <3>2. \A y : y = [i \in 1..f |-> stored[pick[i]]] => ReplaySound(w, since, pick, f, y)
        BY <1>3, <3>1, ReplayOK
      <3> QED BY <3>2 DEF f, z
    <2> HIDE DEF fit, sent
    <2> QED BY <2>1 DEF ReplaySound
  <1> HIDE DEF mark, fit, sentOf, cutOf
  <1>8. /\ q \in Seq(0..MaxSeq) /\ DOMAIN q = 1..Len(mark) + Len(sent)
        /\ Len(q) = Len(mark) + Len(sent) /\ Len(sent) \in Nat
        /\ \A i \in 1..Len(mark) : q[i] = 0
        /\ \A i \in 1..Len(sent) : q[Len(mark) + i] = sent[i]
    <2>1. mark \in Seq(0..MaxSeq) /\ sent \in Seq(0..MaxSeq)
      BY <1>5, <1>7, BoundsAreNat
    <2> QED BY <1>5, <2>1
  <1>9. /\ e \in EventStreams /\ e.ws = w /\ e.seq = since /\ e.closed = stream[s].closed
        /\ e.socket = "up" /\ e.status = "open" /\ e.queue = q /\ e.owed = {} /\ ~e.timer
    BY <1>3, <1>4, <1>8 DEF EventStreams, Statuses
  <1>10. stream' = [stream EXCEPT ![s] = e] /\ lost' = (lost \ Elems(sent)) \cup cut
    BY <1>1
  <1> HIDE DEF eOf, q, sent, cut
  <1>11. /\ (StreamTypes /\ OneStream /\ StatusIsCurrent /\ Idle)'
         /\ stream'[s] = e /\ \A t \in Slots : t # s => stream'[t] = stream[t]
    <2>1. /\ Tell(s, e.status) /\ e.ws = stream[s].ws /\ e.closed = stream[s].closed
          /\ (s # internal => ~e.timer /\ e.socket \in {"none", "lost"})
          /\ (e.socket # "up" => e.queue = <<>> /\ e.owed = {}) /\ (e.timer => e.socket = "none")
          /\ UNCHANGED <<internal, workspace>>
      BY <1>2, <1>4, <1>9 DEF config
    <2> QED BY <1>9, <1>10, <2>1, SlotOK
  <1>12. TypeOK'
    <2>1. lost' \in SUBSET (1..MaxSeq)
      BY <1>7, <1>10 DEF IndInv, TypeOK
    <2>2. skipped' \in SUBSET (1..MaxSeq)
      BY <1>2 DEF IndInv, TypeOK
    <2>3. promise' \in [ws : Keys, from : 0..MaxSeq]
      BY <1>2, <1>3 DEF IndInv, TypeOK
    <2> QED BY <1>2, <1>11, <2>1, <2>2, <2>3 DEF IndInv, TypeOK, StreamTypes, agent, config
  <1>13. Overtaken'
    BY <1>2 DEF IndInv, Overtaken, Of, agent
  <1>14. promise'.ws = w
    BY <1>2
  <1>15. \A k \in Of(w) : promise'.from < k /\ k <= since => k \in Past'
    <2>1. CASE promise.ws = w
      <3>1. w = NoWorkspace => Of(w) = {}
        BY NobodysEvents DEF IndInv
      <3>2. w # NoWorkspace => Behind(since)
        BY <1>3, <1>4, <2>1 DEF IndInv, Cursors, Known, Keys
      <3> QED BY <1>2, <1>7, <1>10, <2>1, <3>1, <3>2, <1>3, Numbers DEF Behind, Past, IndInv
    <2>2. CASE promise.ws # w
      BY <1>2, <1>3, <2>2, Numbers DEF IndInv
    <2> QED BY <2>1, <2>2
  <1>16. Of(w)' = Of(w) /\ Of(w) \subseteq Nat /\ Elems(stored)' = Elems(stored)
         /\ sequence' = sequence /\ sequence \in Nat /\ sequence <= since /\ promise'.from \in Nat
    BY <1>2, <1>3, <1>4, <1>12, Numbers, BoundsAreNat
       DEF Of, Elems, agent, IndInv, TypeOK, Cursors
  <1>17. since <= promise'.from \/ (w \in Workspaces => since <= Len(event))
    BY <1>2, <1>3, <1>4 DEF IndInv, Cursors, Known
  <1>18. Cursors'
    <2>1. \A n \in Nat : n <= since /\ w \in Workspaces =>
            /\ \A k \in Of(w)' : promise'.from < k /\ k <= n => k \in Past'
            /\ n <= promise'.from \/ n <= Len(event)'
      BY <1>2, <1>3, <1>15, <1>16, <1>17, Numbers DEF agent, IndInv
    <2>2. stream'[internal'].seq = since /\ internal' = s
      BY <1>2, <1>4, <1>9, <1>11
    <2> QED BY <1>3, <1>14, <1>16, <2>1, <2>2 DEF Cursors, Known, Behind, Of
  <1>19. Connected'
    <2>1. Elems(q) \ {0} \subseteq Elems(sent) /\ Elems(sent) \subseteq Elems(q)
      <3>1. Elems(sent) \subseteq Elems(q)
        <4>1. \A i \in 1..Len(sent) : Len(mark) + i \in 1..Len(q)
          BY <1>5, <1>8
        <4> QED BY <1>8, <4>1 DEF Elems
      <3>2. ASSUME NEW i \in 1..Len(q), q[i] # 0 PROVE q[i] \in Elems(sent)
        <4>1. i - Len(mark) \in 1..Len(sent) /\ i = Len(mark) + (i - Len(mark))
          BY <1>5, <1>8, <3>2
        <4>2. q[i] = sent[i - Len(mark)]
          BY <1>8, <4>1
        <4> QED BY <4>1, <4>2 DEF Elems
      <3> QED BY <3>1, <3>2 DEF Elems
    <2>2. \A k \in Elems(stored) \cap Of(w) : promise'.from < k => k \in Past' \cup Elems(q)
      BY <1>3, <1>7, <1>10, <1>15, <1>16, <2>1 DEF Past
    <2>3. ASSUME NEW i \in DOMAIN q, NEW k \in Of(w), promise'.from < k, k < q[i]
          PROVE  k \in Past' \/ \E j \in 1..i-1 : q[j] = k
      <3>1. k \in Nat /\ k > 0 /\ Len(mark) \in 0..1 /\ Len(sent) \in Nat
        BY <1>5, <1>7, Numbers DEF IndInv
      <3>2. PICK m \in 1..Len(sent) : i = Len(mark) + m /\ q[i] = sent[m]
        <4>1. ~(i \in 1..Len(mark))
          BY <1>8, <2>3, <3>1
        <4>2. i - Len(mark) \in 1..Len(sent) /\ i = Len(mark) + (i - Len(mark))
          BY <1>8, <2>3, <3>1, <4>1
        <4>3. q[i] = sent[i - Len(mark)]
          BY <1>8, <4>2
        <4> QED BY <4>2, <4>3
      <3>3. CASE k <= since
        BY <1>15, <2>3, <3>3
      <3>4. CASE k > since
        <4>1. k \in raced \/ \E j \in 1..m-1 : sent[j] = k
          BY <1>7, <2>3, <3>2, <3>4
        <4>2. ASSUME NEW j \in 1..m-1, sent[j] = k PROVE \E l \in 1..i-1 : q[l] = k
          <5>1. Len(mark) + j \in 1..i-1 /\ j \in 1..Len(sent)
            BY <3>1, <3>2
          <5>2. q[Len(mark) + j] = sent[j]
            BY <1>8, <5>1
          <5> QED BY <4>2, <5>1, <5>2
        <4> QED BY <1>2, <4>1, <4>2 DEF Past
      <3> QED BY <1>3, <3>1, <3>3, <3>4
    <2>4. OnItsWay(stream[internal])'
      <3>1. internal' = s /\ stream'[internal'] = e /\ e.ws = w /\ e.owed = {} /\ e.queue = q
        BY <1>2, <1>4, <1>9, <1>11
      <3>2. Elems(q) \ {0} \subseteq Elems(stored) \cap Of(w)
        BY <1>7, <2>1
      <3>3. Elems(stored)' \cap Of(e.ws)' = Elems(stored) \cap Of(w) /\ Of(e.ws)' = Of(w)
        BY <1>16, <3>1
      <3>4. /\ Elems(stream'[internal'].queue) = Elems(q)
            /\ \A k \in Elems(stored) \cap Of(w) :
                 promise'.from < k => k \in Past' \cup Elems(q) \cup e.owed
        BY <2>2, <3>1
      <3> HIDE DEF Past, Elems
      <3> QED BY <2>3, <3>1, <3>2, <3>3, <3>4 DEF OnItsWay
    <2> QED BY <1>2, <1>4, <1>14, <2>4 DEF Connected, config
  <1> QED BY <1>11, <1>12, <1>13, <1>18, <1>19 DEF IndInv

(* The next event on its way arrives: what it had in front of it is past.  *)
LEMMA MessageOK == ASSUME IndInv, NEW s \in Slots, Message(s) PROVE IndInv'
  <1>1. PICK k, q, e :
          /\ k = Head(stream[s].queue) /\ q = Tail(stream[s].queue)
          /\ e = [stream[s] EXCEPT !.queue = q,
                                   !.seq = IF k > stream[s].seq THEN k ELSE stream[s].seq]
    OBVIOUS
  <1>2. /\ stream[s].socket = "up" /\ stream[s].queue # <<>>
        /\ stream' = [stream EXCEPT ![s] = e] /\ sequence' = k /\ heard' = heard \cup ({k} \ {0})
        /\ UNCHANGED <<agent, config, internal, told, lost, raced, skipped, promise, moves>>
    <2>1. /\ stream[s].socket = "up" /\ stream[s].queue # <<>>
          /\ sequence' = k /\ heard' = heard \cup ({k} \ {0})
          /\ UNCHANGED <<agent, config, internal, told, lost, raced, skipped, promise, moves>>
      BY <1>1 DEF Message
    <2>2. stream' = [stream EXCEPT ![s] =
                      [stream[s] EXCEPT !.queue = Tail(stream[s].queue),
                                        !.seq = IF k > stream[s].seq THEN k ELSE stream[s].seq]]
      BY <1>1 DEF Message
    <2> QED BY <1>1, <2>1, <2>2
  <1>3. s = internal /\ s # 0 /\ stream[s].ws = workspace /\ stream[s] \in EventStreams
        /\ ~stream[s].timer /\ ~stream[s].closed /\ told = stream[s].status
    BY <1>2, BoundsAreNat DEF IndInv, OneStream, StatusIsCurrent, Idle, Slots, TypeOK
  <1>4. promise.ws = workspace /\ OnItsWay(stream[s])
    BY <1>2, <1>3 DEF IndInv, Connected
  <1> PICK p, w : p = stream[s].queue /\ w = workspace
    OBVIOUS
  <1>5. /\ p \in Seq(0..MaxSeq) /\ Len(p) \in Nat \ {0} /\ k = p[1] /\ k \in 0..MaxSeq
        /\ q \in Seq(0..MaxSeq) /\ Len(q) = Len(p) - 1 /\ \A i \in 1..Len(q) : q[i] = p[i+1]
    <2>1. p \in Seq(0..MaxSeq) /\ p # <<>> /\ k = Head(p) /\ q = Tail(p)
      BY <1>1, <1>2, <1>3 DEF EventStreams
    <2>2. /\ Len(p) \in Nat \ {0} /\ k = p[1] /\ 1 \in 1..Len(p)
          /\ q \in Seq(0..MaxSeq) /\ Len(q) = Len(p) - 1
      <3>1. Len(p) \in Nat \ {0} /\ k = p[1]
        BY <2>1
      <3>2. q \in Seq(0..MaxSeq) /\ Len(q) = Len(p) - 1
        BY <2>1, HeadTailProperties
      <3> QED BY <3>1, <3>2
    <2>3. \A i \in 1..Len(q) : q[i] = p[i+1]
      BY <2>1, HeadTailProperties
    <2>4. k \in 0..MaxSeq
      BY <2>1, HeadTailProperties
    <2> QED BY <2>1, <2>2, <2>3, <2>4
  <1>6. /\ e \in EventStreams /\ e.ws = w /\ e.closed = stream[s].closed
        /\ e.status = stream[s].status /\ e.socket = "up" /\ ~e.timer
        /\ e.queue = q /\ e.owed = stream[s].owed
        /\ e.seq = IF k > stream[s].seq THEN k ELSE stream[s].seq
    <2>1. (IF k > stream[s].seq THEN k ELSE stream[s].seq) \in 0..MaxSeq
      BY <1>3, <1>5 DEF EventStreams
    <2> QED BY <1>1, <1>2, <1>3, <1>5, <2>1 DEF EventStreams
  <1>7. /\ (StreamTypes /\ OneStream /\ StatusIsCurrent /\ Idle)'
        /\ stream'[s] = e /\ \A t \in Slots : t # s => stream'[t] = stream[t]
    <2>1. Tell(s, e.status) /\ UNCHANGED <<internal, workspace>>
      BY <1>2, <1>3, <1>6 DEF Tell, config
    <2> QED BY <1>2, <1>3, <1>6, <2>1, SlotOK
  <1>8. TypeOK'
    <2>1. heard' \in SUBSET (1..MaxSeq) /\ sequence' \in 0..MaxSeq
      BY <1>2, <1>5, BoundsAreNat DEF IndInv, TypeOK
    <2> QED BY <1>2, <1>7, <2>1 DEF IndInv, TypeOK, StreamTypes, agent, config
  <1>9. Overtaken'
    BY <1>2 DEF IndInv, Overtaken, Of, agent
  <1>10. /\ Of(w)' = Of(w) /\ Of(w) \subseteq 1..Len(event) /\ Elems(stored)' = Elems(stored)
         /\ promise.from \in Nat /\ promise' = promise /\ Len(event) \in Nat /\ event' = event
         /\ Past \subseteq Past' /\ (k # 0 => k \in Past' /\ k \in Of(w))
    <2>1. k # 0 => k \in Of(w)
      <3>1. k \in Elems(p)
        BY <1>5 DEF Elems
      <3> QED BY <1>3, <1>4, <3>1 DEF OnItsWay
    <2> QED BY <1>2, <1>8, <2>1, Numbers, BoundsAreNat DEF Of, Elems, agent, IndInv, TypeOK, Past
  <1>11. ASSUME NEW n \in {k, stream[s].seq}, w \in Workspaces
         PROVE  /\ \A j \in Of(w) : promise.from < j /\ j <= n => j \in Past'
                /\ n <= promise.from \/ n <= Len(event)
    <2>1. CASE n = stream[s].seq
      BY <1>3, <1>4, <1>10, <1>11, <2>1 DEF IndInv, Cursors, Known, Behind
    <2>2. CASE n = k
      <3>1. \A j \in Of(w) : promise.from < j /\ j < k => j \in Past
        <4>1. 1 \in DOMAIN p
          BY <1>5
        <4> QED BY <1>3, <1>4, <1>5, <4>1 DEF OnItsWay
      <3>2. k <= Len(event)
        BY <1>5, <1>10
      <3> QED BY <1>5, <1>10, <2>2, <3>1, <3>2
    <2> QED BY <1>11, <2>1, <2>2
  <1>12. Cursors'
    <2>1. stream'[internal'].seq \in {k, stream[s].seq} /\ sequence' = k /\ k <= stream'[internal'].seq
      BY <1>2, <1>3, <1>5, <1>6, <1>7 DEF EventStreams
    <2> QED BY <1>3, <1>4, <1>10, <1>11, <2>1 DEF Cursors, Known, Behind, Of
  <1>13. OnItsWay(stream[internal])'
    <2>1. Elems(p) \ {0} \subseteq Elems(q) \cup ({k} \ {0}) /\ Elems(q) \subseteq Elems(p)
      <3>1. \A i \in 1..Len(p) : i = 1 \/ (i - 1 \in 1..Len(q) /\ i = (i - 1) + 1)
        BY <1>5
      <3>2. \A i \in 1..Len(q) : i + 1 \in 1..Len(p)
        BY <1>5
      <3>3. \A i \in 1..Len(p) : i = 1 \/ p[i] = q[i-1]
        BY <1>5, <3>1
      <3>4. \A i \in 1..Len(p) : p[i] \in {k} \cup Elems(q)
        BY <1>5, <3>1, <3>3 DEF Elems
      <3>5. \A i \in 1..Len(q) : q[i] \in Elems(p)
        BY <1>5, <3>2 DEF Elems
      <3> QED BY <3>4, <3>5 DEF Elems
    <2>2. \A j \in Elems(stored) \cap Of(w) : promise.from < j => j \in Past' \cup Elems(q) \cup e.owed
      BY <1>3, <1>4, <1>6, <1>10, <2>1 DEF OnItsWay
    <2>3. ASSUME NEW i \in DOMAIN q, NEW j \in Of(w), promise.from < j, j < q[i]
          PROVE  j \in Past' \/ \E l \in 1..i-1 : q[l] = j
      <3>1. i \in 1..Len(q) /\ i + 1 \in DOMAIN p /\ q[i] = p[i+1] /\ i \in Nat
        BY <1>5
      <3>2. j \in Past \/ \E l \in 1..i : p[l] = j
        BY <1>3, <1>4, <2>3, <3>1 DEF OnItsWay
      <3>3. ASSUME NEW l \in 1..i, p[l] = j PROVE j \in Past' \/ \E m \in 1..i-1 : q[m] = j
        <4>1. CASE l = 1
          BY <1>5, <1>10, <3>3, <4>1
        <4>2. CASE l # 1
          <5>1. l - 1 \in 1..i-1 /\ l - 1 \in 1..Len(q) /\ l = (l - 1) + 1
            BY <1>5, <3>1, <4>2
          <5>2. q[l-1] = p[l]
            BY <1>5, <5>1
          <5> QED BY <3>3, <5>1, <5>2
        <4> QED BY <4>1, <4>2
      <3> QED BY <1>10, <3>2, <3>3
    <2>4. internal' = s /\ stream'[internal'] = e /\ Of(e.ws)' = Of(w)
          /\ Elems(stored)' \cap Of(e.ws)' = Elems(stored) \cap Of(w)
      BY <1>2, <1>3, <1>6, <1>7, <1>10
    <2>5. Elems(q) \ {0} \subseteq Elems(stored) \cap Of(w) /\ e.owed \subseteq Elems(stored) \cap Of(w)
      BY <1>3, <1>4, <1>6, <2>1 DEF OnItsWay
    <2> HIDE DEF Past, Elems
    <2> QED BY <1>6, <1>10, <2>2, <2>3, <2>4, <2>5 DEF OnItsWay
  <1>14. Connected'
    BY <1>2, <1>4, <1>13 DEF Connected, config
  <1> QED BY <1>7, <1>8, <1>9, <1>12, <1>14 DEF IndInv

(* A new number lies behind every known one and behind all on its way.     *)
LEMMA TakeOK == ASSUME IndInv, NEW w \in Workspaces, Take(w) PROVE IndInv'
  <1>1. event' = Append(event, w) /\ Len(event) < MaxSeq
        /\ UNCHANGED <<up, stored, crashes, config, sequence, internal, told, stream, history>>
    BY DEF Take
  <1>2. event' \in Seq(Workspaces) /\ Len(event') = Len(event) + 1
        /\ \A k \in 1..Len(event) : event'[k] = event[k]
    BY <1>1 DEF IndInv, TypeOK
  <1>3. /\ Len(event) \in Nat /\ DOMAIN event = 1..Len(event) /\ DOMAIN event' = 1..Len(event)+1
        /\ Elems(stored) \subseteq 1..Len(event) /\ DOMAIN stored = 1..Len(stored)
    BY <1>2, Numbers DEF IndInv
  <1>4. TypeOK'
    <2>1. stored' \in Seq(DOMAIN event')
      BY <1>1, <1>3 DEF IndInv, TypeOK
    <2> QED BY <1>1, <1>2, <1>3, <2>1, BoundsAreNat DEF IndInv, TypeOK, config, history, fates
  <1>5. (OneStream /\ StatusIsCurrent /\ Idle)'
    BY <1>1 DEF IndInv, OneStream, StatusIsCurrent, Idle, config
  <1>6. \A v : \A k \in 1..Len(event) : k \in Of(v)' <=> k \in Of(v)
    BY <1>2, <1>3 DEF Of
  <1>7. \A v : \A k \in Of(v)' : k \in Of(v) \/ k = Len(event) + 1
    BY <1>2, <1>3 DEF Of
  <1>8. Overtaken'
    <2>1. stored' = stored /\ raced' = raced
      BY <1>1 DEF history, fates
    <2>2. ASSUME NEW j \in DOMAIN stored, NEW k \in DOMAIN event',
                 event'[k] = event'[stored[j]], k < stored[j]
          PROVE  k \in raced \/ \E i \in 1..j-1 : stored[i] = k
      <3>1. stored[j] \in 1..Len(event)
        BY <1>3 DEF Elems
      <3>2. k \in 1..Len(event)
        BY <1>3, <2>2, <3>1
      <3>3. event'[k] = event[k] /\ event'[stored[j]] = event[stored[j]]
        BY <1>2, <3>1, <3>2
      <3>4. k \in Of(event[stored[j]])
        BY <1>3, <2>2, <3>2, <3>3 DEF Of
      <3> QED BY <2>2, <3>4 DEF IndInv, Overtaken
    <2> QED BY <2>1, <2>2 DEF Overtaken, Of
  <1>9. \A n \in 0..MaxSeq : Known(n) => Known(n)'
    <2> SUFFICES ASSUME NEW n \in 0..MaxSeq, promise.ws \in Workspaces,
                        Behind(n), n <= promise.from \/ n <= Len(event)
                 PROVE  Behind(n)' /\ (n <= promise.from \/ n <= Len(event'))
      BY <1>1 DEF Known, history
    <2>1. promise.from \in Nat /\ n \in Nat
      BY BoundsAreNat DEF IndInv, TypeOK
    <2>2. ASSUME NEW k \in Of(promise.ws)', promise.from < k, k <= n PROVE k \in Past
      <3>1. k \in Of(promise.ws)
        BY <1>1, <1>3, <1>7, <2>1, <2>2 DEF history
      <3> QED BY <2>2, <3>1 DEF Behind
    <2> QED BY <1>1, <1>2, <1>3, <2>1, <2>2 DEF Behind, Of, Past, history, fates
  <1>10. Cursors'
    <2>1. sequence \in 0..MaxSeq /\ (internal # 0 => stream[internal].seq \in 0..MaxSeq)
      BY DEF IndInv, TypeOK, EventStreams
    <2> QED BY <1>1, <1>9, <2>1 DEF IndInv, Cursors, Known, Behind, Past, Of
  <1>11. Connected'
    <2> SUFFICES ASSUME internal # 0, stream[internal].socket = "up" PROVE OnItsWay(stream[internal])'
      BY <1>1 DEF IndInv, Connected, config, history
    <2> PICK e : e = stream[internal]
      OBVIOUS
    <2>1. OnItsWay(e) /\ e \in EventStreams
      BY DEF IndInv, Connected, TypeOK
    <2>2. Elems(stored) \cap Of(e.ws)' = Elems(stored) \cap Of(e.ws)
      BY <1>3, <1>6, <1>7
    <2>3. ASSUME NEW i \in DOMAIN e.queue, NEW k \in Of(e.ws)', k < e.queue[i] PROVE k \in Of(e.ws)
      <3>1. e.queue[i] \in 0..Len(event)
        <4>1. e.queue[i] \in Elems(e.queue)
          BY <2>1 DEF EventStreams, Elems
        <4> QED BY <1>3, <2>1, <4>1 DEF OnItsWay
      <3> QED BY <1>3, <1>7, <2>3, <3>1
    <2>4. stream'[internal'] = e /\ promise' = promise /\ Past' = Past /\ Elems(stored)' = Elems(stored)
      BY <1>1 DEF history, fates, Past, Elems
    <2> HIDE DEF Past, Elems
    <2> QED BY <2>1, <2>2, <2>3, <2>4 DEF OnItsWay
  <1> QED BY <1>4, <1>5, <1>8, <1>10, <1>11 DEF IndInv

(* An event stored is owed to the connection of its workspace; the lower   *)
(* numbers not stored yet are overtaken.                                   *)
LEMMA StoreOK == ASSUME IndInv, NEW n \in 1..MaxSeq, Store(n) PROVE IndInv'
  <1> DEFINE F(s) == IF stream[s].socket = "up" /\ stream[s].ws = event[n]
                     THEN [stream[s] EXCEPT !.owed = @ \cup {n}] ELSE stream[s]
  <1>1. /\ n \in DOMAIN event /\ n \notin Elems(stored) /\ stored' = Append(stored, n)
        /\ stream' = [s \in Slots |-> F(s)]
        /\ raced' = raced \cup {k \in Of(event[n]) \ Elems(stored) : k < n}
        /\ UNCHANGED <<up, event, crashes, config, sequence, internal, told, heard, lost, skipped,
                       promise, moves>>
    BY DEF Store
  <1>2. /\ Len(event) \in Nat /\ Len(event) <= MaxSeq /\ DOMAIN event = 1..Len(event)
        /\ Len(stored) \in Nat /\ stored' \in Seq(DOMAIN event') /\ Len(stored') = Len(stored) + 1
        /\ DOMAIN stored = 1..Len(stored) /\ DOMAIN stored' = 1..Len(stored)+1
        /\ (\A i \in 1..Len(stored) : stored'[i] = stored[i]) /\ stored'[Len(stored)+1] = n
    BY <1>1, Numbers DEF IndInv, TypeOK
  <1>3. Elems(stored)' = Elems(stored) \cup {n}
    BY <1>2 DEF Elems
  <1>4. \A s \in Slots :
          /\ F(s) \in EventStreams /\ F(s).ws = stream[s].ws /\ F(s).seq = stream[s].seq
          /\ F(s).closed = stream[s].closed /\ F(s).timer = stream[s].timer
          /\ F(s).status = stream[s].status /\ F(s).socket = stream[s].socket
          /\ F(s).queue = stream[s].queue
          /\ F(s).owed = IF stream[s].socket = "up" /\ stream[s].ws = event[n]
                         THEN stream[s].owed \cup {n} ELSE stream[s].owed
    BY DEF IndInv, TypeOK, EventStreams
  <1> HIDE DEF F
  <1>5. \A s \in Slots : stream'[s] = F(s)
    BY <1>1
  <1>6. TypeOK'
    <2>1. stream' \in [Slots -> EventStreams]
      BY <1>1, <1>4
    <2>2. raced' \in SUBSET (1..MaxSeq)
      <3>1. Of(event[n]) \subseteq 1..MaxSeq
        BY <1>2, BoundsAreNat DEF Of
      <3> QED BY <1>1, <3>1 DEF IndInv, TypeOK
    <2>3. \A i, j \in DOMAIN stored' : stored'[i] = stored'[j] => i = j
      <3>1. \A i \in 1..Len(stored) : stored[i] # n
        BY <1>1 DEF Elems
      <3>2. \A i, j \in 1..Len(stored) : stored[i] = stored[j] => i = j
        BY <1>2 DEF IndInv, TypeOK
      <3> QED BY <1>2, <3>1, <3>2
    <2> QED BY <1>1, <1>2, <2>1, <2>2, <2>3 DEF IndInv, TypeOK, config
  <1>7. (OneStream /\ StatusIsCurrent /\ Idle)'
    <2>1. internal # 0 => internal \in Slots
      BY DEF IndInv, TypeOK
    <2>2. OneStream'
      BY <1>1, <1>4, <1>5 DEF IndInv, OneStream, config
    <2>3. StatusIsCurrent'
      BY <1>1, <1>4, <1>5, <2>1 DEF IndInv, StatusIsCurrent
    <2>4. Idle'
      BY <1>4, <1>5 DEF IndInv, Idle
    <2> QED BY <2>2, <2>3, <2>4
  <1>8. Overtaken'
    <2> SUFFICES ASSUME NEW j \in DOMAIN stored', NEW k \in Of(event[stored'[j]]), k < stored'[j]
                 PROVE  k \in raced' \/ \E i \in 1..j-1 : stored'[i] = k
      BY <1>1 DEF Overtaken, Of
    <2>1. CASE j = Len(stored) + 1
      <3>1. k \in Of(event[n]) /\ k < n /\ j - 1 = Len(stored)
        BY <1>2, <2>1
      <3>2. CASE k \in Elems(stored)
        BY <1>2, <3>1, <3>2 DEF Elems
      <3>3. CASE k \notin Elems(stored)
        BY <1>1, <3>1, <3>3
      <3> QED BY <3>2, <3>3
    <2>2. CASE j # Len(stored) + 1
      <3>1. j \in DOMAIN stored /\ stored'[j] = stored[j] /\ j \in 1..Len(stored)
        BY <1>2, <2>2
      <3>2. k \in raced \/ \E i \in 1..j-1 : stored[i] = k
        BY <3>1 DEF IndInv, Overtaken
      <3>3. \A i \in 1..j-1 : stored'[i] = stored[i]
        BY <1>2, <3>1
      <3> QED BY <1>1, <3>2, <3>3
    <2> QED BY <2>1, <2>2
  <1>9. Past \subseteq Past'
    BY <1>1 DEF Past
  <1>10. Cursors'
    <2>1. internal # 0 => stream'[internal'].seq = stream[internal].seq
      BY <1>1, <1>4, <1>5 DEF IndInv, TypeOK
    <2> QED BY <1>1, <1>9, <2>1 DEF IndInv, Cursors, Known, Behind, Of
  <1>11. Connected'
    <2> SUFFICES ASSUME internal # 0, stream'[internal].socket = "up"
                 PROVE  promise.ws = workspace /\ OnItsWay(stream[internal])'
      BY <1>1 DEF Connected, config
    <2> PICK d, e : d = stream[internal] /\ e = stream'[internal]
      OBVIOUS
    <2>1. internal \in Slots /\ d.socket = "up" /\ promise.ws = workspace /\ OnItsWay(d)
      BY <1>4, <1>5 DEF IndInv, Connected, TypeOK
    <2>2. e.ws = d.ws /\ e.queue = d.queue
          /\ e.owed = IF d.ws = event[n] THEN d.owed \cup {n} ELSE d.owed
      BY <1>4, <1>5, <2>1
    <2>3. Of(e.ws)' = Of(d.ws) /\ promise' = promise /\ internal' = internal
      BY <1>1, <2>2 DEF Of
    <2>4. n \in Of(d.ws) <=> d.ws = event[n]
      BY <1>1 DEF Of
    <2>5. /\ e.owed \subseteq Elems(stored)' \cap Of(d.ws)
          /\ Elems(e.queue) \ {0} \subseteq Elems(stored)' \cap Of(d.ws)
      BY <1>3, <2>1, <2>2, <2>4 DEF OnItsWay
    <2>6. \A k \in Elems(stored)' \cap Of(d.ws) :
            promise.from < k => k \in Past' \cup Elems(e.queue) \cup e.owed
      BY <1>3, <1>9, <2>1, <2>2, <2>4 DEF OnItsWay
    <2>7. \A i \in DOMAIN e.queue : \A k \in Of(d.ws) :
            promise.from < k /\ k < e.queue[i] => k \in Past' \/ \E j \in 1..i-1 : e.queue[j] = k
      BY <1>9, <2>1, <2>2 DEF OnItsWay
    <2> HIDE DEF Past, Elems
    <2> QED BY <2>1, <2>3, <2>5, <2>6, <2>7 DEF OnItsWay
  <1> QED BY <1>6, <1>7, <1>8, <1>10, <1>11 DEF IndInv

(* A turn of the send loop that takes the connection d, in the slot s, to  *)
(* e with q on its way.                                                    *)
Sending(s, n, d, q, e, sent) ==
    /\ sent \in BOOLEAN
    /\ e = [d EXCEPT !.owed = d.owed \ {n}, !.queue = q]
    /\ stream' = [stream EXCEPT ![s] = e]
    /\ sent => /\ q = Append(d.queue, n) /\ lost' = lost
               /\ raced' = raced \cup {k \in d.owed : k < n}
    /\ ~sent => /\ q = d.queue \/ q = Append(d.queue, 0)
                /\ lost' = lost \cup {n} /\ raced' = raced

(* An event sent joins what is on its way, overtaking the lower numbers    *)
(* still owed, or is dropped.                                              *)
LEMMA SendOK == ASSUME IndInv, NEW s \in Slots, NEW n \in 1..MaxSeq, Send(s, n) PROVE IndInv'
  <1> PICK d, w : d = stream[s] /\ w = workspace
    OBVIOUS
  <1>1. n \in d.owed
        /\ UNCHANGED <<agent, config, sequence, internal, told, heard, skipped, promise, moves>>
    BY DEF Send
  <1>2. /\ s = internal /\ s # 0 /\ d.ws = w /\ d \in EventStreams /\ d.socket = "up"
        /\ ~d.timer /\ ~d.closed /\ told = d.status /\ promise.ws = w /\ OnItsWay(d)
    <2>1. d.socket = "up"
      BY <1>1 DEF IndInv, Idle
    <2>2. s = internal /\ s # 0
      BY <2>1, BoundsAreNat DEF IndInv, OneStream, Slots
    <2> QED BY <2>1, <2>2 DEF IndInv, OneStream, StatusIsCurrent, Idle, Connected, TypeOK
  <1>3. PICK q, e, sent : Sending(s, n, d, q, e, sent)
    <2>1. \/ /\ stream' = [stream EXCEPT ![s] =
                             [d EXCEPT !.owed = d.owed \ {n}, !.queue = Append(d.queue, n)]]
             /\ raced' = raced \cup {k \in d.owed : k < n} /\ lost' = lost
          \/ /\ \E gap \in {<<>>, <<0>>} :
                   stream' = [stream EXCEPT ![s] =
                                [d EXCEPT !.owed = d.owed \ {n}, !.queue = d.queue \o gap]]
             /\ lost' = lost \cup {n} /\ raced' = raced
      BY DEF Send
    <2>2. d.queue \o <<>> = d.queue /\ d.queue \o <<0>> = Append(d.queue, 0)
      <3>1. d.queue \in Seq(0..MaxSeq) /\ 0 \in 0..MaxSeq
        BY <1>2, BoundsAreNat DEF EventStreams
      <3> QED BY <3>1, AppendIsConcat, ConcatEmptySeq
    <2> DEFINE e(q) == [d EXCEPT !.owed = d.owed \ {n}, !.queue = q]
    <2>3. \/ /\ stream' = [stream EXCEPT ![s] = e(Append(d.queue, n))]
             /\ raced' = raced \cup {k \in d.owed : k < n} /\ lost' = lost
          \/ /\ \E q \in {d.queue, Append(d.queue, 0)} : stream' = [stream EXCEPT ![s] = e(q)]
             /\ lost' = lost \cup {n} /\ raced' = raced
      BY <2>1, <2>2
    <2> HIDE DEF e
    <2>4. CASE /\ stream' = [stream EXCEPT ![s] = e(Append(d.queue, n))]
               /\ raced' = raced \cup {k \in d.owed : k < n} /\ lost' = lost
      <3>1. Sending(s, n, d, Append(d.queue, n), e(Append(d.queue, n)), TRUE)
        BY <2>4 DEF Sending, e
      <3> QED BY <3>1
    <2>5. ASSUME NEW q \in {d.queue, Append(d.queue, 0)}, stream' = [stream EXCEPT ![s] = e(q)],
                 lost' = lost \cup {n} /\ raced' = raced
          PROVE  \E p, x, sent : Sending(s, n, d, p, x, sent)
      <3>1. Sending(s, n, d, q, e(q), FALSE)
        BY <2>5 DEF Sending, e
      <3> QED BY <3>1
    <2> QED BY <2>3, <2>4, <2>5
  <1>4. /\ d.queue \in Seq(0..MaxSeq) /\ Len(d.queue) \in Nat /\ q \in Seq(0..MaxSeq)
        /\ DOMAIN d.queue = 1..Len(d.queue) /\ DOMAIN q = 1..Len(q)
        /\ \A i \in 1..Len(d.queue) : i \in 1..Len(q) /\ q[i] = d.queue[i]
        /\ \A i \in 1..Len(q) : i \in 1..Len(d.queue)
                                \/ (i = Len(d.queue) + 1 /\ q[i] = IF sent THEN n ELSE 0)
        /\ sent => Len(d.queue) + 1 \in 1..Len(q) /\ q[Len(d.queue) + 1] = n
    <2>1. d.queue \in Seq(0..MaxSeq) /\ Len(d.queue) \in Nat /\ n \in 0..MaxSeq /\ 0 \in 0..MaxSeq
          /\ DOMAIN d.queue = 1..Len(d.queue)
      BY <1>2, BoundsAreNat DEF EventStreams
    <2>2. CASE sent
      <3>1. q = Append(d.queue, n)
        BY <1>3, <2>2 DEF Sending
      <3> QED BY <2>1, <2>2, <3>1
    <2>3. CASE ~sent /\ q = d.queue
      BY <2>1, <2>3
    <2>4. CASE ~sent /\ q = Append(d.queue, 0)
      BY <2>1, <2>4
    <2> QED BY <1>3, <2>2, <2>3, <2>4 DEF Sending
  <1>5. /\ e \in EventStreams /\ e.ws = w /\ e.seq = d.seq /\ e.closed = d.closed
        /\ e.timer = d.timer /\ e.status = d.status /\ e.socket = "up"
        /\ e.queue = q /\ e.owed = d.owed \ {n}
    BY <1>2, <1>3, <1>4 DEF EventStreams, Sending
  <1>6. /\ (StreamTypes /\ OneStream /\ StatusIsCurrent /\ Idle)'
        /\ stream'[s] = e /\ \A t \in Slots : t # s => stream'[t] = stream[t]
    <2>1. Tell(s, e.status) /\ UNCHANGED <<internal, workspace>>
      BY <1>1, <1>2, <1>5 DEF Tell, config
    <2> QED BY <1>2, <1>3, <1>5, <2>1, SlotOK DEF Sending
  <1>7. TypeOK'
    <2>1. lost' \in SUBSET (1..MaxSeq) /\ raced' \in SUBSET (1..MaxSeq)
      BY <1>2, <1>3 DEF IndInv, TypeOK, EventStreams, Sending
    <2> QED BY <1>1, <1>6, <2>1 DEF IndInv, TypeOK, StreamTypes, agent, config
  <1>8. Past \subseteq Past' /\ raced \subseteq raced' /\ (~sent => n \in Past')
        /\ (sent => \A k \in d.owed : k < n => k \in Past')
    BY <1>1, <1>3 DEF Past, Sending
  <1>9. Overtaken'
    BY <1>1, <1>8 DEF IndInv, Overtaken, Of, agent
  <1>10. Cursors'
    <2>1. stream'[internal'].seq = stream[internal].seq /\ sequence' = sequence /\ event' = event
          /\ promise' = promise /\ internal' = internal
      BY <1>1, <1>2, <1>5, <1>6 DEF agent
    <2> QED BY <1>8, <2>1 DEF IndInv, Cursors, Known, Behind, Of
  <1>11. OnItsWay(stream[internal])'
    <2>1. /\ internal' = s /\ stream'[internal'] = e /\ Of(e.ws)' = Of(w) /\ promise' = promise
          /\ Elems(stored)' = Elems(stored) /\ Of(w) \subseteq Nat /\ promise.from \in Nat
      BY <1>1, <1>2, <1>5, <1>6, Numbers, BoundsAreNat DEF Of, Elems, agent, IndInv, TypeOK
    <2>2. n \in Elems(stored) \cap Of(w) /\ n \in Nat
      BY <1>1, <1>2 DEF OnItsWay
    <2>3. Elems(q) \ {0} \subseteq Elems(stored) \cap Of(w)
      <3>1. \A i \in 1..Len(q) : q[i] \in Elems(d.queue) \cup {n, 0}
        BY <1>4 DEF Elems
      <3>2. Elems(q) \subseteq Elems(d.queue) \cup {n, 0}
        BY <1>4, <3>1 DEF Elems
      <3> QED BY <1>2, <2>2, <3>2 DEF OnItsWay
    <2>4. \A k \in Elems(stored) \cap Of(w) : promise.from < k => k \in Past' \cup Elems(q) \cup e.owed
      <3>1. Elems(d.queue) \subseteq Elems(q) /\ (sent => n \in Elems(q))
        BY <1>4 DEF Elems
      <3> QED BY <1>2, <1>5, <1>8, <3>1 DEF OnItsWay
    <2>5. ASSUME NEW i \in DOMAIN q, NEW k \in Of(w), promise.from < k, k < q[i]
          PROVE  k \in Past' \/ \E j \in 1..i-1 : q[j] = k
      <3>1. CASE i \in 1..Len(d.queue)
        <4>1. k \in Past \/ \E j \in 1..i-1 : d.queue[j] = k
          <5>1. i \in DOMAIN d.queue /\ k < d.queue[i] /\ k \in Of(d.ws)
            BY <1>2, <1>4, <2>5, <3>1
          <5> QED BY <1>2, <2>5, <5>1 DEF OnItsWay
        <4>2. \A j \in 1..i-1 : q[j] = d.queue[j]
          BY <1>4, <3>1
        <4> QED BY <1>8, <4>1, <4>2
      <3>2. CASE i \notin 1..Len(d.queue)
        <4>1. i = Len(d.queue) + 1 /\ q[i] = n /\ sent /\ k < n
          BY <1>4, <2>1, <2>5, <3>2
        <4>2. PICK j \in DOMAIN stored : stored[j] = n
          BY <2>2, Numbers DEF Elems, IndInv
        <4>3. k \in raced \/ k \in Elems(stored)
          <5>1. k \in Of(event[stored[j]]) /\ k < stored[j]
            BY <2>2, <2>5, <4>1, <4>2 DEF Of
          <5>2. k \in raced \/ \E i_1 \in 1..j-1 : stored[i_1] = k
            BY <5>1 DEF IndInv, Overtaken
          <5> QED BY <4>2, <5>2, Numbers DEF Elems, IndInv
        <4>4. k \in Past \/ k \in Elems(d.queue) \/ k \in d.owed
          BY <1>2, <2>5, <4>3 DEF OnItsWay, Past
        <4>5. CASE k \in Elems(d.queue)
          BY <1>4, <4>1, <4>5 DEF Elems
        <4> QED BY <1>8, <4>1, <4>4, <4>5
      <3> QED BY <3>1, <3>2
    <2>6. e.owed \subseteq Elems(stored) \cap Of(w)
      BY <1>2, <1>5 DEF OnItsWay
    <2> HIDE DEF Past, Elems
    <2> QED BY <1>5, <2>1, <2>3, <2>4, <2>5, <2>6 DEF OnItsWay
  <1>12. Connected'
    BY <1>1, <1>2, <1>11 DEF Connected, config
  <1> QED BY <1>6, <1>7, <1>9, <1>10, <1>12 DEF IndInv

(* A crash ends every promise; a restart changes nothing yet.              *)
LEMMA AgentOK == ASSUME IndInv, Crash \/ Restart PROVE IndInv'
  <1>1. CASE Crash
    <2> DEFINE e(s) == [stream[s] EXCEPT !.socket = "lost", !.queue = <<>>, !.owed = {}]
    <2>1. stream' = [s \in Slots |-> IF stream[s].socket = "up" THEN e(s) ELSE stream[s]]
      BY <1>1 DEF Crash
    <2>2. \A s \in Slots :
            /\ e(s) \in EventStreams /\ e(s).ws = stream[s].ws /\ e(s).seq = stream[s].seq
            /\ e(s).closed = stream[s].closed /\ e(s).status = stream[s].status
            /\ e(s).timer = stream[s].timer /\ e(s).socket = "lost"
            /\ e(s).queue = <<>> /\ e(s).owed = {}
      <3>1. <<>> \in Seq(0..MaxSeq) /\ {} \in SUBSET (1..MaxSeq)
        OBVIOUS
      <3> QED BY <3>1 DEF IndInv, TypeOK, EventStreams
    <2>3. /\ UNCHANGED <<config, sequence, internal, told, moves>> /\ up' \in BOOLEAN
          /\ event' = <<>> /\ stored' = <<>> /\ heard' = {} /\ lost' = {} /\ raced' = {}
          /\ skipped' = {} /\ promise' = NoPromise /\ crashes' \in 0..MaxCrashes
      <3>1. crashes \in 0..MaxCrashes /\ crashes < MaxCrashes /\ crashes' = crashes + 1
        BY <1>1 DEF Crash, IndInv, TypeOK
      <3>2. crashes' \in 0..MaxCrashes
        BY <3>1, BoundsAreNat
      <3> QED BY <1>1, <3>2 DEF Crash
    <2> HIDE DEF e
    <2>4. \A s \in Slots : stream'[s] = IF stream[s].socket = "up" THEN e(s) ELSE stream[s]
      BY <2>1
    <2>5. TypeOK'
      <3>1. stream' \in [Slots -> EventStreams]
        BY <2>1, <2>2 DEF IndInv, TypeOK
      <3>2. promise' \in [ws : Keys, from : 0..MaxSeq]
        BY <2>3, BoundsAreNat DEF NoPromise, Keys
      <3>3. event' \in Seq(Workspaces) /\ Len(event') = 0 /\ stored' \in Seq(DOMAIN event')
            /\ \A i, j \in DOMAIN stored' : stored'[i] = stored'[j] => i = j
        BY <2>3
      <3> QED BY <2>3, <3>1, <3>2, <3>3, BoundsAreNat DEF IndInv, TypeOK, config
    <2>6. internal' = internal /\ (internal # 0 => internal \in Slots)
      BY <2>3 DEF IndInv, TypeOK
    <2>7. OneStream'
      BY <2>2, <2>3, <2>4 DEF IndInv, OneStream, config
    <2>8. StatusIsCurrent' /\ Idle'
      <3>1. StatusIsCurrent'
        BY <2>2, <2>3, <2>4, <2>6 DEF IndInv, StatusIsCurrent
      <3>2. \A s \in Slots : stream[s].socket = "up" => ~stream[s].timer
        BY DEF IndInv, Idle
      <3>3. Idle'
        BY <2>2, <2>4, <3>2 DEF IndInv, Idle
      <3> QED BY <3>1, <3>3
    <2>9. Overtaken'
      BY <2>3 DEF Overtaken
    <2>10. Cursors'
      <3>1. promise'.ws \notin Workspaces
        BY <2>3, NoWorkspaceIsNone DEF NoPromise
      <3>2. internal # 0 => stream'[internal'].seq = stream[internal].seq
        BY <2>2, <2>4, <2>6
      <3> QED BY <2>3, <2>6, <3>1, <3>2 DEF IndInv, Cursors, Known
    <2>11. Connected'
      BY <2>2, <2>4, <2>6 DEF Connected
    <2> QED BY <2>5, <2>7, <2>8, <2>9, <2>10, <2>11 DEF IndInv
  <1>2. CASE Restart
    <2>1. up' = TRUE /\ UNCHANGED <<event, stored, crashes, config, sequence, internal, told, stream,
                                    history>>
      BY <1>2 DEF Restart
    <2>2. Held'
      BY <2>1, HeldStays DEF config, history
    <2>3. TypeOK' /\ Overtaken'
      BY <2>1 DEF IndInv, TypeOK, Overtaken, Of, config, history, fates
    <2> QED BY <2>2, <2>3 DEF IndInv, Held
  <1> QED BY <1>1, <1>2

(* Every step keeps the invariant.                                         *)
LEMMA NextOK == IndInv /\ [Next]_vars => IndInv'
  <1> SUFFICES ASSUME IndInv, [Next]_vars PROVE IndInv'
    OBVIOUS
  <1>1. CASE UNCHANGED vars
    <2>1. Held'
      BY <1>1, HeldStays DEF vars, agent, config, history
    <2>2. TypeOK' /\ Overtaken'
      BY <1>1 DEF vars, IndInv, TypeOK, Overtaken, Of, agent, config, history, fates
    <2> QED BY <2>1, <2>2 DEF IndInv, Held
  <1>2. CASE Next
    BY <1>2, ServiceOK, AcceptOK, SocketOK, MessageOK, TakeOK, StoreOK, SendOK, AgentOK DEF Next
  <1> QED BY <1>1, <1>2

(* The invariant holds in every reachable state.                           *)
LEMMA Invariance == Spec => []IndInv
  BY InitOK, NextOK, PTL DEF Spec

(* TypeOK: the variables of the service, its streams and the agent keep    *)
(* their types.                                                            *)
THEOREM TypeCorrect == Spec => []TypeOK
  BY Invariance, PTL DEF IndInv

(* The service never has two live event streams, nor one on the workspace  *)
(* it left (subscribeEvents, setWorkspace, refreshEventStreamAfterConfig). *)
THEOREM OneLiveStream == Spec => []OneStream
  BY Invariance, PTL DEF IndInv

(* The status shown is that of the stream in use, whatever close events of *)
(* replaced sockets are still to come (the guard in onStatus).             *)
THEOREM StatusShown == Spec => []StatusIsCurrent
  BY Invariance, PTL DEF IndInv

(* The cursor of a service that stays on its workspace passes no event of  *)
(* a living agent but those its channel dropped and those a racing Publish *)
(* stored or sent after a higher number, through any drops, timers,        *)
(* refreshes and reopened streams (since).                                 *)
THEOREM NothingSkipped == Spec => []NoGap
  <1>1. IndInv => NoGap
    <2> SUFFICES ASSUME IndInv, internal # 0, promise.ws = workspace,
                        NEW k \in Of(workspace), promise.from < k, k <= stream[internal].seq
                 PROVE  k \in heard \cup lost \cup raced
      BY DEF NoGap
    <2>1. workspace \in Workspaces
      BY NobodysEvents DEF IndInv, TypeOK, Keys
    <2>2. Behind(stream[internal].seq)
      BY <2>1 DEF IndInv, Cursors, Known
    <2> QED BY <2>2 DEF Behind, Past
  <1> QED BY <1>1, Invariance, PTL
=============================================================================
