------------------------------ MODULE EventHub ------------------------------
(***************************************************************************)
(* The event bus of the runtime agent (internal/transport/events):         *)
(* publishers number an event, store it in the history ring under the      *)
(* lock, copy the subscribers of its workspace, and send to them after the *)
(* unlock without ever blocking.  A subscriber is one WebSocket            *)
(* connection: it registers and replays the history in one critical        *)
(* section, then drains its channel until the connection breaks.           *)
(*                                                                         *)
(* A channel is kept as feed[s], everything ever put into it, together     *)
(* with taken[s], how much of it the connection has read; the channel's    *)
(* contents are what lies between.                                         *)
(***************************************************************************)
EXTENDS Integers, Sequences, FiniteSets

CONSTANTS
    Workspaces,      \* workspace ids
    Publishers,      \* goroutines that call Publish
    Subs,            \* WebSocket connections, each subscribing at most once
    MaxHistory,      \* capacity of the history ring
    MaxSubBuffer,    \* capacity of a subscriber's channel
    MaxSubscribers,  \* maxSubscribers: registered connections at most
    MaxSeq           \* bound of the model: events published

ASSUME HubConstants == /\ Workspaces # {}
                       /\ MaxHistory \in Nat \ {0}
                       /\ MaxSubBuffer \in Nat \ {0}
                       /\ MaxSubscribers \in Nat
                       /\ MaxSeq \in Nat

VARIABLES
    sequence,      \* the atomic counter
    history, historyHead, historyCount,  \* the ring
    pc,            \* where each publisher is in Publish
    event,         \* the event it publishes
    targets,       \* the copied subscribers it has not served yet
    slow,          \* the subscriber whose channel it found full
    phase,         \* new, serving, leaving (unregistered, done open), gone, refused
    workspace, after,  \* the arguments of Subscribe
    feed, taken,   \* the channel, see above
    stored,        \* history variable: all events in the order they were stored
    joined,        \* history variable: Len(stored) when the connection subscribed
    lost           \* history variable: events dropped because the channel was full

ring == <<history, historyHead, historyCount, stored>>
pubs == <<pc, event, targets, slow>>
conns == <<phase, workspace, after, joined>>
chans == <<feed, taken, lost>>
vars == <<sequence, ring, pubs, conns, chans>>

Event == [type : {"event"}, ws : Workspaces, seq : 1..MaxSeq, by : Publishers]
NoEvent == [type |-> "none"]
GapEvent == [type |-> "gap"]
SnapshotRequired == [type |-> "snapshot.required"]
ZeroEvent == [type |-> "zero"]  \* what a receive from a closed channel yields
Message == Event \cup {GapEvent, SnapshotRequired, ZeroEvent}

Elems(q) == {q[i] : i \in 1..Len(q)}
Smaller(a, b) == IF a < b THEN a ELSE b

-----------------------------------------------------------------------------
(* The operators named ...Bug are plausible slips in the code below; the    *)
(* properties are checked to notice them, and nothing else refers to them. *)

(* BUG: reads the ring from index 0 instead of from its head.              *)
HistoryAtBug(i) == history[i - 1]

(* The history ring: the i-th oldest entry, counting from 1.               *)
HistoryAt(i) == history[(historyHead + i - 1) % MaxHistory]

(* BUG: overwrites the oldest entry and leaves the head where it was.       *)
StoreEventBug(e) ==
    /\ history' = [history EXCEPT ![(historyHead + historyCount) % MaxHistory] = e]
    /\ historyCount' = Smaller(historyCount + 1, MaxHistory)
    /\ UNCHANGED historyHead
    /\ stored' = Append(stored, e)

StoreEvent(e) ==
    /\ IF historyCount < MaxHistory
       THEN /\ history' = [history EXCEPT
                             ![(historyHead + historyCount) % MaxHistory] = e]
            /\ historyCount' = historyCount + 1
            /\ UNCHANGED historyHead
       ELSE /\ history' = [history EXCEPT ![historyHead] = e]
            /\ historyHead' = (historyHead + 1) % MaxHistory
            /\ UNCHANGED historyCount
    /\ stored' = Append(stored, e)

(* Ring positions getHistoryLocked selects, and the ascending enumeration   *)
(* of a set of positions (there is exactly one).                           *)
Matching(w, a) ==
    {i \in 1..historyCount : HistoryAt(i).ws = w /\ HistoryAt(i).seq > a}

InOrder(ps) ==
    UNION { {pick \in [1..n -> ps] :
                /\ \A i, j \in 1..n : i < j => pick[i] < pick[j]
                /\ \A k \in ps : \E i \in 1..n : pick[i] = k} : n \in 0..historyCount }

HasGap(w, a) ==
    /\ a > 0
    /\ Matching(w, a) # {}
    /\ \A i \in 1..historyCount : HistoryAt(i).ws = w => HistoryAt(i).seq > a + 1

-----------------------------------------------------------------------------
Registered == {s \in Subs : phase[s] = "serving"}
Receivers(w) == {s \in Registered : workspace[s] = w}
(* BUG: one message more than the channel holds.                           *)
RoomBug(s) == Len(feed[s]) - taken[s] <= MaxSubBuffer

Room(s) == Len(feed[s]) - taken[s] < MaxSubBuffer

Init ==
    /\ sequence = 0
    /\ history = [i \in 0..MaxHistory-1 |-> NoEvent]
    /\ historyHead = 0
    /\ historyCount = 0
    /\ pc = [p \in Publishers |-> "idle"]
    /\ event = [p \in Publishers |-> NoEvent]
    /\ targets = [p \in Publishers |-> {}]
    /\ slow = [p \in Publishers |-> {}]
    /\ phase = [s \in Subs |-> "new"]
    /\ workspace = [s \in Subs |-> CHOOSE w \in Workspaces : TRUE]
    /\ after = [s \in Subs |-> 0]
    /\ feed = [s \in Subs |-> <<>>]
    /\ taken = [s \in Subs |-> 0]
    /\ stored = <<>>
    /\ joined = [s \in Subs |-> 0]
    /\ lost = [s \in Subs |-> {}]

-----------------------------------------------------------------------------
(* Publish: the number is taken before the lock.                           *)
TakeSequence(p, w) ==
    /\ pc[p] = "idle"
    /\ sequence < MaxSeq
    /\ sequence' = sequence + 1
    /\ event' = [event EXCEPT
                   ![p] = [type |-> "event", ws |-> w, seq |-> sequence + 1, by |-> p]]
    /\ pc' = [pc EXCEPT ![p] = "numbered"]
    /\ UNCHANGED <<ring, targets, slow, conns, chans>>

(* BUG: the subscribers are copied in a critical section of their own,      *)
(* before the one that stores.                                             *)
StoreAndCopyBug(p) ==
    \/ /\ pc[p] = "numbered"
       /\ targets' = [targets EXCEPT ![p] = Receivers(event[p].ws)]
       /\ pc' = [pc EXCEPT ![p] = "copied"]
       /\ UNCHANGED <<sequence, ring, event, slow, conns, chans>>
    \/ /\ pc[p] = "copied"
       /\ StoreEvent(event[p])
       /\ pc' = [pc EXCEPT ![p] = "sending"]
       /\ UNCHANGED <<sequence, targets, event, slow, conns, chans>>

(* Publish: one critical section stores the event and copies the           *)
(* subscribers.                                                            *)
StoreAndCopy(p) ==
    /\ pc[p] = "numbered"
    /\ StoreEvent(event[p])
    /\ targets' = [targets EXCEPT ![p] = Receivers(event[p].ws)]
    /\ pc' = [pc EXCEPT ![p] = "sending"]
    /\ UNCHANGED <<sequence, event, slow, conns, chans>>

(* Publish: the loop over the copied subscribers, after the unlock.  With  *)
(* done closed and room in the channel the select may take either case.    *)
SkipGone(p, s) ==
    /\ pc[p] = "sending" /\ s \in targets[p]
    /\ phase[s] = "gone"
    /\ targets' = [targets EXCEPT ![p] = @ \ {s}]
    /\ UNCHANGED <<sequence, ring, pc, event, slow, conns, chans>>

(* BUG: the loop does not move on after a successful send.                 *)
EnqueueBug(p, s) ==
    /\ pc[p] = "sending" /\ s \in targets[p]
    /\ Room(s)
    /\ feed' = [feed EXCEPT ![s] = Append(@, event[p])]
    /\ UNCHANGED <<sequence, ring, pubs, conns, taken, lost>>

Enqueue(p, s) ==
    /\ pc[p] = "sending" /\ s \in targets[p]
    /\ Room(s)
    /\ feed' = [feed EXCEPT ![s] = Append(@, event[p])]
    /\ targets' = [targets EXCEPT ![p] = @ \ {s}]
    /\ UNCHANGED <<sequence, ring, pc, event, slow, conns, taken, lost>>

(* BUG: no default case, the send waits for room.                          *)
ChannelFullBug(p, s) ==
    /\ pc[p] = "sending" /\ s \in targets[p] /\ ~Room(s)
    /\ UNCHANGED vars

ChannelFull(p, s) ==
    /\ pc[p] = "sending" /\ s \in targets[p]
    /\ phase[s] # "gone" /\ ~Room(s)
    /\ lost' = [lost EXCEPT ![s] = @ \cup {event[p]}]
    /\ targets' = [targets EXCEPT ![p] = @ \ {s}]
    /\ slow' = [slow EXCEPT ![p] = {s}]
    /\ pc' = [pc EXCEPT ![p] = "gap"]
    /\ UNCHANGED <<sequence, ring, event, conns, feed, taken>>

(* Publish: the second select.  The gap event goes in if the connection    *)
(* drained its channel in between, and is dropped otherwise.               *)
SendGap(p, s) ==
    /\ pc[p] = "gap" /\ s \in slow[p]
    /\ \/ Room(s) /\ feed' = [feed EXCEPT ![s] = Append(@, GapEvent)]
       \/ (phase[s] = "gone" \/ ~Room(s)) /\ UNCHANGED feed
    /\ slow' = [slow EXCEPT ![p] = {}]
    /\ pc' = [pc EXCEPT ![p] = "sending"]
    /\ UNCHANGED <<sequence, ring, event, targets, conns, taken, lost>>

PublishReturn(p) ==
    /\ pc[p] = "sending" /\ targets[p] = {}
    /\ pc' = [pc EXCEPT ![p] = "idle"]
    /\ event' = [event EXCEPT ![p] = NoEvent]
    /\ UNCHANGED <<sequence, ring, targets, slow, conns, chans>>

-----------------------------------------------------------------------------
(* BUG: registers first and replays later, outside the critical section.   *)
SubscribeBug(s, w, a) ==
    \/ /\ phase[s] = "new"
       /\ Cardinality(Registered) < MaxSubscribers
       /\ phase' = [phase EXCEPT ![s] = "serving"]
       /\ workspace' = [workspace EXCEPT ![s] = w]
       /\ after' = [after EXCEPT ![s] = a]
       /\ joined' = [joined EXCEPT ![s] = Len(stored)]
       /\ UNCHANGED <<sequence, ring, pubs, chans>>
    \/ /\ phase[s] = "serving" /\ workspace[s] = w /\ after[s] = a
       /\ Len(feed[s]) < MaxHistory
       /\ \E pick \in InOrder(Matching(w, a)) :
            feed' = [feed EXCEPT ![s] =
                       @ \o [i \in 1..Smaller(Len(pick), MaxSubBuffer - Len(@)) |-> HistoryAt(pick[i])]]
       /\ UNCHANGED <<sequence, ring, pubs, conns, taken, lost>>

(* Subscribe: registration and replay under one lock.  The replay stops at *)
(* the first message that does not fit.                                    *)
Subscribe(s, w, a) ==
    /\ phase[s] = "new"
    /\ Cardinality(Registered) < MaxSubscribers
    /\ phase' = [phase EXCEPT ![s] = "serving"]
    /\ workspace' = [workspace EXCEPT ![s] = w]
    /\ after' = [after EXCEPT ![s] = a]
    /\ joined' = [joined EXCEPT ![s] = Len(stored)]
    /\ \E pick \in InOrder(Matching(w, a)) :
         LET mark == IF HasGap(w, a) THEN <<SnapshotRequired>> ELSE <<>>
             fit  == Smaller(Len(pick), MaxSubBuffer - Len(mark))
         IN  feed' = [feed EXCEPT ![s] = mark \o [i \in 1..fit |-> HistoryAt(pick[i])]]
    /\ UNCHANGED <<sequence, ring, pubs, taken, lost>>

(* Subscribe at the limit hands out a closed channel and no registration.  *)
SubscribeRefused(s, w, a) ==
    /\ phase[s] = "new"
    /\ Cardinality(Registered) >= MaxSubscribers
    /\ phase' = [phase EXCEPT ![s] = "refused"]
    /\ workspace' = [workspace EXCEPT ![s] = w]
    /\ after' = [after EXCEPT ![s] = a]
    /\ UNCHANGED <<sequence, ring, pubs, joined, chans>>

(* Serve: one turn of the read loop, a successful WriteJSON.               *)
Consume(s) ==
    /\ phase[s] = "serving"
    /\ taken[s] < Len(feed[s])
    /\ taken' = [taken EXCEPT ![s] = @ + 1]
    /\ UNCHANGED <<sequence, ring, pubs, conns, feed, lost>>

(* Serve on a closed channel: the receive succeeds at once with a zero     *)
(* event and the loop writes it; the repetitions change nothing more.      *)
ConsumeZero(s) ==
    /\ phase[s] = "refused" /\ feed[s] = <<>>
    /\ feed' = [feed EXCEPT ![s] = <<ZeroEvent>>]
    /\ taken' = [taken EXCEPT ![s] = 1]
    /\ UNCHANGED <<sequence, ring, pubs, conns, lost>>

(* Serve returns (write error or context done): unsubscribe removes the    *)
(* subscriber under the lock and closes done after the unlock.             *)
Unregister(s) ==
    /\ phase[s] = "serving"
    /\ phase' = [phase EXCEPT ![s] = "leaving"]
    /\ UNCHANGED <<sequence, ring, pubs, workspace, after, joined, chans>>

CloseDone(s) ==
    /\ phase[s] = "leaving"
    /\ phase' = [phase EXCEPT ![s] = "gone"]
    /\ UNCHANGED <<sequence, ring, pubs, workspace, after, joined, chans>>

RefusedLeaves(s) ==
    /\ phase[s] = "refused"
    /\ phase' = [phase EXCEPT ![s] = "gone"]
    /\ UNCHANGED <<sequence, ring, pubs, workspace, after, joined, chans>>

-----------------------------------------------------------------------------
Cursors == {0} \cup {e.seq : e \in Elems(stored)}

PublisherStep(p) ==
    \/ \E w \in Workspaces : TakeSequence(p, w)
    \/ StoreAndCopy(p)
    \/ \E s \in Subs : SkipGone(p, s) \/ Enqueue(p, s) \/ ChannelFull(p, s) \/ SendGap(p, s)
    \/ PublishReturn(p)

ConnectionStep(s) ==
    \/ \E w \in Workspaces, a \in Cursors : Subscribe(s, w, a) \/ SubscribeRefused(s, w, a)
    \/ Consume(s)
    \/ ConsumeZero(s)
    \/ Unregister(s)
    \/ CloseDone(s)
    \/ RefusedLeaves(s)

Next == (\E p \in Publishers : PublisherStep(p)) \/ (\E s \in Subs : ConnectionStep(s))

Spec == Init /\ [][Next]_vars

(* A goroutine inside Publish is scheduled; nothing is assumed of the      *)
(* connections, which may never read again.                                *)
PublishProceeds(p) ==
    \/ StoreAndCopy(p)
    \/ \E s \in Subs : SkipGone(p, s) \/ Enqueue(p, s) \/ ChannelFull(p, s) \/ SendGap(p, s)
    \/ PublishReturn(p)

FairPublishers == Spec /\ \A p \in Publishers : WF_vars(PublishProceeds(p))

-----------------------------------------------------------------------------
(* PROPERTIES                                                              *)

(* Every variable has its type: the ring's indices stay inside the ring, a *)
(* channel never holds more than its capacity, and a publisher's program   *)
(* counter agrees with what it carries (eventhub.go, EventHub and          *)
(* subscriber).                                                            *)
TypeOK ==
    /\ sequence \in 0..MaxSeq
    /\ history \in [0..MaxHistory-1 -> Event \cup {NoEvent}]
    /\ historyHead \in 0..MaxHistory-1
    /\ historyCount \in 0..MaxHistory
    /\ stored \in Seq(Event)
    /\ pc \in [Publishers -> {"idle", "numbered", "sending", "gap"}]
    /\ event \in [Publishers -> Event \cup {NoEvent}]
    /\ \A p \in Publishers : pc[p] # "idle" => event[p] \in Event
    /\ targets \in [Publishers -> SUBSET Subs]
    /\ slow \in [Publishers -> SUBSET Subs]
    /\ phase \in [Subs -> {"new", "serving", "leaving", "gone", "refused"}]
    /\ workspace \in [Subs -> Workspaces]
    /\ after \in [Subs -> Nat]
    /\ joined \in [Subs -> Nat]
    /\ feed \in [Subs -> Seq(Message)]
    /\ taken \in [Subs -> Nat]
    /\ \A s \in Subs : taken[s] <= Len(feed[s]) /\ Len(feed[s]) - taken[s] <= MaxSubBuffer
    /\ lost \in [Subs -> SUBSET Event]

(* The ring, read from its head, is exactly the most recently stored       *)
(* events in the order they were stored: the wrap-around of Publish and    *)
(* the index arithmetic of getHistoryLocked agree.                         *)
RingHoldsLatest ==
    /\ historyCount = Smaller(Len(stored), MaxHistory)
    /\ \A i \in 1..historyCount : HistoryAt(i) = stored[Len(stored) - historyCount + i]

(* No event reaches a subscription twice, once from the replay and once    *)
(* live, or from two turns of the send loop: registration and replay are   *)
(* one critical section, storing and copying the subscribers another.      *)
NoDuplicateDelivery ==
    \A s \in Subs : \A i, j \in 1..Len(feed[s]) :
        feed[s][i] = feed[s][j] /\ feed[s][i] \in Event => i = j

(* What Subscribe's comment at eventhub.go:129 is after: no live event is  *)
(* ahead of a replayed one.  An event is live for a subscription when it   *)
(* was stored after the subscription joined.                               *)
Live(s, e) == \E k \in joined[s]+1..Len(stored) : stored[k] = e

ReplayBeforeLive ==
    \A s \in Subs : \A i, j \in 1..Len(feed[s]) :
        /\ i < j
        /\ feed[s][i] \in Event /\ feed[s][j] \in Event
        /\ Live(s, feed[s][i])
        => Live(s, feed[s][j])

(* The events of one goroutine arrive in the order it published them, even *)
(* though events of different goroutines may be stored and delivered out   *)
(* of sequence (the number is taken before the lock, and sends follow the  *)
(* unlock).                                                                *)
PublisherOrder ==
    \A s \in Subs : \A i, j \in 1..Len(feed[s]) :
        /\ i < j
        /\ feed[s][i] \in Event /\ feed[s][j] \in Event
        /\ feed[s][i].by = feed[s][j].by
        => feed[s][i].seq < feed[s][j].seq

(* A connection that is still served has, of every event stored since it   *)
(* joined and whose Publish is past it, either the event or a record that  *)
(* its own full channel lost it: another subscriber's slowness or a racing *)
(* Subscribe never costs it an event.                                      *)
NoSilentMiss ==
    \A s \in Registered : \A k \in joined[s]+1..Len(stored) :
        LET e == stored[k] IN
        /\ e.ws = workspace[s]
        /\ \A p \in Publishers : event[p] = e => s \notin targets[p]
        => e \in Elems(feed[s]) \cup lost[s]

(* Every Publish returns, whatever the connections do: the sends are       *)
(* non-blocking, so a connection that never reads cannot stop the agent.   *)
PublishReturns == \A p \in Publishers : pc[p] # "idle" ~> pc[p] = "idle"
=============================================================================
