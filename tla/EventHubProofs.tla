--------------------------- MODULE EventHubProofs ---------------------------
(* Theorems about EventHub, for every choice of its constants: the type     *)
(* invariant, the history ring, that no subscription is sent an event       *)
(* twice, in which order it is sent them, and that none is lost silently.   *)
EXTENDS EventHub, TLAPS

(* What TypeOK alone does not say: only subscribed connections are ever     *)
(* sent to, so the channel of one that has not subscribed is empty, and     *)
(* that of a refused one holds the zero event at most.                      *)
OnlySubscribed ==
    /\ \A p \in Publishers : \A s \in targets[p] \cup slow[p] : phase[s] \notin {"new", "refused"}
    /\ \A s \in Subs : phase[s] = "new" => feed[s] = <<>> /\ taken[s] = 0
    /\ \A s \in Subs : phase[s] = "refused" =>
          (feed[s] = <<>> /\ taken[s] = 0) \/ (feed[s] = <<ZeroEvent>> /\ taken[s] = 1)

TypeInv == TypeOK /\ OnlySubscribed

-----------------------------------------------------------------------------
(* Index arithmetic of the ring: below twice the capacity a remainder is    *)
(* the number itself or the number less the capacity.                       *)
Remainder(a, m) == /\ a % m = IF a < m THEN a ELSE a - m
                   /\ a % m \in 0..m-1

(* The remainder of a number below twice the modulus, in cases.            *)
LEMMA ModCases ==
    ASSUME NEW m \in Nat \ {0}, NEW a \in 0..2*m-1 PROVE Remainder(a, m)
  <1>1. a % m \in 0..m-1
    BY SMT
  <1>2. ASSUME a < m PROVE a % m = a
    BY <1>2, SMT
  <1>3. ASSUME a >= m PROVE a % m = a - m
    BY <1>3, SMT
  <1> QED BY <1>1, <1>2, <1>3 DEF Remainder

(* A remainder is below its modulus.                                       *)
LEMMA ModRange ==
    ASSUME NEW m \in Nat \ {0}, NEW a \in Int PROVE a % m \in 0..m-1
  BY SMT

(* The markers are not events.                                             *)
LEMMA Disjoint == NoEvent \notin Event /\ GapEvent \notin Event
                  /\ SnapshotRequired \notin Event /\ ZeroEvent \notin Event
  BY DEF Event, NoEvent, GapEvent, SnapshotRequired, ZeroEvent

-----------------------------------------------------------------------------
(* The ring first: it needs no more than the types of its own variables.    *)
RingInv ==
    /\ history \in [0..MaxHistory-1 -> Event \cup {NoEvent}]
    /\ historyHead \in 0..MaxHistory-1
    /\ historyCount \in 0..MaxHistory
    /\ stored \in Seq(Event)
    /\ RingHoldsLatest

(* Storing an event keeps the ring the tail of what was stored.             *)
LEMMA StoreEventRing ==
    ASSUME RingInv, NEW e \in Event, StoreEvent(e)
    PROVE  RingInv'
  <1> USE HubConstants
  <1> DEFINE n == Len(stored)  M == MaxHistory
  <1>0. /\ n \in Nat /\ stored' = Append(stored, e) /\ Len(stored') = n + 1
        /\ stored' \in Seq(Event)
        /\ stored'[n + 1] = e
        /\ \A k \in 1..n : stored'[k] = stored[k]
    BY DEF RingInv, StoreEvent
  <1>1. CASE historyCount < M
    <2>1. /\ historyHead' = historyHead
          /\ historyCount' = historyCount + 1
          /\ history' = [history EXCEPT ![(historyHead + historyCount) % M] = e]
      BY <1>1 DEF StoreEvent
    <2>2. n = historyCount
      BY <1>0, <1>1 DEF RingInv, RingHoldsLatest, Smaller
    <2>3. (historyHead + historyCount) % M \in 0..M-1
      BY ModRange DEF RingInv
    <2>4. historyCount' = Smaller(n + 1, M)
      BY <1>1, <2>1, <2>2 DEF Smaller, RingInv
    <2>5. ASSUME NEW i \in 1..historyCount'
          PROVE  HistoryAt(i)' = stored'[i]
      <3>1. CASE i = historyCount + 1
        BY <3>1, <2>1, <2>2, <2>3, <1>0 DEF HistoryAt, RingInv
      <3>2. CASE i # historyCount + 1
        <4>1. i \in 1..historyCount /\ historyHead + i - 1 \in 0..2*M-1
              /\ historyHead + historyCount \in 0..2*M-1
          BY <3>2, <2>1, <1>1 DEF RingInv
        <4>2. (historyHead + i - 1) % M # (historyHead + historyCount) % M
          <5> DEFINE a == historyHead + i - 1  b == historyHead + historyCount
          <5>1. Remainder(a, M) /\ Remainder(b, M)
            BY <4>1, ModCases
          <5>2. a \in Int /\ b \in Int /\ a < b /\ b - a < M /\ M \in Nat
            BY <4>1, <1>1 DEF RingInv
          <5> HIDE DEF a, b, M
          <5>3. a % M # b % M
            BY <5>1, <5>2 DEF Remainder
          <5> QED BY <5>3 DEF a, b, M
        <4>3. (historyHead + i - 1) % M \in 0..M-1
          BY <4>1, ModRange DEF RingInv
        <4>4. HistoryAt(i)' = HistoryAt(i)
          BY <4>2, <4>3, <2>1 DEF HistoryAt, RingInv
        <4>5. HistoryAt(i) = stored[i]
          <5>1. HistoryAt(i) = stored[n - historyCount + i]
            BY <4>1 DEF RingInv, RingHoldsLatest
          <5>2. n - historyCount + i = i
            BY <2>2, <1>0
          <5> QED BY <5>1, <5>2
        <4>6. stored'[i] = stored[i]
          BY <4>1, <2>2, <1>0
        <4> QED BY <4>4, <4>5, <4>6
      <3> QED BY <3>1, <3>2
    <2>6. RingHoldsLatest'
      BY <2>1, <2>2, <2>4, <2>5, <1>0 DEF RingHoldsLatest, RingInv
    <2>7. history' \in [0..M-1 -> Event \cup {NoEvent}] /\ historyCount' \in 0..M
      BY <2>1, <2>3, <1>1 DEF RingInv
    <2> QED BY <2>1, <2>6, <2>7, <1>0 DEF RingInv
  <1>2. CASE ~(historyCount < M)
    <2>1. /\ historyHead' = (historyHead + 1) % M
          /\ historyCount' = historyCount
          /\ history' = [history EXCEPT ![historyHead] = e]
      BY <1>2 DEF StoreEvent
    <2>2. historyCount = M /\ n >= M
      BY <1>0, <1>2 DEF RingInv, RingHoldsLatest, Smaller
    <2>3. historyHead' \in 0..M-1
      BY <2>1, ModRange DEF RingInv
    <2>4. historyCount' = Smaller(n + 1, M)
      BY <2>1, <2>2, <1>0 DEF Smaller, RingInv
    <2>5. ASSUME NEW i \in 1..M
          PROVE  HistoryAt(i)' = stored'[n + 1 - M + i]
      <3>1. historyHead' = IF historyHead + 1 < M THEN historyHead + 1 ELSE 0
        <4>1. historyHead + 1 \in 0..2*M-1
          BY DEF RingInv
        <4>2. Remainder(historyHead + 1, M)
          BY <4>1, ModCases
        <4> QED BY <2>1, <4>2 DEF Remainder, RingInv
      <3>2. CASE i = M
        <4>1. (historyHead' + M - 1) % M = historyHead
          <5>1. CASE historyHead + 1 < M
            <6>1. historyHead' + M - 1 \in 0..2*M-1 /\ historyHead' + M - 1 = historyHead + M
              BY <5>1, <3>1 DEF RingInv
            <6>2. Remainder(historyHead' + M - 1, M)
              BY <6>1, ModCases
            <6> DEFINE a == historyHead' + M - 1
            <6>3. a \in Int /\ M \in Nat \ {0} /\ a = historyHead + M /\ historyHead \in Nat
              BY <6>1 DEF RingInv
            <6> HIDE DEF a, M
            <6>4. a % M = historyHead
              BY <6>2, <6>3 DEF Remainder, a
            <6> QED BY <6>4 DEF a
          <5>2. CASE ~(historyHead + 1 < M)
            <6>1. historyHead' + M - 1 \in 0..2*M-1 /\ historyHead' + M - 1 = historyHead
                  /\ historyHead < M
              BY <5>2, <3>1 DEF RingInv
            <6>2. Remainder(historyHead' + M - 1, M)
              BY <6>1, ModCases
            <6> QED BY <6>1, <6>2 DEF Remainder
          <5> QED BY <5>1, <5>2
        <4>2. HistoryAt(i)' = history'[historyHead]
          BY <4>1, <3>2 DEF HistoryAt
        <4>3. history'[historyHead] = e
          BY <2>1 DEF RingInv
        <4>4. n + 1 - M + i = n + 1
          BY <3>2, <1>0
        <4> QED BY <4>2, <4>3, <4>4, <1>0
      <3>3. CASE i # M
        <4>1. i + 1 \in 1..M /\ historyHead + i \in 0..2*M-1
          BY <3>3 DEF RingInv
        <4>2. (historyHead' + i - 1) % M = (historyHead + i) % M
          <5>1. CASE historyHead + 1 < M
            BY <5>1, <3>1 DEF RingInv
          <5>2. CASE ~(historyHead + 1 < M)
            <6>1. historyHead = M - 1
              BY <5>2 DEF RingInv
            <6>2. (historyHead + i) % M = historyHead + i - M
              <7>1. Remainder(historyHead + i, M)
                BY <4>1, ModCases
              <7> DEFINE a == historyHead + i
              <7>2. a \in Int /\ M \in Nat \ {0} /\ a >= M
                BY <6>1
              <7> HIDE DEF a, M
              <7>3. a % M = a - M
                BY <7>1, <7>2 DEF Remainder, a
              <7> QED BY <7>2, <7>3 DEF a, RingInv
            <6>3. (i - 1) % M = i - 1
              <7>1. i - 1 \in 0..2*M-1 /\ i - 1 < M
                OBVIOUS
              <7>2. Remainder(i - 1, M)
                BY <7>1, ModCases
              <7> QED BY <7>1, <7>2 DEF Remainder
            <6>4. historyHead' + i - 1 = i - 1
              BY <3>1, <5>2
            <6>5. historyHead + i - M = i - 1
              BY <6>1
            <6> QED BY <6>2, <6>3, <6>4, <6>5
          <5> QED BY <5>1, <5>2
        <4>3. (historyHead + i) % M # historyHead /\ (historyHead + i) % M \in 0..M-1
          <5>1. Remainder(historyHead + i, M)
            BY <4>1, ModCases
          <5> DEFINE a == historyHead + i
          <5>2. a \in Int /\ historyHead < a /\ a < historyHead + M /\ M \in Nat \ {0}
                /\ historyHead \in 0..M-1
            BY <3>3 DEF RingInv
          <5> HIDE DEF a, M
          <5>3. a % M # historyHead /\ a % M \in 0..M-1
            BY <5>1, <5>2 DEF Remainder, a
          <5> QED BY <5>3 DEF a, M
        <4>4. HistoryAt(i)' = HistoryAt(i + 1)
          <5>1. history'[(historyHead + i) % M] = history[(historyHead + i) % M]
            <6> DEFINE k == (historyHead + i) % M
            <6>1. k # historyHead /\ k \in 0..M-1
              BY <4>3
            <6> HIDE DEF k
            <6>2. history'[k] = history[k]
              BY <6>1, <2>1 DEF RingInv
            <6> QED BY <6>2 DEF k
          <5>2. historyHead + (i + 1) - 1 = historyHead + i
            BY DEF RingInv
          <5> QED BY <5>1, <5>2, <4>2 DEF HistoryAt
        <4>5. HistoryAt(i + 1) = stored[n - M + (i + 1)]
          BY <4>1, <2>2 DEF RingInv, RingHoldsLatest
        <4>6. n - M + (i + 1) \in 1..n /\ n - M + (i + 1) = n + 1 - M + i
          BY <4>1, <2>2, <1>0
        <4>7. stored'[n - M + (i + 1)] = stored[n - M + (i + 1)]
          BY <4>6, <1>0
        <4> QED BY <4>4, <4>5, <4>6, <4>7
      <3> QED BY <3>2, <3>3
    <2>6. RingHoldsLatest'
      <3>1. historyCount' = M /\ Len(stored') = n + 1
        BY <2>1, <2>2, <1>0
      <3>2. \A i \in 1..M : HistoryAt(i)' = stored'[Len(stored') - historyCount' + i]
        BY <2>5, <3>1
      <3> QED BY <3>1, <3>2, <2>4 DEF RingHoldsLatest
    <2>7. history' \in [0..M-1 -> Event \cup {NoEvent}]
      BY <2>1 DEF RingInv
    <2> QED BY <2>1, <2>2, <2>3, <2>6, <2>7, <1>0 DEF RingInv
  <1> QED BY <1>1, <1>2

-----------------------------------------------------------------------------
(* Types, with the ring among them.                                         *)
IndInv == TypeInv /\ RingHoldsLatest

(* What the lemmas on the ring need of the invariant.                      *)
LEMMA RingInvOfIndInv == IndInv => RingInv
  BY DEF IndInv, TypeInv, TypeOK, RingInv

(* The ring positions a replay selects are positions of the ring.          *)
LEMMA MatchingType ==
    ASSUME IndInv, NEW w \in Workspaces, NEW a \in Nat, NEW pick \in InOrder(Matching(w, a))
    PROVE  /\ Len(pick) \in Nat
           /\ pick \in [1..Len(pick) -> 1..historyCount]
           /\ \A i \in 1..Len(pick) : HistoryAt(pick[i]) \in Event
           /\ \A i, j \in 1..Len(pick) : pick[i] = pick[j] => i = j
  <1> DEFINE ps == Matching(w, a)
  <1>1. PICK n \in 0..historyCount :
          /\ pick \in [1..n -> ps]
          /\ \A i, j \in 1..n : i < j => pick[i] < pick[j]
    BY DEF InOrder
  <1>2. n \in Nat /\ ps \subseteq 1..historyCount /\ historyCount \in Nat
    BY DEF Matching, IndInv, TypeInv, TypeOK
  <1>3. Len(pick) = n
    BY <1>1, <1>2
  <1>4. \A k \in 1..historyCount : HistoryAt(k) \in Event
    <2>1. \A k \in 1..historyCount :
             Len(stored) - historyCount + k \in 1..Len(stored)
      BY HubConstants DEF IndInv, TypeInv, TypeOK, RingHoldsLatest, Smaller
    <2>2. \A k \in 1..historyCount : HistoryAt(k) = stored[Len(stored) - historyCount + k]
      BY DEF IndInv, RingHoldsLatest
    <2>3. \A k \in 1..Len(stored) : stored[k] \in Event
      BY DEF IndInv, TypeInv, TypeOK
    <2> QED BY <2>1, <2>2, <2>3
  <1>5. \A i, j \in 1..n : pick[i] = pick[j] => i = j
    <2> SUFFICES ASSUME NEW i \in 1..n, NEW j \in 1..n, pick[i] = pick[j] PROVE i = j
      OBVIOUS
    <2>1. pick[i] \in Nat /\ pick[j] \in Nat
      BY <1>1, <1>2
    <2> QED BY <1>1, <1>2, <2>1
  <1> HIDE DEF ps
  <1> QED BY <1>1, <1>2, <1>3, <1>4, <1>5

(* Appending what fits keeps a channel's type.                              *)
LEMMA AppendFits ==
    ASSUME TypeInv, NEW s \in Subs, Room(s), NEW m \in Message,
           feed' = [feed EXCEPT ![s] = Append(@, m)]
    PROVE  /\ feed' \in [Subs -> Seq(Message)]
           /\ \A t \in Subs : taken[t] <= Len(feed'[t]) /\ Len(feed'[t]) - taken[t] <= MaxSubBuffer
  <1>1. feed[s] \in Seq(Message) /\ taken[s] \in Nat
    BY DEF TypeInv, TypeOK
  <1>2. Append(feed[s], m) \in Seq(Message) /\ Len(Append(feed[s], m)) = Len(feed[s]) + 1
    BY <1>1
  <1>3. Len(feed[s]) \in Nat
    BY <1>1
  <1> QED BY <1>1, <1>2, <1>3, HubConstants DEF TypeInv, TypeOK, Room

(* A replay fits the empty channel of a new connection.                     *)
LEMMA ReplayFits ==
    ASSUME IndInv, NEW w \in Workspaces, NEW a \in Nat, NEW pick \in InOrder(Matching(w, a)),
           NEW mark \in {<<>>, <<SnapshotRequired>>}
    PROVE  LET fit == Smaller(Len(pick), MaxSubBuffer - Len(mark))
               q   == mark \o [i \in 1..fit |-> HistoryAt(pick[i])]
           IN  /\ q \in Seq(Message)
               /\ Len(q) <= MaxSubBuffer
               /\ fit \in 0..Len(pick)
               /\ Len(q) = Len(mark) + fit
               /\ \A i \in 1..Len(q) :
                    q[i] = IF i <= Len(mark) THEN SnapshotRequired ELSE HistoryAt(pick[i - Len(mark)])
  <1> DEFINE fit == Smaller(Len(pick), MaxSubBuffer - Len(mark))
             r   == [i \in 1..fit |-> HistoryAt(pick[i])]
  <1>1. /\ Len(pick) \in Nat
        /\ \A i \in 1..Len(pick) : HistoryAt(pick[i]) \in Event
    BY MatchingType
  <1>2. mark \in Seq(Message) /\ Len(mark) \in {0, 1}
        /\ \A i \in 1..Len(mark) : mark[i] = SnapshotRequired
    <2>1. SnapshotRequired \in Message
      BY DEF Message
    <2>2. CASE mark = <<>>
      BY <2>2
    <2>3. CASE mark = <<SnapshotRequired>>
      BY <2>1, <2>3
    <2> QED BY <2>2, <2>3
  <1>3. fit \in Nat /\ fit <= Len(pick) /\ fit <= MaxSubBuffer - Len(mark)
    BY <1>1, <1>2, HubConstants DEF Smaller
  <1>4. r \in Seq(Message) /\ Len(r) = fit /\ \A i \in 1..fit : r[i] = HistoryAt(pick[i])
    <2>1. \A i \in 1..fit : HistoryAt(pick[i]) \in Message
      BY <1>1, <1>3 DEF Message
    <2> QED BY <2>1, <1>3
  <1> HIDE DEF fit, r
  <1>5. /\ mark \o r \in Seq(Message)
        /\ Len(mark \o r) = Len(mark) + fit
        /\ \A i \in 1..Len(mark \o r) :
             (mark \o r)[i] = IF i <= Len(mark) THEN mark[i] ELSE r[i - Len(mark)]
    BY <1>2, <1>3, <1>4
  <1>6. \A i \in 1..Len(mark \o r) :
          (mark \o r)[i] = IF i <= Len(mark) THEN SnapshotRequired ELSE HistoryAt(pick[i - Len(mark)])
    BY <1>2, <1>3, <1>4, <1>5
  <1>7. Len(mark \o r) <= MaxSubBuffer
    BY <1>2, <1>3, <1>5, HubConstants
  <1> QED BY <1>1, <1>3, <1>5, <1>6, <1>7 DEF fit, r

(* The initial state satisfies the types and the ring.                     *)
LEMMA TypeInit == Init => IndInv
  <1> SUFFICES ASSUME Init PROVE IndInv
    OBVIOUS
  <1>1. (CHOOSE w \in Workspaces : TRUE) \in Workspaces
    BY HubConstants
  <1>2. TypeOK
    BY <1>1, HubConstants DEF Init, TypeOK
  <1>3. OnlySubscribed
    BY DEF Init, OnlySubscribed
  <1>4. RingHoldsLatest
    BY HubConstants DEF Init, RingHoldsLatest, Smaller
  <1> QED BY <1>2, <1>3, <1>4 DEF IndInv, TypeInv

(* Every step keeps the types and the ring.                                *)
LEMMA TypeStep == IndInv /\ [Next]_vars => IndInv'
  <1> SUFFICES ASSUME IndInv, [Next]_vars PROVE IndInv'
    OBVIOUS
  <1> USE DEF IndInv, TypeInv
  <1>0. UNCHANGED ring => RingHoldsLatest'
    <2> SUFFICES ASSUME UNCHANGED ring PROVE RingHoldsLatest'
      OBVIOUS
    <2>1. \A i : HistoryAt(i)' = HistoryAt(i)
      BY DEF ring, HistoryAt
    <2> QED BY <2>1 DEF ring, RingHoldsLatest
  <1>1. ASSUME NEW p \in Publishers, NEW w \in Workspaces, TakeSequence(p, w) PROVE IndInv'
    <2>1. [type |-> "event", ws |-> w, seq |-> sequence + 1, by |-> p] \in Event
          /\ sequence + 1 \in 0..MaxSeq
      BY <1>1, HubConstants DEF TakeSequence, TypeOK, Event
    <2>2. TypeOK'
      BY <1>1, <2>1 DEF TakeSequence, TypeOK, ring, conns, chans
    <2>3. OnlySubscribed'
      BY <1>1 DEF TakeSequence, OnlySubscribed, conns, chans
    <2> QED BY <2>2, <2>3, <1>0, <1>1 DEF TakeSequence
  <1>2. ASSUME NEW p \in Publishers, StoreAndCopy(p) PROVE IndInv'
    <2>1. event[p] \in Event /\ Receivers(event[p].ws) \subseteq Subs
      BY <1>2 DEF StoreAndCopy, TypeOK, Receivers, Registered
    <2>2. RingInv'
      BY <2>1, <1>2, StoreEventRing, RingInvOfIndInv DEF StoreAndCopy
    <2>3. TypeOK'
      BY <1>2, <2>1, <2>2 DEF StoreAndCopy, TypeOK, RingInv, conns, chans
    <2>4. OnlySubscribed'
      BY <1>2 DEF StoreAndCopy, OnlySubscribed, TypeOK, Receivers, Registered, conns, chans
    <2> QED BY <2>2, <2>3, <2>4 DEF RingInv
  <1>3. ASSUME NEW p \in Publishers, NEW s \in Subs, SkipGone(p, s) PROVE IndInv'
    <2>1. TypeOK'
      BY <1>3 DEF SkipGone, TypeOK, ring, conns, chans
    <2>2. OnlySubscribed'
      BY <1>3 DEF SkipGone, OnlySubscribed, conns, chans
    <2> QED BY <2>1, <2>2, <1>0, <1>3 DEF SkipGone
  <1>4. ASSUME NEW p \in Publishers, NEW s \in Subs, Enqueue(p, s) PROVE IndInv'
    <2>1. event[p] \in Message
      BY <1>4 DEF Enqueue, TypeOK, Message
    <2>2. /\ feed' \in [Subs -> Seq(Message)]
          /\ \A t \in Subs : taken[t] <= Len(feed'[t]) /\ Len(feed'[t]) - taken[t] <= MaxSubBuffer
      BY <2>1, <1>4, AppendFits DEF Enqueue
    <2>3. TypeOK'
      BY <1>4, <2>2 DEF Enqueue, TypeOK, ring, conns
    <2>4. OnlySubscribed'
      BY <1>4 DEF Enqueue, OnlySubscribed, conns
    <2> QED BY <2>3, <2>4, <1>0, <1>4 DEF Enqueue
  <1>5. ASSUME NEW p \in Publishers, NEW s \in Subs, ChannelFull(p, s) PROVE IndInv'
    <2>1. event[p] \in Event
      BY <1>5 DEF ChannelFull, TypeOK
    <2>2. TypeOK'
      BY <1>5, <2>1 DEF ChannelFull, TypeOK, ring, conns
    <2>3. OnlySubscribed'
      BY <1>5 DEF ChannelFull, OnlySubscribed, conns
    <2> QED BY <2>2, <2>3, <1>0, <1>5 DEF ChannelFull
  <1>6. ASSUME NEW p \in Publishers, NEW s \in Subs, SendGap(p, s) PROVE IndInv'
    <2>1. TypeOK' /\ OnlySubscribed'
      <3>1. CASE UNCHANGED feed
        <4>1. TypeOK'
          BY <1>6, <3>1 DEF SendGap, TypeOK, ring, conns
        <4>2. OnlySubscribed'
          BY <1>6, <3>1 DEF SendGap, OnlySubscribed, TypeOK, conns
        <4> QED BY <4>1, <4>2
      <3>2. CASE Room(s) /\ feed' = [feed EXCEPT ![s] = Append(@, GapEvent)]
        <4>1. /\ feed' \in [Subs -> Seq(Message)]
              /\ \A t \in Subs : taken[t] <= Len(feed'[t]) /\ Len(feed'[t]) - taken[t] <= MaxSubBuffer
          <5>1. GapEvent \in Message
            BY DEF Message
          <5> QED BY <3>2, <5>1, AppendFits
        <4>2. TypeOK'
          BY <1>6, <4>1 DEF SendGap, TypeOK, ring, conns
        <4>3. OnlySubscribed'
          BY <1>6, <3>2 DEF SendGap, OnlySubscribed, TypeOK, conns
        <4> QED BY <4>2, <4>3
      <3> QED BY <3>1, <3>2, <1>6 DEF SendGap
    <2> QED BY <2>1, <1>0, <1>6 DEF SendGap
  <1>7. ASSUME NEW p \in Publishers, PublishReturn(p) PROVE IndInv'
    <2>1. TypeOK'
      BY <1>7 DEF PublishReturn, TypeOK, ring, conns, chans
    <2>2. OnlySubscribed'
      BY <1>7 DEF PublishReturn, OnlySubscribed, conns, chans
    <2> QED BY <2>1, <2>2, <1>0, <1>7 DEF PublishReturn
  <1>8. ASSUME NEW s \in Subs, NEW w \in Workspaces, NEW a \in Nat, Subscribe(s, w, a)
        PROVE IndInv'
    <2>1. PICK pick \in InOrder(Matching(w, a)) :
            LET mark == IF HasGap(w, a) THEN <<SnapshotRequired>> ELSE <<>>
                fit  == Smaller(Len(pick), MaxSubBuffer - Len(mark))
            IN  feed' = [feed EXCEPT ![s] = mark \o [i \in 1..fit |-> HistoryAt(pick[i])]]
      BY <1>8 DEF Subscribe
    <2> DEFINE mark == IF HasGap(w, a) THEN <<SnapshotRequired>> ELSE <<>>
               q == mark \o [i \in 1..Smaller(Len(pick), MaxSubBuffer - Len(mark)) |->
                                HistoryAt(pick[i])]
    <2>2. q \in Seq(Message) /\ Len(q) <= MaxSubBuffer
      BY ReplayFits
    <2>3. feed' = [feed EXCEPT ![s] = q] /\ taken[s] = 0
      BY <2>1, <1>8 DEF Subscribe, OnlySubscribed
    <2> HIDE DEF mark, q
    <2>4. feed' \in [Subs -> Seq(Message)] /\ feed'[s] = q
          /\ \A t \in Subs \ {s} : feed'[t] = feed[t]
      BY <2>2, <2>3 DEF TypeOK
    <2>5. Len(stored) \in Nat /\ Len(q) \in Nat
      BY <2>2 DEF TypeOK
    <2>6. \A t \in Subs : taken[t] <= Len(feed'[t]) /\ Len(feed'[t]) - taken[t] <= MaxSubBuffer
      BY <2>2, <2>3, <2>4, <2>5, HubConstants DEF TypeOK
    <2>7. TypeOK'
      BY <1>8, <2>4, <2>5, <2>6 DEF Subscribe, TypeOK, ring, pubs
    <2>8. OnlySubscribed'
      BY <1>8, <2>4 DEF Subscribe, OnlySubscribed, TypeOK, pubs
    <2> QED BY <2>7, <2>8, <1>0, <1>8 DEF Subscribe
  <1>9. ASSUME NEW s \in Subs, NEW w \in Workspaces, NEW a \in Nat, SubscribeRefused(s, w, a)
        PROVE IndInv'
    <2>1. TypeOK'
      BY <1>9 DEF SubscribeRefused, TypeOK, ring, pubs, chans
    <2>2. OnlySubscribed'
      BY <1>9 DEF SubscribeRefused, OnlySubscribed, TypeOK, pubs, chans
    <2> QED BY <2>1, <2>2, <1>0, <1>9 DEF SubscribeRefused
  <1>10. ASSUME NEW s \in Subs, Consume(s) PROVE IndInv'
    <2>1. TypeOK'
      BY <1>10, HubConstants DEF Consume, TypeOK, ring, pubs, conns
    <2>2. OnlySubscribed'
      BY <1>10 DEF Consume, OnlySubscribed, TypeOK, pubs, conns
    <2> QED BY <2>1, <2>2, <1>0, <1>10 DEF Consume
  <1>11. ASSUME NEW s \in Subs, ConsumeZero(s) PROVE IndInv'
    <2>1. <<ZeroEvent>> \in Seq(Message) /\ Len(<<ZeroEvent>>) = 1
      BY DEF Message
    <2>2. TypeOK'
      BY <1>11, <2>1, HubConstants DEF ConsumeZero, TypeOK, ring, pubs, conns
    <2>3. OnlySubscribed'
      BY <1>11 DEF ConsumeZero, OnlySubscribed, TypeOK, pubs, conns
    <2> QED BY <2>2, <2>3, <1>0, <1>11 DEF ConsumeZero
  <1>12. ASSUME NEW s \in Subs, Unregister(s) \/ CloseDone(s) \/ RefusedLeaves(s) PROVE IndInv'
    <2>1. TypeOK'
      BY <1>12 DEF Unregister, CloseDone, RefusedLeaves, TypeOK, ring, pubs, chans
    <2>2. OnlySubscribed'
      BY <1>12 DEF Unregister, CloseDone, RefusedLeaves, OnlySubscribed, TypeOK, pubs, chans
    <2> QED BY <2>1, <2>2, <1>0, <1>12 DEF Unregister, CloseDone, RefusedLeaves
  <1>13. Cursors \subseteq Nat
    <2>1. \A k \in 1..Len(stored) : stored[k] \in Event
      BY DEF TypeOK
    <2>2. \A e \in Event : e.seq \in Nat
      BY HubConstants DEF Event
    <2> QED BY <2>1, <2>2 DEF Cursors, Elems
  <1>14. CASE UNCHANGED vars
    <2>1. TypeOK'
      BY <1>14 DEF vars, TypeOK, ring, pubs, conns, chans
    <2>2. OnlySubscribed'
      BY <1>14 DEF vars, OnlySubscribed, pubs, conns, chans
    <2> QED BY <2>1, <2>2, <1>0, <1>14 DEF vars
  <1> QED
    BY <1>1, <1>2, <1>3, <1>4, <1>5, <1>6, <1>7, <1>8, <1>9, <1>10, <1>11, <1>12, <1>13, <1>14
    DEF Next, PublisherStep, ConnectionStep

(* Every reachable state has its types: ring indices stay inside the ring   *)
(* and no channel is ever over its capacity.                                *)
THEOREM TypeCorrect == Spec => []TypeOK
  <1>1. IndInv => TypeOK
    BY DEF IndInv, TypeInv
  <1> QED BY <1>1, TypeInit, TypeStep, PTL DEF Spec

(* The ring is always the tail of what was stored, in the order it was      *)
(* stored, for every capacity: the two index computations agree across the  *)
(* wrap-around.                                                             *)
THEOREM RingCorrect == Spec => []RingHoldsLatest
  <1>1. IndInv => RingHoldsLatest
    BY DEF IndInv
  <1> QED BY <1>1, TypeInit, TypeStep, PTL DEF Spec

-----------------------------------------------------------------------------
(* No duplicate delivery.  An event is identified by its number, so the     *)
(* first part says that numbers are unique among what is stored and what    *)
(* the publishers still carry; the second, that whoever is still to be sent *)
(* an event has not got it, although it may have got older ones by replay.  *)
Numbered ==
    /\ \A i, j \in 1..Len(stored) : stored[i].seq = stored[j].seq => i = j
    /\ \A i \in 1..Len(stored) : stored[i].seq <= sequence
    /\ \A p \in Publishers : pc[p] # "idle" => event[p].seq <= sequence
    /\ \A p \in Publishers : pc[p] = "numbered" =>
          \A i \in 1..Len(stored) : stored[i].seq # event[p].seq
    /\ \A p, q \in Publishers :
          p # q /\ pc[p] # "idle" /\ pc[q] # "idle" => event[p].seq # event[q].seq

Owed ==
    /\ \A s \in Subs : \A i \in 1..Len(feed[s]) :
          feed[s][i] \in Event => \E k \in 1..Len(stored) : stored[k] = feed[s][i]
    /\ \A p \in Publishers : pc[p] \in {"sending", "gap"} =>
          \E k \in 1..Len(stored) : stored[k] = event[p]
    /\ \A p \in Publishers : pc[p] \in {"idle", "numbered"} => targets[p] = {}
    /\ \A p \in Publishers : \A s \in targets[p] :
          \A i \in 1..Len(feed[s]) : feed[s][i] # event[p]

DeliveryInv == IndInv /\ Numbered /\ Owed /\ NoDuplicateDelivery

(* Nothing has been numbered, stored or sent at first.                     *)
LEMMA DeliveryInit == Init => Numbered /\ Owed /\ NoDuplicateDelivery
  BY DEF Init, Numbered, Owed, NoDuplicateDelivery

(* Sequence numbers are positive integers.                                 *)
LEMMA EventSeq == \A e \in Event : e.seq \in Int /\ e.seq >= 1
  BY HubConstants DEF Event

(* Every step keeps the numbers in use below the counter and apart.        *)
LEMMA NumberedStep == IndInv /\ Numbered /\ [Next]_vars => Numbered'
  <1> SUFFICES ASSUME IndInv, Numbered, [Next]_vars PROVE Numbered'
    OBVIOUS
  <1> USE DEF IndInv, TypeInv
  <1>0. /\ \A k \in 1..Len(stored) : stored[k] \in Event /\ stored[k].seq \in Int
        /\ \A p \in Publishers : pc[p] # "idle" => event[p] \in Event /\ event[p].seq \in Int
        /\ sequence \in Int /\ Len(stored) \in Nat
    BY EventSeq DEF TypeOK
  <1>1. ASSUME NEW p \in Publishers, NEW w \in Workspaces, TakeSequence(p, w) PROVE Numbered'
    <2>1. /\ event' = [event EXCEPT
                ![p] = [type |-> "event", ws |-> w, seq |-> sequence + 1, by |-> p]]
          /\ pc' = [pc EXCEPT ![p] = "numbered"]
          /\ sequence' = sequence + 1 /\ stored' = stored /\ pc[p] = "idle"
      BY <1>1 DEF TakeSequence, ring
    <2>2. /\ event'[p].seq = sequence + 1 /\ pc'[p] = "numbered"
          /\ \A q \in Publishers \ {p} : event'[q] = event[q] /\ pc'[q] = pc[q]
      BY <2>1 DEF TypeOK
    <2> QED BY <2>1, <2>2, <1>0 DEF Numbered
  <1>2. ASSUME NEW p \in Publishers, StoreAndCopy(p) PROVE Numbered'
    <2>1. /\ stored' = Append(stored, event[p]) /\ event' = event /\ sequence' = sequence
          /\ pc[p] = "numbered" /\ pc' = [pc EXCEPT ![p] = "sending"]
      BY <1>2 DEF StoreAndCopy, StoreEvent
    <2>2. /\ pc'[p] = "sending" /\ \A q \in Publishers \ {p} : pc'[q] = pc[q]
          /\ Len(stored') = Len(stored) + 1
          /\ stored'[Len(stored) + 1] = event[p]
          /\ \A k \in 1..Len(stored) : stored'[k] = stored[k]
      BY <2>1, <1>0 DEF TypeOK
    <2> QED BY <2>1, <2>2, <1>0 DEF Numbered
  <1>3. ASSUME NEW p \in Publishers, NEW s \in Subs,
               SkipGone(p, s) \/ Enqueue(p, s) \/ ChannelFull(p, s) \/ SendGap(p, s)
        PROVE Numbered'
    <2>1. /\ sequence' = sequence /\ stored' = stored /\ event' = event
          /\ \A q \in Publishers : pc'[q] # pc[q] =>
                pc[q] \in {"sending", "gap"} /\ pc'[q] \in {"sending", "gap"}
      BY <1>3 DEF SkipGone, Enqueue, ChannelFull, SendGap, ring, TypeOK
    <2> QED BY <2>1 DEF Numbered
  <1>4. ASSUME NEW p \in Publishers, PublishReturn(p) PROVE Numbered'
    <2>1. /\ sequence' = sequence /\ stored' = stored
          /\ pc'[p] = "idle"
          /\ \A q \in Publishers \ {p} : pc'[q] = pc[q] /\ event'[q] = event[q]
      BY <1>4 DEF PublishReturn, ring, TypeOK
    <2> QED BY <2>1 DEF Numbered
  <1>5. ASSUME UNCHANGED <<sequence, stored, event, pc>> PROVE Numbered'
    BY <1>5 DEF Numbered
  <1>6. ASSUME NEW s \in Subs, ConnectionStep(s) PROVE UNCHANGED <<sequence, stored, event, pc>>
    BY <1>6 DEF ConnectionStep, Subscribe, SubscribeRefused, Consume, ConsumeZero, Unregister,
      CloseDone, RefusedLeaves, ring, pubs
  <1>7. UNCHANGED vars => UNCHANGED <<sequence, stored, event, pc>>
    BY DEF vars, ring, pubs
  <1> QED BY <1>1, <1>2, <1>3, <1>4, <1>5, <1>6, <1>7 DEF Next, PublisherStep

(* Sending to one subscriber an event it has not got.                       *)
LEMMA SendKeepsDistinct ==
    ASSUME IndInv, NoDuplicateDelivery, NEW s \in Subs, NEW m \in Message,
           m \in Event => \A i \in 1..Len(feed[s]) : feed[s][i] # m,
           feed' = [feed EXCEPT ![s] = Append(@, m)]
    PROVE  /\ NoDuplicateDelivery'
           /\ Len(feed'[s]) = Len(feed[s]) + 1
           /\ feed'[s][Len(feed[s]) + 1] = m
           /\ \A i \in 1..Len(feed[s]) : feed'[s][i] = feed[s][i]
           /\ \A t \in Subs \ {s} : feed'[t] = feed[t]
           /\ Len(feed[s]) \in Nat
  <1>1. feed[s] \in Seq(Message) /\ Len(feed[s]) \in Nat
    BY DEF IndInv, TypeInv, TypeOK
  <1>2. /\ feed'[s] = Append(feed[s], m)
        /\ \A t \in Subs \ {s} : feed'[t] = feed[t]
    BY DEF IndInv, TypeInv, TypeOK
  <1>3. /\ Len(feed'[s]) = Len(feed[s]) + 1
        /\ feed'[s][Len(feed[s]) + 1] = m
        /\ \A i \in 1..Len(feed[s]) : feed'[s][i] = feed[s][i]
    BY <1>1, <1>2
  <1>4. ASSUME NEW t \in Subs, NEW i \in 1..Len(feed'[t]), NEW j \in 1..Len(feed'[t]),
               feed'[t][i] = feed'[t][j], feed'[t][i] \in Event
        PROVE  i = j
    BY <1>1, <1>2, <1>3, <1>4 DEF NoDuplicateDelivery
  <1> QED BY <1>1, <1>2, <1>3, <1>4 DEF NoDuplicateDelivery

(* Every step keeps what a publisher still owes apart from what was sent.  *)
LEMMA OwedStep ==
    IndInv /\ Numbered /\ Owed /\ NoDuplicateDelivery /\ [Next]_vars
    => Owed' /\ NoDuplicateDelivery'
  <1> SUFFICES ASSUME IndInv, Numbered, Owed, NoDuplicateDelivery, [Next]_vars
               PROVE  Owed' /\ NoDuplicateDelivery'
    OBVIOUS
  <1>0. /\ \A k \in 1..Len(stored) : stored[k] \in Event
        /\ Len(stored) \in Nat
        /\ \A p \in Publishers : targets[p] \subseteq Subs
        /\ \A p \in Publishers : pc[p] \in {"idle", "numbered", "sending", "gap"}
        /\ \A p \in Publishers : pc[p] # "idle" => event[p] \in Event
    BY DEF IndInv, TypeInv, TypeOK
  <1>1. ASSUME NEW p \in Publishers, NEW w \in Workspaces, TakeSequence(p, w)
        PROVE Owed' /\ NoDuplicateDelivery'
    <2>1. /\ feed' = feed /\ stored' = stored /\ targets' = targets /\ pc[p] = "idle"
          /\ pc'[p] = "numbered"
          /\ \A q \in Publishers \ {p} : pc'[q] = pc[q] /\ event'[q] = event[q]
      BY <1>1 DEF TakeSequence, ring, chans, IndInv, TypeInv, TypeOK
    <2>2. targets[p] = {}
      BY <2>1 DEF Owed
    <2> QED BY <2>1, <2>2 DEF Owed, NoDuplicateDelivery
  <1>2. ASSUME NEW p \in Publishers, StoreAndCopy(p) PROVE Owed' /\ NoDuplicateDelivery'
    <2>1. /\ stored' = Append(stored, event[p]) /\ event' = event /\ feed' = feed
          /\ pc[p] = "numbered" /\ pc'[p] = "sending" /\ targets'[p] \subseteq Subs
          /\ \A q \in Publishers \ {p} : pc'[q] = pc[q] /\ targets'[q] = targets[q]
      BY <1>2 DEF StoreAndCopy, StoreEvent, chans, IndInv, TypeInv, TypeOK, Receivers, Registered
    <2>2. /\ Len(stored') = Len(stored) + 1
          /\ stored'[Len(stored) + 1] = event[p]
          /\ \A k \in 1..Len(stored) : stored'[k] = stored[k]
      BY <2>1, <1>0 DEF IndInv, TypeInv, TypeOK
    <2>3. \A s \in Subs : \A i \in 1..Len(feed[s]) : feed[s][i] # event[p]
      <3> SUFFICES ASSUME NEW s \in Subs, NEW i \in 1..Len(feed[s]), feed[s][i] = event[p]
                   PROVE  FALSE
        OBVIOUS
      <3>1. PICK k \in 1..Len(stored) : stored[k] = event[p]
        BY <1>0, <2>1 DEF Owed
      <3> QED BY <3>1, <2>1 DEF Numbered
    <2>4. NoDuplicateDelivery'
      BY <2>1 DEF NoDuplicateDelivery
    <2>5. \A x : (\E k \in 1..Len(stored) : stored[k] = x)
                 => \E k \in 1..Len(stored') : stored'[k] = x
      BY <2>2, <1>0
    <2>6. \E k \in 1..Len(stored') : stored'[k] = event[p]
      BY <2>2, <1>0
    <2>7. Owed'
      BY <2>1, <2>3, <2>5, <2>6 DEF Owed
    <2> QED BY <2>4, <2>7
  <1>3. ASSUME NEW p \in Publishers, NEW s \in Subs, SkipGone(p, s) \/ ChannelFull(p, s)
        PROVE Owed' /\ NoDuplicateDelivery'
    <2>1. /\ feed' = feed /\ stored' = stored /\ event' = event
          /\ \A q \in Publishers : targets'[q] \subseteq targets[q]
          /\ \A q \in Publishers : pc'[q] # pc[q] => pc[q] = "sending" /\ pc'[q] = "gap"
      <3>1. CASE SkipGone(p, s)
        BY <3>1 DEF SkipGone, ring, chans, IndInv, TypeInv, TypeOK
      <3>2. CASE ChannelFull(p, s)
        <4>1. /\ targets' = [targets EXCEPT ![p] = @ \ {s}]
              /\ pc' = [pc EXCEPT ![p] = "gap"] /\ pc[p] = "sending"
              /\ feed' = feed /\ stored' = stored /\ event' = event
          BY <3>2 DEF ChannelFull, ring
        <4> QED BY <4>1 DEF IndInv, TypeInv, TypeOK
      <3> QED BY <3>1, <3>2, <1>3
    <2> QED BY <2>1, <1>0 DEF Owed, NoDuplicateDelivery
  <1>4. ASSUME NEW p \in Publishers, NEW s \in Subs, Enqueue(p, s)
        PROVE Owed' /\ NoDuplicateDelivery'
    <2>1. /\ feed' = [feed EXCEPT ![s] = Append(@, event[p])]
          /\ stored' = stored /\ event' = event /\ pc' = pc
          /\ targets' = [targets EXCEPT ![p] = @ \ {s}]
          /\ pc[p] = "sending" /\ s \in targets[p]
      BY <1>4 DEF Enqueue, ring
    <2>2. /\ targets'[p] = targets[p] \ {s}
          /\ \A q \in Publishers \ {p} : targets'[q] = targets[q]
      BY <2>1 DEF IndInv, TypeInv, TypeOK
    <2>3. event[p] \in Event /\ event[p] \in Message
      BY <2>1, <1>0 DEF Message
    <2>4. \A i \in 1..Len(feed[s]) : feed[s][i] # event[p]
      BY <2>1 DEF Owed
    <2>5. /\ NoDuplicateDelivery'
          /\ Len(feed'[s]) = Len(feed[s]) + 1
          /\ feed'[s][Len(feed[s]) + 1] = event[p]
          /\ \A i \in 1..Len(feed[s]) : feed'[s][i] = feed[s][i]
          /\ \A t \in Subs \ {s} : feed'[t] = feed[t]
          /\ Len(feed[s]) \in Nat
      BY <2>1, <2>3, <2>4, SendKeepsDistinct
    <2>6. \A q \in Publishers \ {p} : targets[q] # {} => event[q] # event[p]
      BY <2>1, <1>0 DEF Numbered, Owed
    <2>7. \A t \in Subs : \A i \in 1..Len(feed'[t]) :
            feed'[t][i] \in Event => \E k \in 1..Len(stored) : stored[k] = feed'[t][i]
      BY <2>1, <2>5 DEF Owed
    <2>8. \A q \in Publishers : \A t \in targets'[q] :
            \A i \in 1..Len(feed'[t]) : feed'[t][i] # event[q]
      <3> SUFFICES ASSUME NEW q \in Publishers, NEW t \in targets'[q], NEW i \in 1..Len(feed'[t])
                   PROVE  feed'[t][i] # event[q]
        OBVIOUS
      <3>1. t \in targets[q] /\ t \in Subs /\ (q = p => t # s)
        BY <2>2, <1>0
      <3>2. CASE t # s
        BY <3>1, <3>2, <2>5 DEF Owed
      <3>3. CASE t = s /\ i # Len(feed[s]) + 1
        <4>1. i \in 1..Len(feed[t]) /\ feed'[t][i] = feed[t][i]
          BY <3>3, <2>5
        <4> QED BY <4>1, <3>1 DEF Owed
      <3>4. CASE t = s /\ i = Len(feed[s]) + 1
        BY <3>1, <3>4, <2>5, <2>6
      <3> QED BY <3>2, <3>3, <3>4
    <2>9. Owed'
      BY <2>1, <2>2, <2>7, <2>8 DEF Owed
    <2> QED BY <2>5, <2>9
  <1>5. ASSUME NEW p \in Publishers, NEW s \in Subs, SendGap(p, s)
        PROVE Owed' /\ NoDuplicateDelivery'
    <2>1. /\ stored' = stored /\ event' = event /\ targets' = targets
          /\ pc[p] = "gap" /\ pc'[p] = "sending"
          /\ \A q \in Publishers \ {p} : pc'[q] = pc[q]
      BY <1>5 DEF SendGap, ring, IndInv, TypeInv, TypeOK
    <2>2. CASE feed' = feed
      BY <2>1, <2>2 DEF Owed, NoDuplicateDelivery
    <2>3. CASE feed' = [feed EXCEPT ![s] = Append(@, GapEvent)]
      <3>1. GapEvent \in Message /\ GapEvent \notin Event
        BY Disjoint DEF Message
      <3>2. /\ NoDuplicateDelivery'
            /\ Len(feed'[s]) = Len(feed[s]) + 1
            /\ feed'[s][Len(feed[s]) + 1] = GapEvent
            /\ \A i \in 1..Len(feed[s]) : feed'[s][i] = feed[s][i]
            /\ \A t \in Subs \ {s} : feed'[t] = feed[t]
            /\ Len(feed[s]) \in Nat
        BY <2>3, <3>1, SendKeepsDistinct
      <3>3. \A q \in Publishers : targets[q] # {} => event[q] \in Event
        BY <1>0 DEF Owed
      <3>4. \A q \in Publishers : \A t \in targets[q] :
              \A i \in 1..Len(feed'[t]) : feed'[t][i] # event[q]
        <4> SUFFICES ASSUME NEW q \in Publishers, NEW t \in targets[q], NEW i \in 1..Len(feed'[t])
                     PROVE  feed'[t][i] # event[q]
          OBVIOUS
        <4>1. t \in Subs /\ event[q] \in Event
          BY <1>0, <3>3
        <4>2. CASE t # s
          BY <4>1, <4>2, <3>2 DEF Owed
        <4>3. CASE t = s /\ i # Len(feed[s]) + 1
          <5>1. i \in 1..Len(feed[t]) /\ feed'[t][i] = feed[t][i]
            BY <4>3, <3>2
          <5> QED BY <5>1 DEF Owed
        <4>4. CASE t = s /\ i = Len(feed[s]) + 1
          BY <4>1, <4>4, <3>1, <3>2
        <4> QED BY <4>2, <4>3, <4>4
      <3>5. \A t \in Subs : \A i \in 1..Len(feed'[t]) :
              feed'[t][i] \in Event => \E k \in 1..Len(stored) : stored[k] = feed'[t][i]
        BY <3>1, <3>2 DEF Owed
      <3>6. Owed'
        BY <2>1, <3>4, <3>5 DEF Owed
      <3> QED BY <3>2, <3>6
    <2> QED BY <2>2, <2>3, <1>5 DEF SendGap
  <1>6. ASSUME NEW p \in Publishers, PublishReturn(p) PROVE Owed' /\ NoDuplicateDelivery'
    <2>1. /\ feed' = feed /\ stored' = stored /\ targets' = targets
          /\ targets[p] = {} /\ pc'[p] = "idle"
          /\ \A q \in Publishers \ {p} : pc'[q] = pc[q] /\ event'[q] = event[q]
      BY <1>6 DEF PublishReturn, ring, chans, IndInv, TypeInv, TypeOK
    <2> QED BY <2>1 DEF Owed, NoDuplicateDelivery
  <1>7. ASSUME NEW s \in Subs, NEW w \in Workspaces, NEW a \in Nat, Subscribe(s, w, a)
        PROVE Owed' /\ NoDuplicateDelivery'
    <2>1. PICK pick \in InOrder(Matching(w, a)) :
            LET mark == IF HasGap(w, a) THEN <<SnapshotRequired>> ELSE <<>>
                fit  == Smaller(Len(pick), MaxSubBuffer - Len(mark))
            IN  feed' = [feed EXCEPT ![s] = mark \o [i \in 1..fit |-> HistoryAt(pick[i])]]
      BY <1>7 DEF Subscribe
    <2> DEFINE mark == IF HasGap(w, a) THEN <<SnapshotRequired>> ELSE <<>>
               fit == Smaller(Len(pick), MaxSubBuffer - Len(mark))
               q == mark \o [i \in 1..fit |-> HistoryAt(pick[i])]
    <2>2. /\ q \in Seq(Message) /\ fit \in 0..Len(pick)
          /\ Len(q) = Len(mark) + fit
          /\ \A i \in 1..Len(q) :
               q[i] = IF i <= Len(mark) THEN SnapshotRequired ELSE HistoryAt(pick[i - Len(mark)])
      <3>1. mark \in {<<>>, <<SnapshotRequired>>}
        OBVIOUS
      <3> HIDE DEF mark
      <3>2. q \in Seq(Message) /\ fit \in 0..Len(pick)
        BY <3>1, ReplayFits
      <3>3. Len(q) = Len(mark) + fit
        BY <3>1, ReplayFits
      <3>4. \A i \in 1..Len(q) :
              q[i] = IF i <= Len(mark) THEN SnapshotRequired ELSE HistoryAt(pick[i - Len(mark)])
        BY <3>1, ReplayFits
      <3> QED BY <3>2, <3>3, <3>4
    <2>3. Len(mark) \in Nat /\ feed' = [feed EXCEPT ![s] = q]
      BY <2>1
    <2> HIDE DEF mark, fit, q
    <2>4. /\ feed'[s] = q /\ \A t \in Subs \ {s} : feed'[t] = feed[t]
          /\ stored' = stored /\ event' = event /\ targets' = targets /\ pc' = pc
      BY <2>3, <1>7 DEF Subscribe, ring, pubs, IndInv, TypeInv, TypeOK
    <2>5. /\ Len(pick) \in Nat
          /\ pick \in [1..Len(pick) -> 1..historyCount]
          /\ \A i, j \in 1..Len(pick) : pick[i] = pick[j] => i = j
      BY MatchingType
    <2> DEFINE at(k) == Len(stored) - historyCount + k
    <2>6. /\ historyCount \in Nat
          /\ \A k \in 1..historyCount :
               at(k) \in 1..Len(stored) /\ HistoryAt(k) = stored[at(k)]
      <3>1. historyCount \in Nat /\ historyCount <= Len(stored)
        BY <1>0, HubConstants DEF IndInv, TypeInv, TypeOK, RingHoldsLatest, Smaller
      <3> QED BY <3>1, <1>0 DEF IndInv, RingHoldsLatest
    <2>7. \A i \in 1..Len(q) : q[i] \in Event =>
            i - Len(mark) \in 1..Len(pick) /\ q[i] = stored[at(pick[i - Len(mark)])]
      <3> SUFFICES ASSUME NEW i \in 1..Len(q), q[i] \in Event
                   PROVE  i - Len(mark) \in 1..Len(pick) /\ q[i] = stored[at(pick[i - Len(mark)])]
        OBVIOUS
      <3>1. i > Len(mark)
        BY <2>2, <2>3, Disjoint
      <3>2. i - Len(mark) \in 1..Len(pick)
        BY <3>1, <2>2, <2>3, <2>5
      <3>3. q[i] = HistoryAt(pick[i - Len(mark)])
        BY <3>1, <2>2, <2>3
      <3> QED BY <3>2, <3>3, <2>5, <2>6
    <2>8. ASSUME NEW i \in 1..Len(q), NEW j \in 1..Len(q), q[i] = q[j], q[i] \in Event
          PROVE  i = j
      <3> DEFINE x == pick[i - Len(mark)]  y == pick[j - Len(mark)]
      <3>1. /\ i - Len(mark) \in 1..Len(pick) /\ j - Len(mark) \in 1..Len(pick)
            /\ stored[at(x)] = stored[at(y)]
        BY <2>7, <2>8
      <3>2. x \in 1..historyCount /\ y \in 1..historyCount
        BY <3>1, <2>5
      <3>3. at(x) = at(y)
        BY <3>1, <3>2, <2>6 DEF Numbered
      <3>4. x = y
        <4> HIDE DEF x, y
        <4>1. \A u, v \in 1..historyCount : at(u) = at(v) => u = v
          BY <2>6, <1>0
        <4> QED BY <3>2, <3>3, <4>1
      <3>5. i - Len(mark) = j - Len(mark)
        BY <3>1, <3>4, <2>5
      <3> QED BY <3>5, <2>3
    <2>9. NoDuplicateDelivery'
      BY <2>4, <2>8 DEF NoDuplicateDelivery
    <2>10. \A p \in Publishers : s \notin targets[p]
      BY <1>7 DEF Subscribe, IndInv, TypeInv, OnlySubscribed
    <2>11. \A i \in 1..Len(q) : q[i] \in Event => \E k \in 1..Len(stored) : stored[k] = q[i]
      BY <2>5, <2>6, <2>7
    <2>12. Owed'
      BY <2>4, <2>10, <2>11, <1>0 DEF Owed
    <2> QED BY <2>9, <2>12
  <1>8. ASSUME NEW s \in Subs, ConsumeZero(s) PROVE Owed' /\ NoDuplicateDelivery'
    <2>1. /\ feed'[s] = <<ZeroEvent>> /\ \A t \in Subs \ {s} : feed'[t] = feed[t]
          /\ stored' = stored /\ event' = event /\ targets' = targets /\ pc' = pc
          /\ phase[s] = "refused"
      BY <1>8 DEF ConsumeZero, ring, pubs, IndInv, TypeInv, TypeOK
    <2>2. \A i \in 1..Len(feed'[s]) : feed'[s][i] \notin Event /\ i = 1
      BY <2>1, Disjoint
    <2>3. \A p \in Publishers : s \notin targets[p]
      BY <2>1 DEF IndInv, TypeInv, OnlySubscribed
    <2>4. NoDuplicateDelivery'
      BY <2>1, <2>2 DEF NoDuplicateDelivery
    <2>5. Owed'
      BY <2>1, <2>2, <2>3, <1>0 DEF Owed
    <2> QED BY <2>4, <2>5
  <1>9. ASSUME UNCHANGED <<feed, stored, event, targets, pc>>
        PROVE Owed' /\ NoDuplicateDelivery'
    BY <1>9 DEF Owed, NoDuplicateDelivery
  <1>10. ASSUME NEW s \in Subs, NEW w \in Workspaces, NEW a \in Nat,
                \/ SubscribeRefused(s, w, a) \/ Consume(s) \/ Unregister(s)
                \/ CloseDone(s) \/ RefusedLeaves(s)
         PROVE UNCHANGED <<feed, stored, event, targets, pc>>
    BY <1>10 DEF SubscribeRefused, Consume, Unregister, CloseDone, RefusedLeaves, ring, pubs, chans
  <1>11. UNCHANGED vars => UNCHANGED <<feed, stored, event, targets, pc>>
    BY DEF vars, ring, pubs, chans
  <1>12. Cursors \subseteq Nat
    <2>1. \A e \in Event : e.seq \in Nat
      BY HubConstants DEF Event
    <2> QED BY <2>1, <1>0 DEF Cursors, Elems
  <1>13. ASSUME NEW p \in Publishers, PublisherStep(p) PROVE Owed' /\ NoDuplicateDelivery'
    BY <1>1, <1>2, <1>3, <1>4, <1>5, <1>6, <1>13 DEF PublisherStep
  <1>14. ASSUME NEW s \in Subs, ConnectionStep(s) PROVE Owed' /\ NoDuplicateDelivery'
    <2>1. 0 \in Nat /\ \E w \in Workspaces : TRUE
      BY HubConstants
    <2> QED BY <2>1, <1>7, <1>8, <1>9, <1>10, <1>12, <1>14 DEF ConnectionStep
  <1> QED BY <1>9, <1>11, <1>13, <1>14 DEF Next

(* No subscription is ever sent the same event twice, whatever order the    *)
(* publishers number, store and send in and whenever the subscription joins *)
(* and replays.                                                             *)
THEOREM NoEventTwice == Spec => []NoDuplicateDelivery
  <1>1. Init => DeliveryInv
    BY TypeInit, DeliveryInit DEF DeliveryInv
  <1>2. DeliveryInv /\ [Next]_vars => DeliveryInv'
    BY TypeStep, NumberedStep, OwedStep DEF DeliveryInv
  <1>3. DeliveryInv => NoDuplicateDelivery
    BY DEF DeliveryInv
  <1> QED BY <1>1, <1>2, <1>3, PTL DEF Spec

-----------------------------------------------------------------------------
(* Order.  A goroutine is in one Publish at a time, so what is stored of it *)
(* is stored in the order of its numbers.                                   *)
StoreOrder ==
    /\ \A p \in Publishers : pc[p] # "idle" => event[p].by = p
    /\ \A i, j \in 1..Len(stored) :
          i < j /\ stored[i].by = stored[j].by => stored[i].seq < stored[j].seq
    /\ \A p \in Publishers : pc[p] = "numbered" =>
          \A i \in 1..Len(stored) : stored[i].by = p => stored[i].seq < event[p].seq
    /\ \A s \in Subs : joined[s] <= Len(stored)

(* What is still to be sent to a connection was stored after it joined, and *)
(* is newer than anything of the same goroutine the connection was sent.    *)
SendOrder ==
    \A p \in Publishers : \A s \in targets[p] :
        /\ Live(s, event[p])
        /\ \A i \in 1..Len(feed[s]) :
              feed[s][i] \in Event /\ feed[s][i].by = p => feed[s][i].seq < event[p].seq

OrderInv ==
    DeliveryInv /\ StoreOrder /\ SendOrder /\ ReplayBeforeLive /\ PublisherOrder /\ NoSilentMiss

(* Nothing has been stored or sent at first.                               *)
LEMMA OrderInit ==
    Init => StoreOrder /\ SendOrder /\ ReplayBeforeLive /\ PublisherOrder /\ NoSilentMiss
  <1> SUFFICES ASSUME Init
               PROVE  StoreOrder /\ SendOrder /\ ReplayBeforeLive /\ PublisherOrder /\ NoSilentMiss
    OBVIOUS
  <1>1. StoreOrder
    BY DEF Init, StoreOrder
  <1>2. SendOrder /\ ReplayBeforeLive /\ PublisherOrder
    BY DEF Init, SendOrder, ReplayBeforeLive, PublisherOrder
  <1>3. NoSilentMiss
    BY DEF Init, NoSilentMiss, Registered
  <1> QED BY <1>1, <1>2, <1>3

(* What the types say of the pieces the steps below change.                 *)
LEMMA HubFacts ==
    ASSUME IndInv
    PROVE  /\ Len(stored) \in Nat /\ sequence \in Nat
           /\ \A k \in 1..Len(stored) : stored[k] \in Event /\ stored[k].seq \in Int
           /\ \A p \in Publishers : targets[p] \subseteq Subs
           /\ \A p \in Publishers : pc[p] \in {"idle", "numbered", "sending", "gap"}
           /\ \A p \in Publishers : pc[p] # "idle" => event[p] \in Event /\ event[p].seq \in Int
           /\ \A s \in Subs : feed[s] \in Seq(Message) /\ Len(feed[s]) \in Nat
           /\ \A s \in Subs : joined[s] \in Nat
  BY EventSeq DEF IndInv, TypeInv, TypeOK

(* The steps of Publish after the number is taken, on what is stored.       *)
LEMMA StoreShape ==
    ASSUME IndInv, NEW p \in Publishers, StoreAndCopy(p)
    PROVE  /\ stored' = Append(stored, event[p]) /\ Len(stored') = Len(stored) + 1
           /\ stored'[Len(stored) + 1] = event[p]
           /\ \A k \in 1..Len(stored) : stored'[k] = stored[k]
           /\ pc[p] = "numbered" /\ pc'[p] = "sending" /\ event' = event
           /\ \A q \in Publishers \ {p} : pc'[q] = pc[q] /\ targets'[q] = targets[q]
           /\ targets'[p] = Receivers(event[p].ws)
           /\ UNCHANGED <<sequence, slow, phase, workspace, after, joined, feed, taken, lost>>
  <1>1. /\ stored' = Append(stored, event[p])
        /\ pc[p] = "numbered" /\ pc' = [pc EXCEPT ![p] = "sending"] /\ event' = event
        /\ targets' = [targets EXCEPT ![p] = Receivers(event[p].ws)]
        /\ UNCHANGED <<sequence, slow, phase, workspace, after, joined, feed, taken, lost>>
    BY DEF StoreAndCopy, StoreEvent, conns, chans
  <1>2. event[p] \in Event /\ stored \in Seq(Event)
    BY <1>1 DEF IndInv, TypeInv, TypeOK
  <1>3. /\ Len(stored') = Len(stored) + 1
        /\ stored'[Len(stored) + 1] = event[p]
        /\ \A k \in 1..Len(stored) : stored'[k] = stored[k]
    BY <1>1, <1>2
  <1>4. /\ pc'[p] = "sending" /\ targets'[p] = Receivers(event[p].ws)
        /\ \A q \in Publishers \ {p} : pc'[q] = pc[q] /\ targets'[q] = targets[q]
    BY <1>1 DEF IndInv, TypeInv, TypeOK
  <1> QED BY <1>1, <1>3, <1>4

(* Appending to one channel.                                               *)
LEMMA Appended ==
    ASSUME IndInv, NEW s \in Subs, NEW m \in Message,
           feed' = [feed EXCEPT ![s] = Append(@, m)]
    PROVE  /\ Len(feed'[s]) = Len(feed[s]) + 1 /\ Len(feed[s]) \in Nat
           /\ feed'[s][Len(feed[s]) + 1] = m
           /\ \A i \in 1..Len(feed[s]) : feed'[s][i] = feed[s][i]
           /\ \A t \in Subs \ {s} : feed'[t] = feed[t]
  <1>1. feed[s] \in Seq(Message) /\ Len(feed[s]) \in Nat
    BY DEF IndInv, TypeInv, TypeOK
  <1>2. /\ feed'[s] = Append(feed[s], m)
        /\ \A t \in Subs \ {s} : feed'[t] = feed[t]
    BY DEF IndInv, TypeInv, TypeOK
  <1> QED BY <1>1, <1>2

(* A replay holds stored events only, in the order they were stored.        *)
LEMMA ReplayInOrder ==
    ASSUME IndInv, NEW s \in Subs, NEW w \in Workspaces, NEW a \in Nat, Subscribe(s, w, a)
    PROVE  /\ \A t \in Subs \ {s} : feed'[t] = feed[t]
           /\ \A i \in 1..Len(feed'[s]) : feed'[s][i] \in Event =>
                \E k \in 1..Len(stored) : stored[k] = feed'[s][i]
           /\ \A i, j \in 1..Len(feed'[s]) :
                i < j /\ feed'[s][i] \in Event /\ feed'[s][j] \in Event =>
                  \E k, l \in 1..Len(stored) :
                     k < l /\ stored[k] = feed'[s][i] /\ stored[l] = feed'[s][j]
  <1>1. PICK pick \in InOrder(Matching(w, a)) :
          LET mark == IF HasGap(w, a) THEN <<SnapshotRequired>> ELSE <<>>
              fit  == Smaller(Len(pick), MaxSubBuffer - Len(mark))
          IN  feed' = [feed EXCEPT ![s] = mark \o [i \in 1..fit |-> HistoryAt(pick[i])]]
    BY DEF Subscribe
  <1> DEFINE mark == IF HasGap(w, a) THEN <<SnapshotRequired>> ELSE <<>>
             fit == Smaller(Len(pick), MaxSubBuffer - Len(mark))
             q == mark \o [i \in 1..fit |-> HistoryAt(pick[i])]
  <1>2. /\ q \in Seq(Message) /\ fit \in 0..Len(pick)
        /\ Len(q) = Len(mark) + fit
        /\ \A i \in 1..Len(q) :
             q[i] = IF i <= Len(mark) THEN SnapshotRequired ELSE HistoryAt(pick[i - Len(mark)])
    <2>1. mark \in {<<>>, <<SnapshotRequired>>}
      OBVIOUS
    <2> HIDE DEF mark
    <2>2. q \in Seq(Message) /\ fit \in 0..Len(pick)
      BY <2>1, ReplayFits
    <2>3. Len(q) = Len(mark) + fit
      BY <2>1, ReplayFits
    <2>4. \A i \in 1..Len(q) :
            q[i] = IF i <= Len(mark) THEN SnapshotRequired ELSE HistoryAt(pick[i - Len(mark)])
      BY <2>1, ReplayFits
    <2> QED BY <2>2, <2>3, <2>4
  <1>3. Len(mark) \in Nat /\ feed' = [feed EXCEPT ![s] = q]
    BY <1>1
  <1> HIDE DEF mark, fit, q
  <1>4. feed'[s] = q /\ \A t \in Subs \ {s} : feed'[t] = feed[t]
    BY <1>3 DEF IndInv, TypeInv, TypeOK
  <1>5. /\ Len(pick) \in Nat
        /\ pick \in [1..Len(pick) -> 1..historyCount]
    BY MatchingType
  <1>6. \A i, j \in 1..Len(pick) : i < j => pick[i] < pick[j]
    <2>1. PICK n \in 0..historyCount :
            /\ pick \in [1..n -> Matching(w, a)]
            /\ \A i, j \in 1..n : i < j => pick[i] < pick[j]
      BY DEF InOrder
    <2>2. n \in Nat
      BY DEF IndInv, TypeInv, TypeOK
    <2>3. Len(pick) = n
      BY <2>1, <2>2
    <2> QED BY <2>1, <2>3
  <1> DEFINE at(k) == Len(stored) - historyCount + k
  <1>7. /\ historyCount \in Nat
        /\ \A k \in 1..historyCount : at(k) \in 1..Len(stored) /\ HistoryAt(k) = stored[at(k)]
        /\ \A k, l \in 1..historyCount : k < l => at(k) < at(l)
    <2>1. historyCount \in Nat /\ historyCount <= Len(stored) /\ Len(stored) \in Nat
      BY HubConstants DEF IndInv, TypeInv, TypeOK, RingHoldsLatest, Smaller
    <2> QED BY <2>1 DEF IndInv, RingHoldsLatest
  <1> HIDE DEF at
  <1>8. \A i \in 1..Len(q) : q[i] \in Event =>
          i - Len(mark) \in 1..Len(pick) /\ q[i] = HistoryAt(pick[i - Len(mark)])
    <2> SUFFICES ASSUME NEW i \in 1..Len(q), q[i] \in Event
                 PROVE  i - Len(mark) \in 1..Len(pick) /\ q[i] = HistoryAt(pick[i - Len(mark)])
      OBVIOUS
    <2>1. i > Len(mark)
      BY <1>2, <1>3, Disjoint
    <2>2. i - Len(mark) \in 1..Len(pick)
      BY <2>1, <1>2, <1>3, <1>5
    <2> QED BY <2>1, <2>2, <1>2, <1>3
  <1>9. ASSUME NEW i \in 1..Len(q), q[i] \in Event
        PROVE  /\ pick[i - Len(mark)] \in 1..historyCount
               /\ at(pick[i - Len(mark)]) \in 1..Len(stored)
               /\ stored[at(pick[i - Len(mark)])] = q[i]
    BY <1>5, <1>7, <1>8, <1>9
  <1>10. ASSUME NEW i \in 1..Len(q), NEW j \in 1..Len(q), i < j, q[i] \in Event, q[j] \in Event
         PROVE  \E k, l \in 1..Len(stored) : k < l /\ stored[k] = q[i] /\ stored[l] = q[j]
    <2>1. i - Len(mark) < j - Len(mark)
      BY <1>10, <1>2, <1>3
    <2>2. pick[i - Len(mark)] < pick[j - Len(mark)]
      BY <2>1, <1>6, <1>8, <1>10
    <2> QED BY <2>2, <1>7, <1>9, <1>10
  <1>11. \A i \in 1..Len(q) : q[i] \in Event => \E k \in 1..Len(stored) : stored[k] = q[i]
    BY <1>9
  <1> QED BY <1>4, <1>10, <1>11

(* Every step keeps the order of what is stored.                            *)
LEMMA StoreOrderStep == IndInv /\ Numbered /\ StoreOrder /\ [Next]_vars => StoreOrder'
  <1> SUFFICES ASSUME IndInv, Numbered, StoreOrder, [Next]_vars PROVE StoreOrder'
    OBVIOUS
  <1>0. /\ Len(stored) \in Nat /\ sequence \in Nat
        /\ \A k \in 1..Len(stored) : stored[k] \in Event /\ stored[k].seq \in Int
        /\ \A p \in Publishers : pc[p] # "idle" => event[p] \in Event /\ event[p].seq \in Int
        /\ \A s \in Subs : joined[s] \in Nat
    BY HubFacts
  <1>1. ASSUME NEW p \in Publishers, NEW w \in Workspaces, TakeSequence(p, w) PROVE StoreOrder'
    <2>1. /\ event' = [event EXCEPT
                ![p] = [type |-> "event", ws |-> w, seq |-> sequence + 1, by |-> p]]
          /\ pc' = [pc EXCEPT ![p] = "numbered"]
          /\ stored' = stored /\ joined' = joined
      BY <1>1 DEF TakeSequence, ring, conns
    <2>2. /\ event'[p].seq = sequence + 1 /\ event'[p].by = p /\ pc'[p] = "numbered"
          /\ \A q \in Publishers \ {p} : event'[q] = event[q] /\ pc'[q] = pc[q]
      BY <2>1 DEF IndInv, TypeInv, TypeOK
    <2>3. \A i \in 1..Len(stored) : stored[i].seq < sequence + 1
      BY <1>0 DEF Numbered
    <2> QED BY <2>1, <2>2, <2>3 DEF StoreOrder
  <1>2. ASSUME NEW p \in Publishers, StoreAndCopy(p) PROVE StoreOrder'
    <2> DEFINE n == Len(stored)
    <2>1. /\ Len(stored') = n + 1 /\ stored'[n + 1] = event[p]
          /\ \A k \in 1..n : stored'[k] = stored[k]
          /\ pc[p] = "numbered" /\ pc'[p] = "sending" /\ event' = event
          /\ \A q \in Publishers \ {p} : pc'[q] = pc[q]
          /\ joined' = joined
      BY <1>2, StoreShape
    <2>2. n \in Nat /\ event[p].by = p
      BY <1>0, <2>1 DEF StoreOrder
    <2>3. \A i \in 1..n : stored[i].by = p => stored[i].seq < event[p].seq
      BY <2>1 DEF StoreOrder
    <2>4. \A s \in Subs : joined'[s] <= Len(stored')
      BY <1>0, <2>1, <2>2 DEF StoreOrder
    <2> HIDE DEF n
    <2>5. \A i, j \in 1..Len(stored') :
            i < j /\ stored'[i].by = stored'[j].by => stored'[i].seq < stored'[j].seq
      <3> SUFFICES ASSUME NEW i \in 1..Len(stored'), NEW j \in 1..Len(stored'), i < j,
                          stored'[i].by = stored'[j].by
                   PROVE  stored'[i].seq < stored'[j].seq
        OBVIOUS
      <3>1. i \in 1..n /\ stored'[i] = stored[i]
        BY <2>1, <2>2
      <3>2. CASE j \in 1..n
        BY <3>1, <3>2, <2>1 DEF StoreOrder, n
      <3>3. CASE j = n + 1
        BY <3>1, <3>3, <2>1, <2>2, <2>3
      <3> QED BY <3>2, <3>3, <2>1, <2>2
    <2>6. \A q \in Publishers : pc'[q] # "idle" => event'[q].by = q
      BY <2>1, <2>2 DEF StoreOrder
    <2>7. ASSUME NEW q \in Publishers, pc'[q] = "numbered",
                 NEW i \in 1..Len(stored'), stored'[i].by = q
          PROVE  stored'[i].seq < event'[q].seq
      <3>1. q # p /\ pc[q] = "numbered"
        BY <2>1, <2>7
      <3>2. i \in 1..n /\ stored'[i] = stored[i]
        BY <3>1, <2>1, <2>2, <2>7
      <3> QED BY <3>1, <3>2, <2>1, <2>7 DEF StoreOrder, n
    <2> QED BY <2>4, <2>5, <2>6, <2>7 DEF StoreOrder
  <1>3. ASSUME NEW p \in Publishers, NEW s \in Subs,
               SkipGone(p, s) \/ Enqueue(p, s) \/ ChannelFull(p, s) \/ SendGap(p, s)
        PROVE StoreOrder'
    <2>1. /\ stored' = stored /\ event' = event /\ joined' = joined
          /\ \A q \in Publishers : pc'[q] # pc[q] =>
                pc[q] \in {"sending", "gap"} /\ pc'[q] \in {"sending", "gap"}
      BY <1>3 DEF SkipGone, Enqueue, ChannelFull, SendGap, ring, conns, IndInv, TypeInv, TypeOK
    <2> QED BY <2>1 DEF StoreOrder
  <1>4. ASSUME NEW p \in Publishers, PublishReturn(p) PROVE StoreOrder'
    <2>1. /\ stored' = stored /\ joined' = joined /\ pc'[p] = "idle"
          /\ \A q \in Publishers \ {p} : pc'[q] = pc[q] /\ event'[q] = event[q]
      BY <1>4 DEF PublishReturn, ring, conns, IndInv, TypeInv, TypeOK
    <2> QED BY <2>1 DEF StoreOrder
  <1>5. ASSUME NEW s \in Subs, NEW w \in Workspaces, NEW a, Subscribe(s, w, a) PROVE StoreOrder'
    <2>1. /\ UNCHANGED <<stored, event, pc>>
          /\ joined' = [joined EXCEPT ![s] = Len(stored)]
      BY <1>5 DEF Subscribe, ring, pubs
    <2>2. \A t \in Subs : joined'[t] = joined[t] \/ joined'[t] = Len(stored)
      BY <2>1 DEF IndInv, TypeInv, TypeOK
    <2> QED BY <2>1, <2>2, <1>0 DEF StoreOrder
  <1>6. ASSUME UNCHANGED <<stored, event, pc, joined>> PROVE StoreOrder'
    BY <1>6 DEF StoreOrder
  <1>7. ASSUME NEW s \in Subs, NEW w \in Workspaces, NEW a,
               \/ SubscribeRefused(s, w, a) \/ Consume(s) \/ ConsumeZero(s) \/ Unregister(s)
               \/ CloseDone(s) \/ RefusedLeaves(s)
        PROVE UNCHANGED <<stored, event, pc, joined>>
    BY <1>7 DEF SubscribeRefused, Consume, ConsumeZero, Unregister, CloseDone, RefusedLeaves,
      ring, pubs, conns
  <1>8. UNCHANGED vars => UNCHANGED <<stored, event, pc, joined>>
    BY DEF vars, ring, pubs, conns
  <1>9. \E w \in Workspaces : TRUE
    BY HubConstants
  <1> QED BY <1>1, <1>2, <1>3, <1>4, <1>5, <1>6, <1>7, <1>8, <1>9
          DEF Next, PublisherStep, ConnectionStep

(* The steps that put nothing into a channel, store nothing, let nobody     *)
(* join, and only take connections off a publisher's list.                  *)
Quiet ==
    /\ UNCHANGED <<feed, stored, joined>>
    /\ \A p \in Publishers : targets'[p] \subseteq targets[p]
    /\ \A p \in Publishers : targets[p] # {} => event'[p] = event[p]

(* Every step is quiet or one of five kinds.                                *)
LEMMA StepKinds ==
    ASSUME IndInv, Owed, [Next]_vars
    PROVE  \/ Quiet
           \/ \E p \in Publishers : StoreAndCopy(p)
           \/ \E p \in Publishers, s \in Subs : Enqueue(p, s)
           \/ \E s \in Subs : /\ feed' = [feed EXCEPT ![s] = Append(@, GapEvent)]
                              /\ UNCHANGED <<stored, joined, targets, event>>
           \/ \E s \in Subs, w \in Workspaces, a \in Nat : Subscribe(s, w, a)
           \/ \E s \in Subs : ConsumeZero(s)
  <1>0. /\ \A p \in Publishers : pc[p] = "idle" => targets[p] = {}
        /\ \A k \in 1..Len(stored) : stored[k] \in Event
    BY HubFacts DEF Owed
  <1>1. ASSUME NEW p \in Publishers, NEW w \in Workspaces, TakeSequence(p, w) PROVE Quiet
    <2>1. /\ UNCHANGED <<feed, stored, joined, targets>> /\ pc[p] = "idle"
          /\ \A q \in Publishers \ {p} : event'[q] = event[q]
      BY <1>1 DEF TakeSequence, ring, conns, chans, IndInv, TypeInv, TypeOK
    <2> QED BY <2>1, <1>0 DEF Quiet
  <1>2. ASSUME NEW p \in Publishers, NEW s \in Subs, SkipGone(p, s) \/ ChannelFull(p, s)
        PROVE Quiet
    <2>1. /\ UNCHANGED <<feed, stored, joined, event>>
          /\ targets' = [targets EXCEPT ![p] = @ \ {s}]
      BY <1>2 DEF SkipGone, ChannelFull, ring, conns, chans
    <2> QED BY <2>1 DEF Quiet, IndInv, TypeInv, TypeOK
  <1>3. ASSUME NEW p \in Publishers, NEW s \in Subs, SendGap(p, s)
        PROVE \/ Quiet
              \/ /\ feed' = [feed EXCEPT ![s] = Append(@, GapEvent)]
                 /\ UNCHANGED <<stored, joined, targets, event>>
    BY <1>3 DEF SendGap, ring, conns, Quiet
  <1>4. ASSUME NEW p \in Publishers, PublishReturn(p) PROVE Quiet
    <2>1. /\ UNCHANGED <<feed, stored, joined, targets>> /\ targets[p] = {}
          /\ \A q \in Publishers \ {p} : event'[q] = event[q]
      BY <1>4 DEF PublishReturn, ring, conns, chans, IndInv, TypeInv, TypeOK
    <2> QED BY <2>1 DEF Quiet
  <1>5. ASSUME NEW s \in Subs, NEW w \in Workspaces, NEW a,
               \/ SubscribeRefused(s, w, a) \/ Consume(s) \/ Unregister(s)
               \/ CloseDone(s) \/ RefusedLeaves(s)
        PROVE Quiet
    BY <1>5 DEF SubscribeRefused, Consume, Unregister, CloseDone, RefusedLeaves, Quiet,
      ring, pubs, conns, chans
  <1>6. UNCHANGED vars => Quiet
    BY DEF vars, Quiet, ring, pubs, conns, chans
  <1>7. Cursors \subseteq Nat
    <2>1. \A e \in Event : e.seq \in Nat
      BY HubConstants DEF Event
    <2> QED BY <2>1, <1>0, HubFacts DEF Cursors, Elems
  <1>8. \E w \in Workspaces : TRUE
    BY HubConstants
  <1> QED BY <1>1, <1>2, <1>3, <1>4, <1>5, <1>6, <1>7, <1>8
          DEF Next, PublisherStep, ConnectionStep

(* Every step keeps what is still to be sent live and new.                  *)
LEMMA SendOrderStep ==
    IndInv /\ Numbered /\ Owed /\ StoreOrder /\ SendOrder /\ [Next]_vars => SendOrder'
  <1> SUFFICES ASSUME IndInv, Numbered, Owed, StoreOrder, SendOrder, [Next]_vars PROVE SendOrder'
    OBVIOUS
  <1>0. /\ Len(stored) \in Nat
        /\ \A p \in Publishers : targets[p] \subseteq Subs
        /\ \A p \in Publishers : pc[p] # "idle" => event[p] \in Event
        /\ \A p \in Publishers : targets[p] # {} => event[p] \in Event /\ event[p].by = p
        /\ \A s \in Subs : joined[s] \in Nat
    BY HubFacts DEF Owed, StoreOrder
  <1>1. CASE Quiet
    <2>1. ASSUME NEW p \in Publishers, NEW s \in targets'[p]
          PROVE  s \in targets[p] /\ event'[p] = event[p]
      BY <1>1, <2>1 DEF Quiet
    <2>2. \A s \in Subs : \A e : Live(s, e)' <=> Live(s, e)
      BY <1>1 DEF Quiet, Live
    <2> QED BY <1>0, <1>1, <2>1, <2>2 DEF SendOrder, Quiet
  <1>2. ASSUME NEW p \in Publishers, StoreAndCopy(p) PROVE SendOrder'
    <2>1. /\ Len(stored') = Len(stored) + 1 /\ stored'[Len(stored) + 1] = event[p]
          /\ \A k \in 1..Len(stored) : stored'[k] = stored[k]
          /\ pc[p] = "numbered" /\ event' = event /\ joined' = joined /\ feed' = feed
          /\ \A q \in Publishers \ {p} : targets'[q] = targets[q]
          /\ targets'[p] = Receivers(event[p].ws)
      BY <1>2, StoreShape
    <2>2. ASSUME NEW q \in Publishers \ {p}, NEW s \in targets'[q]
          PROVE  /\ Live(s, event[q])'
                 /\ \A i \in 1..Len(feed'[s]) :
                      feed'[s][i] \in Event /\ feed'[s][i].by = q => feed'[s][i].seq < event'[q].seq
      <3>1. s \in targets[q] /\ s \in Subs
        BY <2>1, <2>2, <1>0
      <3>2. Live(s, event[q])
        BY <3>1 DEF SendOrder
      <3> DEFINE e == event[q]
      <3>3. Live(s, e)' /\ e' = e
        <4>1. e' = e
          BY <2>1
        <4>2. \E k \in joined'[s]+1..Len(stored') : stored'[k] = e
          <5>1. PICK k \in joined[s]+1..Len(stored) : stored[k] = e
            BY <3>2 DEF Live
          <5>2. k \in 1..Len(stored) /\ k \in joined'[s]+1..Len(stored')
            BY <1>0, <2>1, <3>1, <5>1
          <5> QED BY <5>1, <5>2, <2>1
        <4> QED BY <4>1, <4>2 DEF Live
      <3> QED BY <3>1, <3>3, <2>1 DEF SendOrder
    <2>3. ASSUME NEW s \in targets'[p]
          PROVE  /\ Live(s, event[p])'
                 /\ \A i \in 1..Len(feed'[s]) :
                      feed'[s][i] \in Event /\ feed'[s][i].by = p => feed'[s][i].seq < event'[p].seq
      <3>1. s \in Subs
        BY <2>1, <2>3 DEF Receivers, Registered
      <3>2. Len(stored) + 1 \in joined'[s]+1..Len(stored')
        BY <3>1, <2>1, <1>0 DEF StoreOrder
      <3>3. Live(s, event[p])'
        BY <3>2, <2>1 DEF Live
      <3>4. ASSUME NEW i \in 1..Len(feed[s]), feed[s][i] \in Event, feed[s][i].by = p
            PROVE  feed[s][i].seq < event[p].seq
        <4>1. PICK k \in 1..Len(stored) : stored[k] = feed[s][i]
          BY <3>1, <3>4 DEF Owed
        <4> QED BY <4>1, <3>4, <2>1 DEF StoreOrder
      <3> QED BY <3>3, <3>4, <2>1
    <2> QED BY <2>2, <2>3 DEF SendOrder
  <1>3. ASSUME NEW p \in Publishers, NEW s \in Subs, Enqueue(p, s) PROVE SendOrder'
    <2>1. /\ feed' = [feed EXCEPT ![s] = Append(@, event[p])]
          /\ stored' = stored /\ event' = event /\ joined' = joined
          /\ targets' = [targets EXCEPT ![p] = @ \ {s}] /\ s \in targets[p]
      BY <1>3 DEF Enqueue, ring, conns
    <2>2. /\ targets'[p] = targets[p] \ {s}
          /\ \A q \in Publishers \ {p} : targets'[q] = targets[q]
      BY <2>1 DEF IndInv, TypeInv, TypeOK
    <2>3. event[p] \in Message /\ event[p].by = p
      BY <2>1, <1>0 DEF Message
    <2>4. /\ Len(feed'[s]) = Len(feed[s]) + 1 /\ Len(feed[s]) \in Nat
          /\ feed'[s][Len(feed[s]) + 1] = event[p]
          /\ \A i \in 1..Len(feed[s]) : feed'[s][i] = feed[s][i]
          /\ \A t \in Subs \ {s} : feed'[t] = feed[t]
      BY <2>1, <2>3, Appended
    <2>5. ASSUME NEW q \in Publishers, NEW t \in targets'[q], NEW i \in 1..Len(feed'[t]),
                 feed'[t][i] \in Event, feed'[t][i].by = q
          PROVE  feed'[t][i].seq < event[q].seq
      <3>1. t \in targets[q] /\ t \in Subs /\ (q = p => t # s)
        BY <2>2, <2>5, <1>0
      <3>2. i \in 1..Len(feed[t]) /\ feed'[t][i] = feed[t][i]
        <4>1. CASE t # s
          BY <4>1, <3>1, <2>4, <2>5
        <4>2. CASE t = s
          <5>1. i # Len(feed[s]) + 1
            BY <4>2, <3>1, <2>3, <2>4, <2>5
          <5> QED BY <4>2, <5>1, <2>4, <2>5
        <4> QED BY <4>1, <4>2
      <3> QED BY <3>1, <3>2, <2>5 DEF SendOrder
    <2>6. ASSUME NEW q \in Publishers, NEW t \in targets'[q] PROVE Live(t, event[q])'
      <3>1. t \in targets[q]
        BY <2>2, <2>6
      <3> QED BY <3>1, <2>1 DEF SendOrder, Live
    <2> QED BY <2>1, <2>5, <2>6 DEF SendOrder
  <1>4. ASSUME NEW s \in Subs, feed' = [feed EXCEPT ![s] = Append(@, GapEvent)],
               UNCHANGED <<stored, joined, targets, event>>
        PROVE  SendOrder'
    <2>1. GapEvent \in Message /\ GapEvent \notin Event
      BY Disjoint DEF Message
    <2>2. /\ Len(feed'[s]) = Len(feed[s]) + 1 /\ Len(feed[s]) \in Nat
          /\ feed'[s][Len(feed[s]) + 1] = GapEvent
          /\ \A i \in 1..Len(feed[s]) : feed'[s][i] = feed[s][i]
          /\ \A t \in Subs \ {s} : feed'[t] = feed[t]
      BY <1>4, <2>1, Appended
    <2>3. ASSUME NEW t \in Subs, NEW i \in 1..Len(feed'[t]), feed'[t][i] \in Event
          PROVE  i \in 1..Len(feed[t]) /\ feed'[t][i] = feed[t][i]
      <3>1. CASE t # s
        BY <3>1, <2>2, <2>3
      <3>2. CASE t = s
        <4>1. i # Len(feed[s]) + 1
          BY <3>2, <2>1, <2>2, <2>3
        <4> QED BY <3>2, <4>1, <2>2, <2>3
      <3> QED BY <3>1, <3>2
    <2>4. \A q \in Publishers : \A t \in targets[q] : Live(t, event[q])'
      BY <1>4 DEF SendOrder, Live
    <2> QED BY <1>0, <1>4, <2>3, <2>4 DEF SendOrder
  <1>5. ASSUME NEW s \in Subs, NEW w \in Workspaces, NEW a \in Nat,
               Subscribe(s, w, a) \/ ConsumeZero(s)
        PROVE  SendOrder'
    <2>1. \A p \in Publishers : s \notin targets[p]
      BY <1>5 DEF Subscribe, ConsumeZero, IndInv, TypeInv, OnlySubscribed
    <2>2. /\ UNCHANGED <<stored, targets, event>>
          /\ \A t \in Subs \ {s} : feed'[t] = feed[t] /\ joined'[t] = joined[t]
      <3>1. CASE Subscribe(s, w, a)
        <4>1. \A t \in Subs \ {s} : feed'[t] = feed[t]
          BY <3>1, ReplayInOrder
        <4> QED BY <3>1, <4>1 DEF Subscribe, ring, pubs, IndInv, TypeInv, TypeOK
      <3>2. CASE ConsumeZero(s)
        BY <3>2 DEF ConsumeZero, ring, pubs, conns, IndInv, TypeInv, TypeOK
      <3> QED BY <3>1, <3>2, <1>5
    <2>3. ASSUME NEW p \in Publishers, NEW t \in targets'[p]
          PROVE  t \in targets[p] /\ t \in Subs \ {s}
      BY <1>0, <2>1, <2>2, <2>3
    <2>4. ASSUME NEW p \in Publishers, NEW t \in targets'[p] PROVE Live(t, event[p])'
      <3>1. Live(t, event[p]) /\ joined'[t] = joined[t]
        BY <2>2, <2>3, <2>4 DEF SendOrder
      <3> QED BY <3>1, <2>2 DEF Live
    <2> QED BY <2>2, <2>3, <2>4 DEF SendOrder
  <1>6. \E w \in Workspaces : TRUE
    BY HubConstants
  <1> QED BY <1>1, <1>2, <1>3, <1>4, <1>5, <1>6, StepKinds

(* Every step keeps both orders within a channel: replayed before live, and *)
(* each goroutine's in the order of its numbers.                            *)
LEMMA FeedOrderStep ==
    IndInv /\ Numbered /\ Owed /\ StoreOrder /\ SendOrder
      /\ ReplayBeforeLive /\ PublisherOrder /\ [Next]_vars
    => ReplayBeforeLive' /\ PublisherOrder'
  <1> SUFFICES ASSUME IndInv, Numbered, Owed, StoreOrder, SendOrder,
                      ReplayBeforeLive, PublisherOrder, [Next]_vars
               PROVE  ReplayBeforeLive' /\ PublisherOrder'
    OBVIOUS
  <1>0. /\ Len(stored) \in Nat
        /\ \A p \in Publishers : targets[p] \subseteq Subs
        /\ \A p \in Publishers : pc[p] # "idle" => event[p] \in Event
        /\ \A p \in Publishers : targets[p] # {} => event[p] \in Event /\ event[p].by = p
        /\ \A s \in Subs : joined[s] \in Nat /\ Len(feed[s]) \in Nat
        /\ \A k \in 1..Len(stored) : stored[k] \in Event
    BY HubFacts DEF Owed, StoreOrder
  <1>1. CASE Quiet
    BY <1>1 DEF Quiet, ReplayBeforeLive, PublisherOrder, Live
  <1>2. ASSUME NEW p \in Publishers, StoreAndCopy(p) PROVE ReplayBeforeLive' /\ PublisherOrder'
    <2>1. /\ Len(stored') = Len(stored) + 1 /\ stored'[Len(stored) + 1] = event[p]
          /\ \A k \in 1..Len(stored) : stored'[k] = stored[k]
          /\ pc[p] = "numbered" /\ event' = event /\ joined' = joined /\ feed' = feed
      BY <1>2, StoreShape
    <2>2. ASSUME NEW s \in Subs, NEW i \in 1..Len(feed[s]), feed[s][i] \in Event
          PROVE  Live(s, feed[s][i])' <=> Live(s, feed[s][i])
      <3> DEFINE e == feed[s][i]
      <3>1. e' = e
        BY <2>1
      <3>2. PICK k \in 1..Len(stored) : stored[k] = e
        BY <2>2 DEF Owed
      <3>3. e # event[p]
        BY <3>2, <2>1 DEF Numbered
      <3> HIDE DEF e
      <3>4. (\E l \in joined'[s]+1..Len(stored') : stored'[l] = e)
              <=> (\E l \in joined[s]+1..Len(stored) : stored[l] = e)
        BY <3>3, <2>1, <1>0
      <3> QED BY <3>1, <3>4 DEF Live, e
    <2>3. ReplayBeforeLive'
      <3> SUFFICES ASSUME NEW s \in Subs, NEW i \in 1..Len(feed[s]), NEW j \in 1..Len(feed[s]),
                          i < j, feed[s][i] \in Event, feed[s][j] \in Event, Live(s, feed[s][i])'
                   PROVE  Live(s, feed[s][j])'
        BY <2>1 DEF ReplayBeforeLive
      <3> QED BY <2>2 DEF ReplayBeforeLive
    <2>4. PublisherOrder'
      BY <2>1 DEF PublisherOrder
    <2> QED BY <2>3, <2>4
  <1>3. ASSUME NEW s \in Subs, NEW m \in Message,
               feed' = [feed EXCEPT ![s] = Append(@, m)], UNCHANGED <<stored, joined>>,
               m \in Event => /\ Live(s, m)
                              /\ \A i \in 1..Len(feed[s]) :
                                   feed[s][i] \in Event /\ feed[s][i].by = m.by
                                   => feed[s][i].seq < m.seq
        PROVE  ReplayBeforeLive' /\ PublisherOrder'
    <2>1. /\ Len(feed'[s]) = Len(feed[s]) + 1 /\ Len(feed[s]) \in Nat
          /\ feed'[s][Len(feed[s]) + 1] = m
          /\ \A i \in 1..Len(feed[s]) : feed'[s][i] = feed[s][i]
          /\ \A t \in Subs \ {s} : feed'[t] = feed[t]
      BY <1>3, Appended
    <2>2. \A t \in Subs : \A e : (\E k \in joined'[t]+1..Len(stored') : stored'[k] = e) <=> Live(t, e)
      BY <1>3 DEF Live
    <2>3. ASSUME NEW t \in Subs, NEW i \in 1..Len(feed'[t]), NEW j \in 1..Len(feed'[t]), i < j,
                 feed'[t][i] \in Event, feed'[t][j] \in Event
          PROVE  /\ Live(t, feed'[t][i]) => Live(t, feed'[t][j])
                 /\ feed'[t][i].by = feed'[t][j].by => feed'[t][i].seq < feed'[t][j].seq
      <3>1. CASE t # s
        BY <3>1, <2>1, <2>3 DEF ReplayBeforeLive, PublisherOrder
      <3>2. CASE t = s
        <4>1. i \in 1..Len(feed[s]) /\ feed'[s][i] = feed[s][i]
          BY <3>2, <2>1, <2>3
        <4>2. CASE j \in 1..Len(feed[s])
          BY <3>2, <4>1, <4>2, <2>1, <2>3 DEF ReplayBeforeLive, PublisherOrder
        <4>3. CASE j = Len(feed[s]) + 1
          BY <3>2, <4>1, <4>3, <2>1, <2>3, <1>3
        <4> QED BY <3>2, <4>2, <4>3, <2>1, <2>3
      <3> QED BY <3>1, <3>2
    <2>4. ReplayBeforeLive'
      <3> SUFFICES ASSUME NEW t \in Subs, NEW i \in 1..Len(feed'[t]), NEW j \in 1..Len(feed'[t]),
                          i < j, feed'[t][i] \in Event, feed'[t][j] \in Event,
                          \E k \in joined'[t]+1..Len(stored') : stored'[k] = feed'[t][i]
                   PROVE  \E k \in joined'[t]+1..Len(stored') : stored'[k] = feed'[t][j]
        BY DEF ReplayBeforeLive, Live
      <3> QED BY <2>2, <2>3
    <2>5. PublisherOrder'
      BY <2>3 DEF PublisherOrder
    <2> QED BY <2>4, <2>5
  <1>4. ASSUME NEW p \in Publishers, NEW s \in Subs, Enqueue(p, s)
        PROVE ReplayBeforeLive' /\ PublisherOrder'
    <2>1. /\ feed' = [feed EXCEPT ![s] = Append(@, event[p])]
          /\ UNCHANGED <<stored, joined>> /\ s \in targets[p]
      BY <1>4 DEF Enqueue, ring, conns
    <2>2. event[p] \in Message /\ event[p].by = p
      BY <2>1, <1>0 DEF Message
    <2> QED BY <2>1, <2>2, <1>3 DEF SendOrder
  <1>5. ASSUME NEW s \in Subs, feed' = [feed EXCEPT ![s] = Append(@, GapEvent)],
               UNCHANGED <<stored, joined, targets, event>>
        PROVE  ReplayBeforeLive' /\ PublisherOrder'
    <2>1. GapEvent \in Message /\ GapEvent \notin Event
      BY Disjoint DEF Message
    <2> QED BY <2>1, <1>3, <1>5
  <1>6. ASSUME NEW s \in Subs, NEW w \in Workspaces, NEW a \in Nat, Subscribe(s, w, a)
        PROVE  ReplayBeforeLive' /\ PublisherOrder'
    <2>1. /\ \A t \in Subs \ {s} : feed'[t] = feed[t]
          /\ \A i, j \in 1..Len(feed'[s]) :
               i < j /\ feed'[s][i] \in Event /\ feed'[s][j] \in Event =>
                 \E k, l \in 1..Len(stored) :
                    k < l /\ stored[k] = feed'[s][i] /\ stored[l] = feed'[s][j]
      BY <1>6, ReplayInOrder
    <2>2. /\ joined'[s] = Len(stored) /\ stored' = stored
          /\ \A t \in Subs \ {s} : joined'[t] = joined[t]
      BY <1>6 DEF Subscribe, ring, IndInv, TypeInv, TypeOK
    <2>3. \A e : ~Live(s, e)'
      <3>1. joined'[s]+1..Len(stored') = {}
        BY <2>2, <1>0
      <3> QED BY <3>1 DEF Live
    <2>4. ReplayBeforeLive'
      <3> SUFFICES ASSUME NEW t \in Subs, NEW i \in 1..Len(feed'[t]), NEW j \in 1..Len(feed'[t]),
                          i < j, feed'[t][i] \in Event, feed'[t][j] \in Event,
                          \E k \in joined'[t]+1..Len(stored') : stored'[k] = feed'[t][i]
                   PROVE  \E k \in joined'[t]+1..Len(stored') : stored'[k] = feed'[t][j]
        BY DEF ReplayBeforeLive, Live
      <3>1. CASE t = s
        BY <3>1, <2>2, <1>0
      <3>2. CASE t # s
        BY <3>2, <2>1, <2>2 DEF ReplayBeforeLive, Live
      <3> QED BY <3>1, <3>2
    <2>5. PublisherOrder'
      <3> SUFFICES ASSUME NEW t \in Subs, NEW i \in 1..Len(feed'[t]), NEW j \in 1..Len(feed'[t]),
                          i < j, feed'[t][i] \in Event, feed'[t][j] \in Event,
                          feed'[t][i].by = feed'[t][j].by
                   PROVE  feed'[t][i].seq < feed'[t][j].seq
        BY DEF PublisherOrder
      <3>1. CASE t = s
        <4>1. PICK k \in 1..Len(stored), l \in 1..Len(stored) :
                k < l /\ stored[k] = feed'[s][i] /\ stored[l] = feed'[s][j]
          BY <2>1, <3>1
        <4> QED BY <4>1, <3>1 DEF StoreOrder
      <3>2. CASE t # s
        BY <3>2, <2>1 DEF PublisherOrder
      <3> QED BY <3>1, <3>2
    <2> QED BY <2>4, <2>5
  <1>7. ASSUME NEW s \in Subs, ConsumeZero(s) PROVE ReplayBeforeLive' /\ PublisherOrder'
    <2>1. /\ feed'[s] = <<ZeroEvent>> /\ \A t \in Subs \ {s} : feed'[t] = feed[t]
          /\ stored' = stored /\ joined' = joined
      BY <1>7 DEF ConsumeZero, ring, conns, IndInv, TypeInv, TypeOK
    <2>2. \A i \in 1..Len(feed'[s]) : feed'[s][i] \notin Event
      BY <2>1, Disjoint
    <2>3. ReplayBeforeLive'
      BY <2>1, <2>2 DEF ReplayBeforeLive, Live
    <2>4. PublisherOrder'
      BY <2>1, <2>2 DEF PublisherOrder
    <2> QED BY <2>3, <2>4
  <1> QED BY <1>1, <1>2, <1>4, <1>5, <1>6, <1>7, StepKinds

(* Every step keeps the account of every event a connection is to have.     *)
LEMMA MissStep ==
    IndInv /\ Owed /\ StoreOrder /\ NoSilentMiss /\ [Next]_vars => NoSilentMiss'
  <1> SUFFICES ASSUME IndInv, Owed, StoreOrder, NoSilentMiss, [Next]_vars PROVE NoSilentMiss'
    OBVIOUS
  <1>0. /\ Len(stored) \in Nat
        /\ \A s \in Subs : joined[s] \in Nat /\ Len(feed[s]) \in Nat
        /\ \A p \in Publishers : pc[p] \in {"idle", "numbered"} => targets[p] = {}
        /\ \A p \in Publishers : pc[p] # "idle" => event[p] \in Event
    BY HubFacts DEF Owed
  (* Steps that store nothing new: a publisher that drops a registered      *)
  (* connection has sent to it or recorded the loss.                        *)
  <1>1. ASSUME stored' = stored,
               \A s \in Subs : phase'[s] = "serving" => phase[s] = "serving",
               \A s \in Subs : phase'[s] = "serving" =>
                 workspace'[s] = workspace[s] /\ joined'[s] = joined[s],
               \A s \in Subs : phase'[s] = "serving" =>
                 Elems(feed[s]) \cup lost[s] \subseteq Elems(feed'[s]) \cup lost'[s],
               \A s \in Subs : phase'[s] = "serving" => \A p \in Publishers :
                 s \in targets[p] => \/ s \in targets'[p] /\ event'[p] = event[p]
                                     \/ event[p] \in Elems(feed'[s]) \cup lost'[s]
        PROVE  NoSilentMiss'
    <2> SUFFICES ASSUME NEW s \in Subs, phase'[s] = "serving",
                        NEW k \in joined'[s]+1..Len(stored'),
                        stored'[k].ws = workspace'[s],
                        \A p \in Publishers : event'[p] = stored'[k] => s \notin targets'[p]
                 PROVE  stored'[k] \in Elems(feed'[s]) \cup lost'[s]
      BY DEF NoSilentMiss, Registered
    <2>1. CASE \E p \in Publishers : event[p] = stored[k] /\ s \in targets[p]
      BY <2>1, <1>1
    <2>2. CASE \A p \in Publishers : event[p] = stored[k] => s \notin targets[p]
      <3>1. s \in Registered /\ k \in joined[s]+1..Len(stored) /\ stored[k].ws = workspace[s]
        BY <1>1 DEF Registered
      <3>2. stored[k] \in Elems(feed[s]) \cup lost[s]
        BY <2>2, <3>1 DEF NoSilentMiss
      <3> QED BY <3>2, <1>1
    <2> QED BY <2>1, <2>2
  <1>2. ASSUME NEW p \in Publishers, NEW w \in Workspaces, TakeSequence(p, w) PROVE NoSilentMiss'
    <2>1. /\ UNCHANGED <<stored, targets, phase, workspace, joined, feed, lost>> /\ targets[p] = {}
          /\ \A q \in Publishers \ {p} : event'[q] = event[q]
      BY <1>2, <1>0 DEF TakeSequence, ring, conns, chans, IndInv, TypeInv, TypeOK
    <2> QED BY <2>1, <1>1
  <1>3. ASSUME NEW p \in Publishers, StoreAndCopy(p) PROVE NoSilentMiss'
    <2>1. /\ Len(stored') = Len(stored) + 1 /\ stored'[Len(stored) + 1] = event[p]
          /\ \A k \in 1..Len(stored) : stored'[k] = stored[k]
          /\ pc[p] = "numbered" /\ event' = event
          /\ \A q \in Publishers \ {p} : targets'[q] = targets[q]
          /\ targets'[p] = Receivers(event[p].ws)
          /\ UNCHANGED <<phase, workspace, joined, feed, lost>>
      BY <1>3, StoreShape
    <2> SUFFICES ASSUME NEW s \in Subs, phase[s] = "serving",
                        NEW k \in joined[s]+1..Len(stored) + 1,
                        stored'[k].ws = workspace[s],
                        \A q \in Publishers : event[q] = stored'[k] => s \notin targets'[q]
                 PROVE  stored'[k] \in Elems(feed[s]) \cup lost[s]
      BY <2>1 DEF NoSilentMiss, Registered, Elems
    <2>2. k # Len(stored) + 1
      <3>1. event[p].ws = workspace[s] => s \in targets'[p]
        BY <2>1 DEF Receivers, Registered
      <3> QED BY <3>1, <2>1
    <2>3. k \in joined[s]+1..Len(stored) /\ k \in 1..Len(stored) /\ stored'[k] = stored[k]
      BY <2>1, <2>2, <1>0
    <2>4. \A q \in Publishers : event[q] = stored[k] => s \notin targets[q]
      BY <2>1, <2>3, <1>0
    <2> QED BY <2>3, <2>4 DEF NoSilentMiss, Registered
  <1>4. ASSUME NEW p \in Publishers, NEW s \in Subs, SkipGone(p, s) PROVE NoSilentMiss'
    <2>1. /\ UNCHANGED <<stored, event, phase, workspace, joined, feed, lost>> /\ phase[s] = "gone"
          /\ targets' = [targets EXCEPT ![p] = @ \ {s}]
      BY <1>4 DEF SkipGone, ring, conns, chans
    <2>2. \A q \in Publishers : \A t \in targets[q] : t # s => t \in targets'[q]
      BY <2>1 DEF IndInv, TypeInv, TypeOK
    <2> QED BY <2>1, <2>2, <1>1
  <1>5. ASSUME NEW p \in Publishers, NEW s \in Subs, Enqueue(p, s) PROVE NoSilentMiss'
    <2>1. /\ feed' = [feed EXCEPT ![s] = Append(@, event[p])]
          /\ UNCHANGED <<stored, event, phase, workspace, joined, lost>> /\ s \in targets[p]
          /\ targets' = [targets EXCEPT ![p] = @ \ {s}] /\ pc[p] = "sending"
      BY <1>5 DEF Enqueue, ring, conns
    <2>2. \A q \in Publishers : \A t \in targets[q] : q # p \/ t # s => t \in targets'[q]
      BY <2>1 DEF IndInv, TypeInv, TypeOK
    <2>3. event[p] \in Message
      BY <2>1, <1>0 DEF Message
    <2>4. /\ Len(feed'[s]) = Len(feed[s]) + 1 /\ Len(feed[s]) \in Nat
          /\ feed'[s][Len(feed[s]) + 1] = event[p]
          /\ \A i \in 1..Len(feed[s]) : feed'[s][i] = feed[s][i]
          /\ \A t \in Subs \ {s} : feed'[t] = feed[t]
      BY <2>1, <2>3, Appended
    <2>5. event[p] \in Elems(feed'[s])
      <3>1. Len(feed[s]) + 1 \in 1..Len(feed'[s])
        BY <2>4
      <3> QED BY <3>1, <2>4 DEF Elems
    <2>6. \A t \in Subs : Elems(feed[t]) \subseteq Elems(feed'[t])
      <3>1. \A i \in 1..Len(feed[s]) : i \in 1..Len(feed'[s])
        BY <2>4
      <3> QED BY <3>1, <2>4 DEF Elems
    <2> QED BY <2>1, <2>2, <2>5, <2>6, <1>1
  <1>6. ASSUME NEW p \in Publishers, NEW s \in Subs, ChannelFull(p, s) PROVE NoSilentMiss'
    <2>1. /\ lost' = [lost EXCEPT ![s] = @ \cup {event[p]}]
          /\ UNCHANGED <<stored, event, phase, workspace, joined, feed>>
          /\ targets' = [targets EXCEPT ![p] = @ \ {s}]
      BY <1>6 DEF ChannelFull, ring, conns
    <2>2. /\ \A q \in Publishers : \A t \in targets[q] : q # p \/ t # s => t \in targets'[q]
          /\ event[p] \in lost'[s] /\ \A t \in Subs : lost[t] \subseteq lost'[t]
      BY <2>1 DEF IndInv, TypeInv, TypeOK
    <2> QED BY <2>1, <2>2, <1>1
  <1>7. ASSUME NEW p \in Publishers, NEW s \in Subs, SendGap(p, s) PROVE NoSilentMiss'
    <2>1. /\ UNCHANGED <<stored, event, phase, workspace, joined, lost, targets>>
          /\ feed' = [feed EXCEPT ![s] = Append(@, GapEvent)] \/ feed' = feed
      BY <1>7 DEF SendGap, ring, conns
    <2>2. \A t \in Subs : Elems(feed[t]) \subseteq Elems(feed'[t])
      <3>1. CASE feed' = feed
        BY <3>1
      <3>2. CASE feed' = [feed EXCEPT ![s] = Append(@, GapEvent)]
        <4>1. GapEvent \in Message
          BY DEF Message
        <4>2. /\ Len(feed'[s]) = Len(feed[s]) + 1 /\ Len(feed[s]) \in Nat
              /\ \A i \in 1..Len(feed[s]) : feed'[s][i] = feed[s][i]
              /\ \A t \in Subs \ {s} : feed'[t] = feed[t]
          BY <3>2, <4>1, Appended
        <4>3. \A i \in 1..Len(feed[s]) : i \in 1..Len(feed'[s])
          BY <4>2
        <4> QED BY <4>2, <4>3 DEF Elems
      <3> QED BY <2>1, <3>1, <3>2
    <2> QED BY <2>1, <2>2, <1>1
  <1>8. ASSUME NEW p \in Publishers, PublishReturn(p) PROVE NoSilentMiss'
    <2>1. /\ UNCHANGED <<stored, targets, phase, workspace, joined, feed, lost>> /\ targets[p] = {}
          /\ \A q \in Publishers \ {p} : event'[q] = event[q]
      BY <1>8 DEF PublishReturn, ring, conns, chans, IndInv, TypeInv, TypeOK
    <2> QED BY <2>1, <1>1
  <1>9. ASSUME NEW s \in Subs, NEW w \in Workspaces, NEW a \in Nat, Subscribe(s, w, a)
        PROVE NoSilentMiss'
    <2>1. \A t \in Subs \ {s} : feed'[t] = feed[t]
      BY <1>9, ReplayInOrder
    <2>2. /\ UNCHANGED <<stored, targets, event, lost>>
          /\ joined'[s] = Len(stored)
          /\ \A t \in Subs \ {s} : /\ phase'[t] = phase[t] /\ workspace'[t] = workspace[t]
                                   /\ joined'[t] = joined[t]
      BY <1>9 DEF Subscribe, ring, pubs, IndInv, TypeInv, TypeOK
    <2> SUFFICES ASSUME NEW t \in Subs, phase'[t] = "serving",
                        NEW k \in joined'[t]+1..Len(stored),
                        stored[k].ws = workspace'[t],
                        \A p \in Publishers : event[p] = stored[k] => t \notin targets[p]
                 PROVE  stored[k] \in Elems(feed'[t]) \cup lost[t]
      BY <2>2 DEF NoSilentMiss, Registered
    <2>3. CASE t = s
      BY <2>3, <2>2, <1>0
    <2>4. CASE t # s
      BY <2>4, <2>1, <2>2 DEF NoSilentMiss, Registered
    <2> QED BY <2>3, <2>4
  <1>10. ASSUME NEW s \in Subs, NEW w \in Workspaces, NEW a,
               \/ SubscribeRefused(s, w, a) \/ ConsumeZero(s) \/ Unregister(s)
               \/ CloseDone(s) \/ RefusedLeaves(s)
         PROVE  NoSilentMiss'
    <2>1. /\ UNCHANGED <<stored, targets, event, lost>>
          /\ phase'[s] # "serving"
          /\ \A t \in Subs \ {s} : /\ phase'[t] = phase[t] /\ workspace'[t] = workspace[t]
                                   /\ joined'[t] = joined[t] /\ feed'[t] = feed[t]
      BY <1>10 DEF SubscribeRefused, ConsumeZero, Unregister, CloseDone, RefusedLeaves,
        ring, pubs, conns, chans, IndInv, TypeInv, TypeOK
    <2> QED BY <2>1, <1>1
  <1>11. ASSUME UNCHANGED <<stored, targets, event, phase, workspace, joined, feed, lost>>
         PROVE  NoSilentMiss'
    BY <1>11, <1>1
  <1>12. ASSUME NEW s \in Subs, Consume(s)
         PROVE  UNCHANGED <<stored, targets, event, phase, workspace, joined, feed, lost>>
    BY <1>12 DEF Consume, ring, pubs, conns
  <1>13. UNCHANGED vars => UNCHANGED <<stored, targets, event, phase, workspace, joined, feed, lost>>
    BY DEF vars, ring, pubs, conns, chans
  <1>14. Cursors \subseteq Nat /\ \E w \in Workspaces : TRUE
    <2>1. \A e \in Event : e.seq \in Nat
      BY HubConstants DEF Event
    <2> QED BY <2>1, HubFacts, HubConstants DEF Cursors, Elems
  <1> QED BY <1>2, <1>3, <1>4, <1>5, <1>6, <1>7, <1>8, <1>9, <1>10, <1>11, <1>12, <1>13, <1>14
          DEF Next, PublisherStep, ConnectionStep

(* The three guarantees of delivery hold together in every reachable state. *)
LEMMA OrderIsInvariant == Spec => []OrderInv
  <1>1. Init => OrderInv
    BY TypeInit, DeliveryInit, OrderInit DEF OrderInv, DeliveryInv
  <1>2. OrderInv /\ [Next]_vars => OrderInv'
    <2> SUFFICES ASSUME OrderInv, [Next]_vars PROVE OrderInv'
      OBVIOUS
    <2> USE DEF OrderInv, DeliveryInv
    <2>1. DeliveryInv'
      BY TypeStep, NumberedStep, OwedStep
    <2>2. StoreOrder' /\ SendOrder'
      BY StoreOrderStep, SendOrderStep
    <2>3. ReplayBeforeLive' /\ PublisherOrder' /\ NoSilentMiss'
      BY FeedOrderStep, MissStep
    <2> QED BY <2>1, <2>2, <2>3
  <1> QED BY <1>1, <1>2, PTL DEF Spec

(* A connection is sent everything it replays before anything stored after  *)
(* it joined.                                                               *)
THEOREM ReplayFirst == Spec => []ReplayBeforeLive
  BY OrderIsInvariant, PTL DEF OrderInv

(* Every connection gets the events of one goroutine in the order that      *)
(* goroutine published them, although the hub may deliver those of several  *)
(* out of sequence.                                                         *)
THEOREM InPublisherOrder == Spec => []PublisherOrder
  BY OrderIsInvariant, PTL DEF OrderInv

(* A served connection has, of every event of its workspace stored since it *)
(* joined whose Publish is past it, the event or the record of its loss.    *)
THEOREM NothingMissedSilently == Spec => []NoSilentMiss
  BY OrderIsInvariant, PTL DEF OrderInv
=============================================================================
