-------------------------- MODULE DocumentSyncProofs --------------------------
(***************************************************************************)
(* Theorems about DocumentSync, for every choice of its constants: the     *)
(* types, the three safety invariants of the copies, and that the system   *)
(* implements DocumentMirror.                                              *)
(*                                                                         *)
(* The heart of the inductive invariant is Path.  While the server is      *)
(* ready, the messages on their way to it are a legal sequence of openings,*)
(* changes and closings from its copies as they are to copies that agree   *)
(* with the editor's records: the editor's next message is legal where the *)
(* path ends, and the server's next step is where it begins.  That a       *)
(* server never begins behind such a path is what OneCall and Belief are   *)
(* for: they relate what the browser believes of the server (known) to the *)
(* state events under way, across stops, crashes and restarts.             *)
(***************************************************************************)
EXTENDS DocumentSync, FiniteSetTheorems, SequenceTheorems, TLAPS

(* The four kinds of request are told apart all along.                      *)
USE DEF RequestKinds

-----------------------------------------------------------------------------
(* The parts of the invariant                                              *)

(* The browser believes the server ready (currentState).                    *)
Ready == known = "ready"
(* The calls of the lifecycle, their answers, the requests answered with    *)
(* edits, the notifications, and all that concerns a document.              *)
Calls == {"fetch", "start", "stop"}
Answers == {"state", "stopped", "started"}
Requests == {"format", "organize", "reformat"}
Notifications == {"open", "change", "close"}
AboutDoc == {"open", "change", "close", "complete", "format", "organize", "reformat"}

(* The text a change ends with, and ranges that each fit the one before.    *)
Last(edits) == edits[Len(edits)].text
Chained(edits) == \A i \in DOMAIN edits : i # 1 => edits[i].full \/ edits[i].text = edits[i - 1].text + 1

(* The sync core's record of a document: it counts as open at the server    *)
(* exactly when it is open and the server is believed ready, and pending    *)
(* edits lead to the newest text and have the timer armed when they can go. *)
Tracked(d) ==
    /\ open[d] => text[d] # 0
    /\ timer[d] => open[d]
    /\ openSent[d] = (open[d] /\ Ready)
    /\ pending[d] # <<>> =>
          open[d] /\ (Ready => timer[d]) /\ Last(pending[d]) = text[d] /\ Chained(pending[d])

(* The request under way is about a text the document had.                  *)
AskInv == ask # NoAsk => (ask.live => open[ask.doc]) /\ ask.text <= text[ask.doc]

EditorInv == (\A d \in Docs : Tracked(d)) /\ AskInv

(* No empty change is sent.                                                 *)
ChangesCarryEdits ==
    \A i \in DOMAIN toServer : toServer[i].kind = "change" => toServer[i].edits # <<>>

(* A request, or its edits, is under way at most once.                      *)
OneRequest ==
    /\ \A i, j \in DOMAIN toServer :
          toServer[i].kind \in Requests /\ toServer[j].kind \in Requests => i = j
    /\ \A i, j \in DOMAIN toBrowser :
          toBrowser[i].kind = "edits" /\ toBrowser[j].kind = "edits" => i = j
    /\ \A i \in DOMAIN toServer, j \in DOMAIN toBrowser :
          ~(toServer[i].kind \in Requests /\ toBrowser[j].kind = "edits")
    /\ \A i \in DOMAIN toServer : toServer[i].kind \in Requests => ask # NoAsk /\ ask.sent
    /\ \A i \in DOMAIN toBrowser : toBrowser[i].kind = "edits" => ask # NoAsk /\ ask.sent

(* The lifecycle's chain has at most one call under way: the message, the   *)
(* start the server is busy with, or the answer, and session says which.    *)
OneCall ==
    /\ \A i, j \in DOMAIN toServer :
          toServer[i].kind \in Calls /\ toServer[j].kind \in Calls => i = j
    /\ \A i, j \in DOMAIN toBrowser :
          toBrowser[i].kind \in Answers /\ toBrowser[j].kind \in Answers => i = j
    /\ \A i \in DOMAIN toServer, j \in DOMAIN toBrowser :
          ~(toServer[i].kind \in Calls /\ toBrowser[j].kind \in Answers)
    /\ \A i \in DOMAIN toServer :
          /\ toServer[i].kind = "fetch" => session \in {"fetching", "dropped"}
          /\ toServer[i].kind = "stop" => session \in {"stopping", "dropped"}
          /\ toServer[i].kind = "start" => session = "starting"
    /\ \A i \in DOMAIN toBrowser :
          /\ toBrowser[i].kind = "state" => session \in {"fetching", "dropped"}
          /\ toBrowser[i].kind = "stopped" => session \in {"stopping", "dropped"}
          /\ toBrowser[i].kind = "started" => session = "starting"
    /\ server = "starting" =>
          /\ session = "starting"
          /\ \A i \in DOMAIN toServer : toServer[i].kind \notin Calls
          /\ \A i \in DOMAIN toBrowser : toBrowser[i].kind \notin Answers

(* What the events under way can still tell the browser.                    *)
NoReadyAhead == \A i \in DOMAIN toBrowser : toBrowser[i].kind # "ready"
SaysDown(e) == e.kind = "stopped" \/ (e.kind = "state" /\ ~e.running)

(* A server that starts is not believed ready and has nothing to read about *)
(* documents.                                                               *)
StartingBelief ==
    server = "starting" =>
       /\ ~Ready /\ NoReadyAhead
       /\ \A i \in DOMAIN toServer : toServer[i].kind \notin AboutDoc

(* Nor is one that is about to be started.                                  *)
StartBelief ==
    \A i \in DOMAIN toServer : toServer[i].kind = "start" =>
       /\ server = "down" /\ ~Ready /\ NoReadyAhead
       /\ \A j \in DOMAIN toServer : i < j => toServer[j].kind \notin AboutDoc

(* An answer that says the server is down is the last word on it so far.    *)
DownSaid ==
    \A i \in DOMAIN toBrowser : SaysDown(toBrowser[i]) =>
       /\ server = "down"
       /\ \A j \in DOMAIN toBrowser : i < j => toBrowser[j].kind \notin {"ready", "down"}

(* A server that is ready is not about to be believed gone, once it has     *)
(* been believed ready.                                                     *)
UpBelief ==
    server = "ready" =>
       /\ Ready => \A i \in DOMAIN toBrowser : toBrowser[i].kind # "down"
       /\ \A i, j \in DOMAIN toBrowser :
             i < j => ~(toBrowser[i].kind = "ready" /\ toBrowser[j].kind = "down")

(* One that is not ready is not believed ready, or will not be for long.    *)
DownBelief ==
    server # "ready" =>
       \/ ~Ready /\ NoReadyAhead
       \/ \E i \in DOMAIN toBrowser :
             /\ toBrowser[i].kind = "down"
             /\ \A j \in DOMAIN toBrowser : i < j => toBrowser[j].kind # "ready"

Belief == StartingBelief /\ StartBelief /\ DownSaid /\ UpBelief /\ DownBelief

(* Messages that set a copy, and the text they set it to.                   *)
Writes(m) == m.kind \in {"open", "change"}
Result(m) == IF m.kind = "open" THEN m.text ELSE Last(m.edits)

(* The texts the server has been shown, those under way and the newest one  *)
(* only grow.                                                               *)
Growth ==
    /\ \A d \in Docs : shown[d] <= text[d]
    /\ \A i \in DOMAIN toServer : Writes(toServer[i]) =>
          /\ shown[toServer[i].doc] <= Result(toServer[i])
          /\ Result(toServer[i]) <= text[toServer[i].doc]
    /\ \A i, j \in DOMAIN toServer :
          i < j /\ Writes(toServer[i]) /\ Writes(toServer[j]) /\ toServer[i].doc = toServer[j].doc
             => Result(toServer[i]) <= Result(toServer[j])

(* What message m makes of the copies c, when it is legal to send it there. *)
Legal(c, m, after) ==
    /\ m.kind = "open" => c[m.doc] = 0 /\ after = [c EXCEPT ![m.doc] = m.text]
    /\ m.kind = "change" => /\ c[m.doc] # 0
                            /\ Fits(c[m.doc], m.edits)
                            /\ after = [c EXCEPT ![m.doc] = Last(m.edits)]
    /\ m.kind = "close" => c[m.doc] # 0 /\ after = [c EXCEPT ![m.doc] = 0]
    /\ m.kind \in {"complete", "format"} => c[m.doc] = 0 \/ c[m.doc] >= m.text
    /\ m.kind \notin Notifications => after = c

(* The copies where the path ends are those the editor's records assume.    *)
CopyCurrent(c, d) ==
    IF Ready /\ open[d]
    THEN c[d] # 0 /\ Fits(c[d], pending[d]) /\ (pending[d] = <<>> => c[d] = text[d])
    ELSE c[d] = 0

(* ... and new enough for the request still to be sent, if it has flushed.  *)
AskCurrent(c) ==
    ask # NoAsk /\ ~ask.sent /\ ask.kind \notin {"organize", "reformat"} =>
       c[ask.doc] = 0 \/ c[ask.doc] >= ask.text

Current(c) == (\A d \in Docs : CopyCurrent(c, d)) /\ AskCurrent(c)

Copies == [Docs -> 0..MaxText]

(* The queue leads from the copies base to the copies c, legally all along. *)
Reaches(base, queue, c) ==
    \E f \in [0..Len(queue) -> Copies] :
       /\ f[0] = base /\ f[Len(queue)] = c
       /\ \A i \in DOMAIN queue : Legal(f[i - 1], queue[i], f[i])

(* The messages on their way are legal from the copies as they are, and end *)
(* where the editor's records say; a server that is not ready has none.     *)
Path ==
    IF server = "ready"
    THEN \E c \in Copies : Reaches(copy, toServer, c) /\ Current(c)
    ELSE \A d \in Docs : copy[d] = 0

(* The items of a sequence that something was added to.                     *)
LEMMA Added ==
    ASSUME NEW S, NEW s \in Seq(S), NEW t \in Seq(S)
    PROVE  /\ s \o t \in Seq(S)
           /\ Len(s \o t) = Len(s) + Len(t)
           /\ \A i \in DOMAIN s : i \in DOMAIN (s \o t) /\ (s \o t)[i] = s[i]
           /\ \A i \in DOMAIN (s \o t) : i \notin DOMAIN s =>
                 i - Len(s) \in DOMAIN t /\ (s \o t)[i] = t[i - Len(s)]
  OBVIOUS

(* The items of the tail of a sequence.                                     *)
LEMMA Tailed ==
    ASSUME NEW S, NEW s \in Seq(S), s # <<>>
    PROVE  /\ Tail(s) \in Seq(S) /\ Head(s) \in S /\ Head(s) = s[1] /\ 1 \in DOMAIN s
           /\ Len(Tail(s)) = Len(s) - 1
           /\ \A i \in DOMAIN Tail(s) : i + 1 \in DOMAIN s /\ i + 1 # 1 /\ Tail(s)[i] = s[i + 1]
  OBVIOUS

(* What a message of each kind carries.                                     *)
LEMMA MessageKinds ==
    ASSUME NEW m \in Messages
    PROVE  /\ m.kind \in AboutDoc \cup Calls \cup {"quit"}
           /\ m.kind \in AboutDoc => m.doc \in Docs
           /\ m.kind = "change" => m.edits \in Seq(Edits)
           /\ m.kind \in {"open"} \cup RequestKinds => m.text \in Texts
  BY DEF Messages, DocMessages, AboutDoc, Calls

(* What an event of each kind carries.                                      *)
LEMMA EventKinds ==
    ASSUME NEW e \in Events
    PROVE  /\ e.kind \in {"ready", "down", "edits"} \cup Answers
           /\ e.kind = "state" => e.running \in BOOLEAN
           /\ e.kind = "edits" => e.text \in 0..Torn
  BY DEF Events, Answers

(* Messages that are built are messages.                                    *)
LEMMA Built ==
    ASSUME NEW d \in Docs
    PROVE  /\ \A n \in Texts : OpenMessage(d, n) \in Messages
           /\ \A edits \in Seq(Edits) : ChangeMessage(d, edits) \in Messages
           /\ [kind |-> "close", doc |-> d] \in Messages
           /\ \A n \in Texts, k \in RequestKinds :
                 [kind |-> k, doc |-> d, text |-> n] \in Messages
           /\ \A k \in {"fetch", "start", "stop", "quit"} : Event(k) \in Messages
           /\ \A k \in {"ready", "down", "started", "stopped"} : Event(k) \in Events
           /\ \A r \in BOOLEAN : [kind |-> "state", running |-> r] \in Events
           /\ \A n \in 0..Torn : [kind |-> "edits", text |-> n] \in Events
  BY DEF OpenMessage, ChangeMessage, Messages, DocMessages, Event, Events

(* Numbered edits are edits.                                                *)
LEMMA BuiltEdits ==
    ASSUME NEW n \in Texts
    PROVE  Ranged(n) \in Edits /\ Whole(n) \in Edits
  BY DEF Ranged, Whole, Edits

(* The part of the invariant about the types and the editor's records.      *)
TypeInv == TypeOK /\ EditorInv /\ ChangesCarryEdits /\ OneRequest

(* What a flush sends: nothing to a server not known to be ready, and       *)
(* otherwise one change, the openings having been sent with the ready event. *)
Sent(n, edits) == IF edits = <<>> THEN <<Whole(n)>> ELSE edits

(* The messages of a flush.                                                 *)
LEMMA FlushForm ==
    ASSUME EditorInv, NEW d \in Docs, open[d], NEW n, NEW edits
    PROVE  /\ ~Ready => /\ FlushMessages(d, n, edits) = <<>>
                        /\ AfterFlush(edits) = edits
                        /\ OpenedAfterFlush(d) = openSent[d]
           /\ Ready => /\ FlushMessages(d, n, edits) = <<ChangeMessage(d, Sent(n, edits))>>
                       /\ AfterFlush(edits) = <<>>
                       /\ openSent[d] /\ OpenedAfterFlush(d)
  BY DEF EditorInv, Tracked, FlushMessages, Ready, Sent, AfterFlush, OpenedAfterFlush

(* What a flush sends ends with the document's newest text.                 *)
LEMMA SentEndsWithText ==
    ASSUME NEW n \in Texts, NEW edits \in Seq(Edits), edits # <<>> => Last(edits) = n
    PROVE  /\ Sent(n, edits) \in Seq(Edits) /\ Sent(n, edits) # <<>>
           /\ Last(Sent(n, edits)) = n
  <1>1. Whole(n) \in Edits /\ Whole(n).text = n
    BY BuiltEdits DEF Whole
  <1>2. CASE edits = <<>>
    BY <1>1, <1>2 DEF Sent, Last
  <1>3. CASE edits # <<>>
    BY <1>3 DEF Sent
  <1> QED BY <1>2, <1>3

(* A change about document d that carries its newest text.                  *)
Carries(ms, d, n) ==
    /\ ms \in Seq(Messages)
    /\ \A i \in DOMAIN ms :
          /\ ms[i].kind \in Notifications /\ ms[i].doc = d
          /\ ms[i].kind = "change" => ms[i].edits # <<>>
          /\ Writes(ms[i]) => Result(ms[i]) = n

(* Every flush carries the newest text.                                     *)
LEMMA FlushCarries ==
    ASSUME EditorInv, NEW d \in Docs, open[d], NEW n \in Texts, NEW edits \in Seq(Edits),
           edits # <<>> => Last(edits) = n
    PROVE  /\ Carries(FlushMessages(d, n, edits), d, n)
           /\ ~Ready => FlushMessages(d, n, edits) = <<>>
           /\ AfterFlush(edits) \in Seq(Edits)
           /\ AfterFlush(edits) # <<>> => ~Ready /\ AfterFlush(edits) = edits
           /\ OpenedAfterFlush(d) = openSent[d]
  <1>1. CASE ~Ready
    <2>1. FlushMessages(d, n, edits) = <<>> /\ AfterFlush(edits) = edits
          /\ OpenedAfterFlush(d) = openSent[d]
      BY <1>1, FlushForm, Zenon
    <2>2. Carries(<<>>, d, n)
      BY DEF Carries
    <2> QED BY <1>1, <2>1, <2>2
  <1>2. CASE Ready
    <2> DEFINE m == ChangeMessage(d, Sent(n, edits))
    <2>1. m \in Messages /\ m.kind = "change" /\ m.doc = d /\ m.edits = Sent(n, edits)
      BY Built, SentEndsWithText DEF ChangeMessage
    <2>2. m.edits # <<>> /\ Last(m.edits) = n
      BY <2>1, SentEndsWithText
    <2> HIDE DEF m
    <2>3. Carries(<<m>>, d, n)
      BY <2>1, <2>2 DEF Carries, Notifications, Writes, Result
    <2>4. FlushMessages(d, n, edits) = <<m>> /\ AfterFlush(edits) = <<>>
          /\ OpenedAfterFlush(d) = openSent[d]
      <3>1. FlushMessages(d, n, edits) = <<m>> /\ AfterFlush(edits) = <<>>
        BY <1>2, FlushForm, Zenon DEF m
      <3>2. OpenedAfterFlush(d) = openSent[d]
        BY <1>2 DEF EditorInv, Tracked, OpenedAfterFlush, Ready
      <3> QED BY <3>1, <3>2
    <2> QED BY <1>2, <2>3, <2>4
  <1> QED BY <1>1, <1>2

-----------------------------------------------------------------------------
(* What a step of the browser puts under way: whole changes, with the       *)
(* newest text, and about documents only while the server is known to be    *)
(* ready.                                                                   *)
Speaks(ms) ==
    /\ ms \in Seq(Messages)
    /\ toServer' = toServer \o ms
    /\ \A i \in DOMAIN ms :
          /\ ms[i].kind = "change" => ms[i].edits # <<>>
          /\ Writes(ms[i]) => Result(ms[i]) = text'[ms[i].doc]
          /\ ms[i].kind \in AboutDoc => Ready'

(* A step of the user or of a timer on a document.                          *)
DocStep ==
    /\ \E ms : Speaks(ms) /\ \A i \in DOMAIN ms : ms[i].kind \in Notifications
    /\ \A d \in Docs : text[d] <= text'[d]
    /\ ask # NoAsk => ask' # NoAsk /\ ask'.sent = ask.sent
    /\ UNCHANGED <<known, session, toBrowser, backend>>

(* What the request under way carries.                                      *)
LEMMA AskKinds ==
    ASSUME TypeOK, ask # NoAsk
    PROVE  /\ ask.doc \in Docs /\ ask.text \in Texts /\ ask.text \in Nat
           /\ ask.sent \in BOOLEAN /\ ask.live \in BOOLEAN
           /\ ask.kind \in RequestKinds
  BY DEF TypeOK, Asks, Texts

(* The texts of the documents only grow, and none is closed.                *)
LEMMA AskStays ==
    ASSUME TypeOK, AskInv, UNCHANGED ask, text' \in [Docs -> Nat],
           \A d \in Docs : text[d] <= text'[d] /\ (open[d] => open'[d])
    PROVE  AskInv'
  <1>1. CASE ask # NoAsk
    <2>1. ask.doc \in Docs /\ ask.text \in Nat
      BY <1>1, AskKinds
    <2>2. text[ask.doc] \in Nat /\ text'[ask.doc] \in Nat
      BY <2>1 DEF TypeOK
    <2> QED BY <1>1, <2>1, <2>2 DEF AskInv
  <1> QED BY <1>1 DEF AskInv

(* What such a step has to say.                                             *)
LEMMA CarriesSpeaks ==
    ASSUME NEW d \in Docs, NEW ms, Carries(ms, d, text'[d]), toServer' = toServer \o ms,
           ms = <<>> \/ Ready, UNCHANGED known
    PROVE  Speaks(ms) /\ \A i \in DOMAIN ms : ms[i].kind \in Notifications
  <1>1. Ready' = Ready
    BY DEF Ready
  <1>2. ASSUME NEW i \in DOMAIN ms PROVE Ready
    BY <1>2
  <1> QED BY <1>1, <1>2 DEF Speaks, Carries

(* Nothing to say.                                                          *)
LEMMA Silent ==
    ASSUME TypeOK, UNCHANGED toServer
    PROVE  Speaks(<<>>)
  <1>1. toServer \o <<>> = toServer
    BY DEF TypeOK
  <1> QED BY <1>1 DEF Speaks

(* The connection's types after a step of the browser.                      *)
LEMMA SpeaksTyped ==
    ASSUME TypeOK, NEW ms, Speaks(ms)
    PROVE  toServer' \in Seq(Messages)
  BY Added DEF TypeOK, Speaks

(* Opening a document.                                                      *)
LEMMA OpenDocumentKeeps ==
    ASSUME TypeInv, NEW d \in Docs, OpenDocument(d)
    PROVE  TypeOK' /\ EditorInv' /\ DocStep
  <1> DEFINE n == text[d] + 1
  <1>0. n \in Texts /\ text' = [text EXCEPT ![d] = n] /\ text'[d] = n
        /\ UNCHANGED <<known, ask, session, toBrowser, server, starts, copy, shown>>
    BY BoundsAreNat DEF TypeInv, TypeOK, OpenDocument, Texts, backend
  <1>1. \E ms : Speaks(ms) /\ \A i \in DOMAIN ms : ms[i].kind \in Notifications
    <2>1. CASE Ready
      <3> DEFINE m == OpenMessage(d, n)
      <3>1. m \in Messages /\ m.kind = "open" /\ m.doc = d /\ m.text = n
        BY Built, <1>0 DEF OpenMessage
      <3>2. toServer' = toServer \o <<m>>
        BY <2>1 DEF OpenDocument, Send, Ready
      <3> HIDE DEF m
      <3>3. Carries(<<m>>, d, text'[d])
        BY <3>1, <1>0 DEF Carries, Notifications, Writes, Result
      <3> QED BY <2>1, <3>2, <3>3, <1>0, CarriesSpeaks
    <2>2. CASE ~Ready
      <3>1. UNCHANGED toServer
        BY <2>2 DEF OpenDocument, Ready
      <3> QED BY <3>1, Silent DEF TypeInv
    <2> QED BY <2>1, <2>2
  <1>2. toServer' \in Seq(Messages)
    BY <1>1, SpeaksTyped DEF TypeInv
  <1>3. TypeOK'
    BY <1>0, <1>2 DEF TypeInv, TypeOK, OpenDocument, Texts
  <1>4. EditorInv'
    <2>1. Tracked(d)'
      BY <1>0 DEF TypeInv, TypeOK, OpenDocument, Ready, Texts, Tracked
    <2>2. ASSUME NEW e \in Docs, e # d PROVE Tracked(e)'
      <3>1. Tracked(e)
        BY DEF TypeInv, EditorInv
      <3> QED BY <1>0, <2>2, <3>1 DEF TypeInv, TypeOK, OpenDocument, Ready, Tracked
    <2>3. AskInv'
      BY <1>0, AskStays DEF TypeInv, TypeOK, OpenDocument, EditorInv, Texts
    <2> QED BY <2>1, <2>2, <2>3 DEF EditorInv
  <1>5. DocStep
    BY <1>0, <1>1 DEF DocStep, backend, TypeInv, TypeOK, Texts
  <1> QED BY <1>3, <1>4, <1>5

(* A range for the next text joins the pending ones.                        *)
LEMMA AppendRanged ==
    ASSUME TypeOK, NEW d \in Docs, Tracked(d), NEW n \in Texts, n = text[d] + 1
    PROVE  LET p == Append(pending[d], Ranged(n))
           IN  p \in Seq(Edits) /\ p # <<>> /\ Last(p) = n /\ Chained(p)
  <1> DEFINE r == Ranged(n)  q == pending[d]  p == Append(q, r)
  <1>1. r \in Edits /\ r.text = n /\ q \in Seq(Edits) /\ text[d] \in Nat
    BY BuiltEdits DEF Ranged, TypeOK
  <1>2. q # <<>> => Last(q) = text[d] /\ Chained(q)
    BY DEF Tracked
  <1> HIDE DEF r, q
  <1>3. p \in Seq(Edits) /\ p # <<>> /\ Len(p) = Len(q) + 1 /\ p[Len(p)] = r
        /\ \A i \in 1..Len(q) : p[i] = q[i]
    BY <1>1
  <1>4. ASSUME NEW i \in DOMAIN p, i # 1
        PROVE  p[i].full \/ p[i].text = p[i - 1].text + 1
    <2>1. CASE i = Len(p)
      <3>1. q # <<>> /\ i - 1 = Len(q) /\ p[i - 1] = q[Len(q)]
        BY <1>1, <1>3, <1>4, <2>1
      <3> QED BY <3>1, <1>1, <1>2, <1>3, <2>1 DEF Last
    <2>2. CASE i # Len(p)
      <3>1. i \in DOMAIN q /\ i - 1 \in 1..Len(q) /\ q # <<>>
        BY <1>1, <1>3, <1>4, <2>2
      <3>2. p[i] = q[i] /\ p[i - 1] = q[i - 1]
        BY <3>1, <1>1, <1>3
      <3> QED BY <3>1, <3>2, <1>2, <1>4 DEF Chained
    <2> QED BY <2>1, <2>2
  <1> QED BY <1>1, <1>3, <1>4 DEF Last, Chained, q, r

(* Changing one, by ranges or as a whole.                                   *)
LEMMA ChangeDocumentKeeps ==
    ASSUME TypeInv, NEW d \in Docs, ChangeDocument(d) \/ ReplaceDocument(d)
    PROVE  TypeOK' /\ EditorInv' /\ DocStep
  <1> DEFINE n == text[d] + 1
  <1>0. /\ n \in Texts /\ text' = [text EXCEPT ![d] = n] /\ text'[d] = n
        /\ UNCHANGED <<open, openSent, known, ask, session, toServer, toBrowser, server, starts, copy, shown>>
        /\ open[d] /\ timer' = [timer EXCEPT ![d] = TRUE]
    BY BoundsAreNat DEF TypeInv, TypeOK, ChangeDocument, ReplaceDocument, Texts, backend
  <1>1. PICK p \in Seq(Edits) :
           /\ pending' = [pending EXCEPT ![d] = p] /\ p # <<>> /\ Last(p) = n /\ Chained(p)
    <2>0. Ranged(n) \in Edits /\ Whole(n) \in Edits /\ Ranged(n).text = n /\ Whole(n).text = n
      BY BuiltEdits, <1>0 DEF Ranged, Whole
    <2>1. CASE ReplaceDocument(d)
      <3>1. pending' = [pending EXCEPT ![d] = <<Whole(n)>>]
        BY <2>1 DEF ReplaceDocument
      <3> DEFINE w == Whole(n)
      <3>2. pending' = [pending EXCEPT ![d] = <<w>>] /\ w \in Edits /\ w.text = n
        BY <3>1, <2>0
      <3> HIDE DEF w
      <3>3. <<w>> \in Seq(Edits) /\ <<w>> # <<>> /\ Last(<<w>>) = n /\ Chained(<<w>>)
        BY <3>2 DEF Last, Chained
      <3> QED BY <3>2, <3>3
    <2>2. CASE ChangeDocument(d)
      <3> DEFINE p == Append(pending[d], Ranged(n))
      <3>1. pending' = [pending EXCEPT ![d] = p]
        BY <2>2 DEF ChangeDocument
      <3>2. Tracked(d)
        BY DEF TypeInv, EditorInv
      <3>4. p \in Seq(Edits) /\ p # <<>> /\ Last(p) = n /\ Chained(p)
        BY <1>0, <3>2, AppendRanged DEF TypeInv
      <3> QED BY <3>1, <3>4
    <2> QED BY <2>1, <2>2
  <1>2. TypeOK'
    BY <1>0, <1>1 DEF TypeInv, TypeOK, Texts
  <1>3. EditorInv'
    <2>1. Tracked(d)'
      <3>1. Tracked(d) /\ n # 0
        BY <1>0 DEF TypeInv, EditorInv, Texts
      <3>2. pending'[d] = p /\ timer'[d] = TRUE
        BY <1>0, <1>1 DEF TypeInv, TypeOK
      <3> QED BY <1>0, <1>1, <3>1, <3>2 DEF Ready, Tracked
    <2>2. ASSUME NEW e \in Docs, e # d PROVE Tracked(e)'
      <3>1. Tracked(e)
        BY DEF TypeInv, EditorInv
      <3> QED BY <1>0, <1>1, <2>2, <3>1 DEF TypeInv, TypeOK, Ready, Tracked
    <2>3. AskInv'
      BY <1>0, AskStays DEF TypeInv, TypeOK, EditorInv, Texts
    <2> QED BY <2>1, <2>2, <2>3 DEF EditorInv
  <1>4. DocStep
    BY <1>0, Silent DEF DocStep, backend, TypeInv, TypeOK, Texts
  <1> QED BY <1>2, <1>3, <1>4

(* Closing one.                                                             *)
LEMMA CloseDocumentKeeps ==
    ASSUME TypeInv, NEW d \in Docs, CloseDocument(d)
    PROVE  TypeOK' /\ EditorInv' /\ DocStep
  <1>0. /\ UNCHANGED <<text, known, session, toBrowser, server, starts, copy, shown>>
        /\ open' = [open EXCEPT ![d] = FALSE]
        /\ pending' = [pending EXCEPT ![d] = <<>>]
        /\ timer' = [timer EXCEPT ![d] = FALSE]
        /\ openSent' = [openSent EXCEPT ![d] = FALSE]
    BY DEF CloseDocument, backend
  <1>1. \E ms : Speaks(ms) /\ \A i \in DOMAIN ms : ms[i].kind \in Notifications
    <2>1. CASE openSent[d] /\ Ready
      <3> DEFINE m == [kind |-> "close", doc |-> d]
      <3>1. m \in Messages /\ m.kind = "close" /\ m.doc = d
        BY Built
      <3>2. toServer' = toServer \o <<m>>
        BY <2>1 DEF CloseDocument, Send, Ready
      <3> HIDE DEF m
      <3>3. Carries(<<m>>, d, text'[d])
        BY <3>1, <1>0 DEF Carries, Notifications, Writes, Result
      <3> QED BY <2>1, <3>2, <3>3, <1>0, CarriesSpeaks
    <2>2. CASE ~(openSent[d] /\ Ready)
      <3>1. UNCHANGED toServer
        BY <2>2 DEF CloseDocument, Ready
      <3> QED BY <3>1, Silent DEF TypeInv
    <2> QED BY <2>1, <2>2
  <1>2. toServer' \in Seq(Messages)
    BY <1>1, SpeaksTyped DEF TypeInv
  <1>3. /\ ask' \in Asks
        /\ ask # NoAsk => ask' # NoAsk /\ ask'.sent = ask.sent /\ ask'.doc = ask.doc
                          /\ ask'.text = ask.text
                          /\ (ask'.live => ask.live /\ ask.doc # d)
        /\ ask = NoAsk => ask' = NoAsk
    BY DEF CloseDocument, TypeInv, TypeOK, Asks, NoAsk
  <1>4. TypeOK'
    BY <1>0, <1>2, <1>3 DEF TypeInv, TypeOK
  <1>5. EditorInv'
    <2>1. \A e \in Docs : /\ open'[e] = IF e = d THEN FALSE ELSE open[e]
                          /\ pending'[e] = IF e = d THEN <<>> ELSE pending[e]
                          /\ timer'[e] = IF e = d THEN FALSE ELSE timer[e]
                          /\ openSent'[e] = IF e = d THEN FALSE ELSE openSent[e]
      BY <1>0 DEF TypeInv, TypeOK
    <2>2. ask # NoAsk => ask.doc \in Docs
      BY DEF TypeInv, TypeOK, Asks
    <2>3. ASSUME NEW e \in Docs PROVE Tracked(e)'
      <3>1. Tracked(e)
        BY DEF TypeInv, EditorInv
      <3>2. CASE e = d
        BY <1>0, <2>1, <3>1, <3>2 DEF Ready, Tracked
      <3>3. CASE e # d
        BY <1>0, <2>1, <3>1, <3>3 DEF Ready, Tracked
      <3> QED BY <3>2, <3>3
    <2>4. AskInv'
      BY <1>0, <1>3, <2>1, <2>2 DEF TypeInv, EditorInv, AskInv
    <2> QED BY <2>3, <2>4 DEF EditorInv
  <1>6. DocStep
    BY <1>0, <1>1, <1>3 DEF DocStep, backend, TypeInv, TypeOK
  <1> QED BY <1>4, <1>5, <1>6

(* Flushing document d, as far as it concerns its record and the messages.  *)
FlushOf(d) ==
    /\ timer' = [timer EXCEPT ![d] = FALSE]
    /\ Send(FlushMessages(d, text[d], pending[d]))
    /\ pending' = [pending EXCEPT ![d] = AfterFlush(@)]
    /\ openSent' = [openSent EXCEPT ![d] = OpenedAfterFlush(d)]

(* A flush keeps the document's record and says what it should.             *)
LEMMA FlushKeeps ==
    ASSUME TypeInv, NEW d \in Docs, open[d], FlushOf(d), UNCHANGED <<open, text, known>>
    PROVE  /\ timer' \in [Docs -> BOOLEAN] /\ openSent' = openSent
           /\ pending' \in [Docs -> Seq(Edits)]
           /\ \A e \in Docs : Tracked(e)'
           /\ \E ms : Speaks(ms) /\ \A i \in DOMAIN ms : ms[i].kind \in Notifications
  <1> DEFINE n == text[d]  p == pending[d]  q == AfterFlush(p)  ms == FlushMessages(d, n, p)
  <1>1. Tracked(d) /\ EditorInv
    BY DEF TypeInv, EditorInv
  <1>2. n \in Texts /\ p \in Seq(Edits) /\ (p # <<>> => Last(p) = n)
    BY <1>1 DEF TypeInv, TypeOK, Texts, Tracked
  <1>3. /\ Carries(ms, d, n)
        /\ ~Ready => ms = <<>>
        /\ q \in Seq(Edits)
        /\ q # <<>> => ~Ready /\ q = p
        /\ OpenedAfterFlush(d) = openSent[d]
    BY <1>1, <1>2, FlushCarries
  <1>4. timer' = [timer EXCEPT ![d] = FALSE] /\ toServer' = toServer \o ms
        /\ pending' = [pending EXCEPT ![d] = q]
        /\ openSent' = [openSent EXCEPT ![d] = openSent[d]]
    BY <1>3 DEF FlushOf, Send
  <1> HIDE DEF p, q, ms
  <1>5. timer' \in [Docs -> BOOLEAN] /\ openSent' = openSent /\ pending' \in [Docs -> Seq(Edits)]
    BY <1>3, <1>4 DEF TypeInv, TypeOK
  <1>6. ASSUME NEW e \in Docs PROVE Tracked(e)'
    <2>1. Tracked(e)
      BY DEF TypeInv, EditorInv
    <2>2. Ready' = Ready /\ pending'[e] = (IF e = d THEN q ELSE pending[e])
          /\ timer'[e] = (IF e = d THEN FALSE ELSE timer[e])
      BY <1>4 DEF TypeInv, TypeOK, Ready
    <2>3. CASE e # d
      BY <2>1, <2>2, <2>3, <1>5 DEF Tracked
    <2>4. CASE e = d
      BY <2>1, <2>2, <2>4, <1>3, <1>5 DEF Tracked, p
    <2> QED BY <2>3, <2>4
  <1>7. ms = <<>> \/ Ready
    BY <1>3
  <1>8. Carries(ms, d, text'[d])
    BY <1>3 DEF n
  <1> QED BY <1>4, <1>5, <1>6, <1>7, <1>8, CarriesSpeaks

(* The debounce timer.                                                      *)
LEMMA DebounceKeeps ==
    ASSUME TypeInv, NEW d \in Docs, DebounceFires(d)
    PROVE  TypeOK' /\ EditorInv' /\ DocStep
  <1>1. FlushOf(d) /\ UNCHANGED <<open, text, known, ask, session, toBrowser, server, starts, copy, shown>>
    BY DEF DebounceFires, FlushOf, backend
  <1>2. open[d]
    BY DEF DebounceFires, TypeInv, EditorInv, Tracked
  <1>3. /\ timer' \in [Docs -> BOOLEAN] /\ openSent' = openSent
        /\ pending' \in [Docs -> Seq(Edits)]
        /\ \A e \in Docs : Tracked(e)'
        /\ \E ms : Speaks(ms) /\ \A i \in DOMAIN ms : ms[i].kind \in Notifications
    BY <1>1, <1>2, FlushKeeps
  <1>4. toServer' \in Seq(Messages)
    BY <1>3, SpeaksTyped DEF TypeInv
  <1>5. TypeOK'
    BY <1>1, <1>3, <1>4 DEF TypeInv, TypeOK
  <1>6. EditorInv'
    BY <1>1, <1>3 DEF TypeInv, EditorInv, AskInv
  <1>7. DocStep
    BY <1>1, <1>3 DEF DocStep, backend, TypeInv, TypeOK
  <1> QED BY <1>5, <1>6, <1>7

(* A request that begins flushes its document first.                        *)
LEMMA BeginAskKeeps ==
    ASSUME TypeInv, NEW d \in Docs, NEW k \in {"complete", "format", "organize"}, BeginAsk(d, k)
    PROVE  TypeOK' /\ EditorInv' /\ DocStep
  <1>1. /\ open[d] /\ ask = NoAsk
        /\ ask' = [kind |-> k, doc |-> d, text |-> text[d], sent |-> FALSE, live |-> TRUE]
        /\ UNCHANGED <<open, text, known, session, toBrowser, server, starts, copy, shown>>
    BY DEF BeginAsk, backend
  <1>2. /\ timer' \in [Docs -> BOOLEAN] /\ openSent' = openSent
        /\ pending' \in [Docs -> Seq(Edits)]
        /\ \A e \in Docs : Tracked(e)'
        /\ \E ms : Speaks(ms) /\ \A i \in DOMAIN ms : ms[i].kind \in Notifications
    <2>1. CASE timer[d]
      <3>1. FlushOf(d)
        BY <2>1 DEF BeginAsk, FlushPending, FlushOf
      <3> QED BY <3>1, <1>1, FlushKeeps
    <2>2. CASE ~timer[d]
      <3>1. UNCHANGED <<timer, pending, openSent, toServer>>
        BY <2>2 DEF BeginAsk, FlushPending
      <3>2. Ready' = Ready
        BY <1>1 DEF Ready
      <3>3. \A e \in Docs : Tracked(e)'
        BY <3>1, <3>2, <1>1 DEF TypeInv, EditorInv, Tracked
      <3>4. \E ms : Speaks(ms) /\ \A i \in DOMAIN ms : ms[i].kind \in Notifications
        BY <3>1, Silent DEF TypeInv
      <3> QED BY <3>1, <3>3, <3>4 DEF TypeInv, TypeOK
    <2> QED BY <2>1, <2>2
  <1>3. toServer' \in Seq(Messages)
    BY <1>2, SpeaksTyped DEF TypeInv
  <1>4. text[d] \in Texts /\ text[d] \in Nat
    BY <1>1 DEF TypeInv, TypeOK, EditorInv, Tracked, Texts
  <1>5. ask' \in Asks /\ ask' # NoAsk /\ ask'.doc = d /\ ask'.text = text[d]
    BY <1>1, <1>4 DEF Asks, NoAsk
  <1>6. TypeOK'
    BY <1>1, <1>2, <1>3, <1>5 DEF TypeInv, TypeOK
  <1>7. EditorInv'
    BY <1>1, <1>2, <1>4, <1>5 DEF EditorInv, AskInv
  <1>8. DocStep
    BY <1>1, <1>2 DEF DocStep, backend, TypeInv, TypeOK
  <1> QED BY <1>6, <1>7, <1>8

(* An explicit format begins without a flush.                               *)
LEMMA BeginReformatKeeps ==
    ASSUME TypeInv, NEW d \in Docs, BeginReformat(d)
    PROVE  TypeOK' /\ EditorInv' /\ DocStep
  <1>1. /\ open[d] /\ ask = NoAsk
        /\ ask' = [kind |-> "reformat", doc |-> d, text |-> text[d], sent |-> FALSE, live |-> TRUE]
        /\ UNCHANGED <<open, text, pending, openSent, timer, known, session, toServer, toBrowser,
                       server, starts, copy, shown>>
    BY DEF BeginReformat, editor, backend
  <1>2. text[d] \in Texts /\ text[d] \in Nat
    BY <1>1 DEF TypeInv, TypeOK, EditorInv, Tracked, Texts
  <1>3. ask' \in Asks /\ ask' # NoAsk /\ ask'.doc = d /\ ask'.text = text[d]
    BY <1>1, <1>2 DEF Asks, NoAsk
  <1>4. TypeOK'
    BY <1>1, <1>3 DEF TypeInv, TypeOK
  <1>5. Ready' = Ready
    BY <1>1 DEF Ready
  <1>6. \A e \in Docs : Tracked(e)'
    BY <1>1, <1>5 DEF TypeInv, EditorInv, Tracked
  <1>7. EditorInv'
    BY <1>1, <1>2, <1>3, <1>6 DEF EditorInv, AskInv
  <1>8. \E ms : Speaks(ms) /\ \A i \in DOMAIN ms : ms[i].kind \in Notifications
    BY <1>1, Silent DEF TypeInv
  <1>9. DocStep
    BY <1>1, <1>3, <1>8 DEF DocStep, backend, TypeInv, TypeOK
  <1> QED BY <1>4, <1>7, <1>9

(* The request itself is sent once its probe has answered.                  *)
AskStep ==
    /\ ask # NoAsk /\ ~ask.sent
    /\ \/ \E m \in Messages :
            /\ Speaks(<<m>>) /\ Ready
            /\ m.kind = ask.kind /\ m.doc = ask.doc /\ m.text = ask.text
            /\ m.kind \in Requests => ask' # NoAsk /\ ask'.sent
       \/ UNCHANGED toServer
    /\ ask' # NoAsk => ask'.text = ask.text /\ ask'.doc = ask.doc
                       /\ (ask'.sent \/ ask'.kind = "organize")
    /\ UNCHANGED <<editor, known, session, toBrowser, backend>>

(* Sending a request.                                                       *)
LEMMA SendAskKeeps ==
    ASSUME TypeInv, SendAsk
    PROVE  TypeOK' /\ EditorInv' /\ AskStep
  <1>1. /\ ask # NoAsk /\ ~ask.sent
        /\ UNCHANGED <<open, text, pending, openSent, timer, known, session, toBrowser,
                       server, starts, copy, shown>>
    BY DEF SendAsk, editor, backend
  <1>2. /\ ask.doc \in Docs /\ ask.text \in Texts /\ ask.live \in BOOLEAN
        /\ ask.kind \in RequestKinds
    BY <1>1, AskKinds DEF TypeInv
  <1>3. /\ ask' \in Asks
        /\ ask' # NoAsk => /\ ask'.text = ask.text /\ ask'.doc = ask.doc /\ ask'.live = ask.live
                           /\ ask'.sent \/ ask'.kind = "organize"
    <2>1. ask' = NoAsk => ask' \in Asks
      BY DEF Asks
    <2>2. CASE known = "ready" /\ ask' = IF ask.kind = "complete" THEN NoAsk ELSE [ask EXCEPT !.sent = TRUE]
      BY <1>1, <1>2, <2>1, <2>2 DEF TypeInv, TypeOK, Asks, NoAsk
    <2>3. CASE AfterFormat(ask.doc, ask.text)
      <3>1. CASE ask' = NoAsk
        BY <2>1, <3>1
      <3>2. CASE ask' = [kind |-> "organize", doc |-> ask.doc, text |-> ask.text,
                         sent |-> FALSE, live |-> ask.live]
        BY <1>2, <3>2 DEF Asks
      <3> QED BY <2>3, <3>1, <3>2 DEF AfterFormat
    <2> QED BY <2>1, <2>2, <2>3 DEF SendAsk
  <1>4. ASSUME ~UNCHANGED toServer
        PROVE  \E m \in Messages :
                  /\ Speaks(<<m>>) /\ Ready
                  /\ m.kind = ask.kind /\ m.doc = ask.doc /\ m.text = ask.text
                  /\ m.kind \in Requests => ask' # NoAsk /\ ask'.sent
    <2> DEFINE m == [kind |-> ask.kind, doc |-> ask.doc, text |-> ask.text]
    <2>1. /\ Ready /\ toServer' = toServer \o <<m>>
          /\ ask' = IF ask.kind = "complete" THEN NoAsk ELSE [ask EXCEPT !.sent = TRUE]
      BY <1>4 DEF SendAsk, Send, Ready
    <2>2. m \in Messages /\ m.kind = ask.kind /\ m.doc = ask.doc /\ m.text = ask.text
      BY <1>2, Built
    <2> HIDE DEF m
    <2>3. Ready'
      BY <1>1, <2>1 DEF Ready
    <2>4. Speaks(<<m>>)
      BY <1>2, <2>1, <2>2, <2>3 DEF Speaks, Writes
    <2>5. m.kind \in Requests => ask' # NoAsk /\ ask'.sent
      BY <1>1, <1>2, <2>1, <2>2 DEF Requests, TypeInv, TypeOK, Asks, NoAsk
    <2> QED BY <2>1, <2>2, <2>4, <2>5
  <1>5. toServer' \in Seq(Messages)
    <2>1. CASE UNCHANGED toServer
      BY <2>1 DEF TypeInv, TypeOK
    <2>2. CASE ~UNCHANGED toServer
      BY <2>2, <1>4, SpeaksTyped DEF TypeInv
    <2> QED BY <2>1, <2>2
  <1>6. TypeOK'
    BY <1>1, <1>3, <1>5 DEF TypeInv, TypeOK
  <1>7. EditorInv'
    <2>1. \A d \in Docs : Tracked(d)'
      BY <1>1 DEF TypeInv, EditorInv, Tracked, Ready
    <2>2. AskInv'
      BY <1>1, <1>3 DEF TypeInv, EditorInv, AskInv
    <2> QED BY <2>1, <2>2 DEF EditorInv
  <1>8. AskStep
    BY <1>1, <1>3, <1>4 DEF AskStep, editor, backend
  <1> QED BY <1>6, <1>7, <1>8

(* Calls of the lifecycle.                                                  *)
LEMMA CallSpeaks ==
    ASSUME TypeOK, NEW k \in {"fetch", "start", "stop", "quit"}, Send(<<Event(k)>>)
    PROVE  Speaks(<<Event(k)>>) /\ Event(k).kind = k
  <1> DEFINE m == Event(k)
  <1>1. m \in Messages /\ m.kind = k
    BY DEF Event, Messages
  <1>3. toServer' = toServer \o <<m>>
    BY DEF Send
  <1> HIDE DEF m
  <1>2. Speaks(<<m>>) /\ m.kind = k
    BY <1>1, <1>3 DEF Speaks, Writes, AboutDoc
  <1> QED BY <1>2 DEF m

(* A step of the lifecycle alone.                                           *)
LEMMA EditorIdle ==
    ASSUME TypeInv, UNCHANGED <<editor, known, ask>>
    PROVE  EditorInv'
  BY DEF TypeInv, EditorInv, Tracked, AskInv, Ready, editor

(* Activation and deactivation.                                             *)
LEMMA ActivateKeeps ==
    ASSUME TypeInv, Activate \/ Deactivate
    PROVE  /\ TypeOK' /\ EditorInv'
           /\ \E k \in {"fetch", "quit"} : Speaks(<<Event(k)>>) /\ Event(k).kind = k
  <1>1. UNCHANGED <<editor, known, ask, toBrowser, backend>>
        /\ session' \in {"idle", "fetching", "stopping", "starting", "dropped"}
    BY DEF Activate, Deactivate, TypeInv, TypeOK
  <1>2. \E k \in {"fetch", "quit"} : Speaks(<<Event(k)>>) /\ Event(k).kind = k
    BY CallSpeaks DEF Activate, Deactivate, TypeInv
  <1>3. toServer' \in Seq(Messages)
    BY <1>2, SpeaksTyped DEF TypeInv
  <1>4. TypeOK'
    BY <1>1, <1>3 DEF TypeInv, TypeOK, editor, backend
  <1> QED BY <1>1, <1>2, <1>4, EditorIdle

(* The openings that a ready event is answered with.                        *)
Openings(o) == [i \in DOMAIN o |-> OpenMessage(o[i], text[o[i]])]

(* An order of the unsent documents is a sequence of them.                  *)
LEMMA OrderIsSeq ==
    ASSUME NEW o \in Orders(Unsent)
    PROVE  /\ DOMAIN o = 1..Cardinality(Unsent) /\ Cardinality(Unsent) \in Nat
           /\ IsFiniteSet(Unsent) /\ Unsent \subseteq Docs
           /\ \A i \in DOMAIN o : o[i] \in Unsent
           /\ \A i, j \in DOMAIN o : o[i] = o[j] => i = j
  <1>1. Unsent \subseteq Docs
    BY DEF Unsent
  <1>2. IsFiniteSet(Unsent) /\ Cardinality(Unsent) \in Nat
    BY <1>1, DocsFinite, FS_Subset, FS_CardinalityType
  <1> QED BY <1>1, <1>2 DEF Orders

(* The openings are one message each, with the newest text.                 *)
LEMMA OpeningsForm ==
    ASSUME TypeOK, EditorInv, NEW o \in Orders(Unsent)
    PROVE  /\ Openings(o) \in Seq(Messages) /\ DOMAIN Openings(o) = DOMAIN o
           /\ Len(Openings(o)) = Cardinality(Unsent)
           /\ \A i \in DOMAIN o : /\ Openings(o)[i] = OpenMessage(o[i], text[o[i]])
                                  /\ Openings(o)[i].kind = "open" /\ Openings(o)[i].doc = o[i]
                                  /\ Openings(o)[i].text = text[o[i]]
                                  /\ o[i] \in Docs /\ text[o[i]] \in Texts
  <1>1. ASSUME NEW i \in DOMAIN o
        PROVE  o[i] \in Docs /\ text[o[i]] \in Texts /\ OpenMessage(o[i], text[o[i]]) \in Messages
    <2>1. o[i] \in Unsent /\ o[i] \in Docs
      BY OrderIsSeq
    <2>2. text[o[i]] \in Texts
      BY <2>1 DEF Unsent, TypeOK, EditorInv, Tracked, Texts
    <2> QED BY <2>1, <2>2, Built
  <1>2. DOMAIN o = 1..Cardinality(Unsent) /\ Cardinality(Unsent) \in Nat
    BY OrderIsSeq
  <1>3. Openings(o) \in [1..Cardinality(Unsent) -> Messages]
    BY <1>1, <1>2 DEF Openings
  <1>4. Openings(o) \in Seq(Messages) /\ Len(Openings(o)) = Cardinality(Unsent)
    BY <1>2, <1>3
  <1>5. \A i \in DOMAIN o : Openings(o)[i] = OpenMessage(o[i], text[o[i]])
    BY DEF Openings
  <1> QED BY <1>1, <1>2, <1>3, <1>4, <1>5 DEF OpenMessage

(* A state event that arrives.                                              *)
StateStep(k) ==
    /\ known' = k
    /\ \/ k = "ready" /\ \E o \in Orders(Unsent) : Speaks(Openings(o))
       \/ k = "down" /\ UNCHANGED toServer
    /\ pending' = (IF k = "ready" THEN [d \in Docs |-> IF d \in Unsent THEN <<>> ELSE pending[d]]
                   ELSE pending)
    /\ UNCHANGED <<open, text, timer, ask, session>>

(* Receiving a state event.                                                 *)
LEMMA StateEventKeeps ==
    ASSUME TypeInv, NEW k \in {"ready", "down"}, StateEvent(k), UNCHANGED backend,
           toBrowser' \in Seq(Events)
    PROVE  TypeOK' /\ EditorInv' /\ StateStep(k)
  <1>1. UNCHANGED <<open, text, timer, ask, session, server, starts, copy, shown>> /\ known' = k
    BY DEF StateEvent, backend
  <1>2. CASE k = "ready"
    <2>1. PICK o \in Orders(Unsent) : toServer' = toServer \o Openings(o)
      BY <1>2 DEF StateEvent, Send, Openings
    <2>2. /\ openSent' = [d \in Docs |-> open[d]] /\ Ready'
          /\ pending' = [d \in Docs |-> IF d \in Unsent THEN <<>> ELSE pending[d]]
      BY <1>2 DEF StateEvent, Ready
    <2>3. /\ Openings(o) \in Seq(Messages)
          /\ \A i \in DOMAIN Openings(o) : /\ Openings(o)[i].kind = "open"
                                           /\ Openings(o)[i].text = text[Openings(o)[i].doc]
      BY OpeningsForm DEF TypeInv
    <2>4. Speaks(Openings(o))
      BY <1>1, <2>1, <2>2, <2>3 DEF Speaks, Writes, Result
    <2>5. toServer' \in Seq(Messages)
      BY <2>4, SpeaksTyped DEF TypeInv
    <2>6. TypeOK'
      BY <1>1, <1>2, <2>2, <2>5 DEF TypeInv, TypeOK
    <2>7. ASSUME NEW d \in Docs PROVE Tracked(d)'
      <3>1. Tracked(d) /\ openSent'[d] = open[d] /\ open[d] \in BOOLEAN
        BY <2>2 DEF TypeInv, EditorInv, TypeOK
      <3>2. CASE d \in Unsent
        BY <1>1, <2>2, <3>1, <3>2 DEF Tracked, Unsent
      <3>3. CASE d \notin Unsent
        BY <1>1, <2>2, <3>1, <3>3 DEF Tracked, Unsent
      <3> QED BY <3>2, <3>3
    <2>8. AskInv'
      BY <1>1 DEF TypeInv, EditorInv, AskInv
    <2> QED BY <1>1, <1>2, <2>2, <2>4, <2>6, <2>7, <2>8 DEF StateStep, EditorInv
  <1>3. CASE k = "down"
    <2>1. openSent' = [d \in Docs |-> FALSE] /\ UNCHANGED <<toServer, pending>> /\ ~Ready'
      BY <1>1, <1>3 DEF StateEvent, Ready
    <2>2. TypeOK'
      BY <1>1, <1>3, <2>1 DEF TypeInv, TypeOK
    <2>3. \A d \in Docs : Tracked(d)'
      BY <1>1, <2>1 DEF TypeInv, EditorInv, Tracked
    <2>4. AskInv'
      BY <1>1 DEF TypeInv, EditorInv, AskInv
    <2> QED BY <1>1, <1>3, <2>1, <2>2, <2>3, <2>4 DEF StateStep, EditorInv
  <1> QED BY <1>2, <1>3

(* The lifecycle's next step on an answer.                                  *)
LEMMA AnswerKeeps ==
    ASSUME TypeInv, NEW e \in Events, Answer(e), UNCHANGED <<editor, known, ask, backend>>,
           toBrowser' \in Seq(Events)
    PROVE  /\ TypeOK' /\ EditorInv'
           /\ \/ UNCHANGED toServer
              \/ \E k \in {"start", "stop"} : Speaks(<<Event(k)>>) /\ Event(k).kind = k
  <1>1. /\ session' \in {"idle", "fetching", "stopping", "starting", "dropped"}
        /\ \/ UNCHANGED toServer
           \/ Send(<<Event("start")>>)
           \/ Send(<<Event("stop")>>)
    BY DEF Answer, Continue
  <1>2. \/ UNCHANGED toServer
        \/ \E k \in {"start", "stop"} : Speaks(<<Event(k)>>) /\ Event(k).kind = k
    BY <1>1, CallSpeaks DEF TypeInv
  <1>3. toServer' \in Seq(Messages)
    BY <1>2, SpeaksTyped DEF TypeInv, TypeOK
  <1>4. TypeOK'
    BY <1>1, <1>3 DEF TypeInv, TypeOK, editor, backend
  <1> QED BY <1>2, <1>4, EditorIdle

(* What becomes of the request when its edits have arrived.                 *)
ApplyEnds == ask' = NoAsk \/ (ask' # NoAsk /\ ask'.kind = "organize" /\ ~ask'.sent)

(* The save action that may follow.                                         *)
LEMMA AfterFormatForm ==
    ASSUME TypeOK, ask # NoAsk, NEW n \in Texts, AfterFormat(ask.doc, n) \/ ask' = NoAsk
    PROVE  /\ ask' \in Asks /\ ApplyEnds
           /\ ask' # NoAsk => ask'.doc = ask.doc /\ ask'.text = n /\ ask'.live = ask.live
  <1>1. ask.doc \in Docs /\ ask.live \in BOOLEAN
    BY AskKinds
  <1>2. CASE ask' = NoAsk
    BY <1>2 DEF Asks, ApplyEnds
  <1>3. CASE ask' = [kind |-> "organize", doc |-> ask.doc, text |-> n, sent |-> FALSE, live |-> ask.live]
    BY <1>1, <1>3 DEF Asks, ApplyEnds, NoAsk
  <1> QED BY <1>2, <1>3 DEF AfterFormat

(* The answer's edits go into the buffer, and out again after a format.     *)
ApplyChange(d, n) ==
    LET edited == Append(pending[d], Ranged(n)) IN
    /\ open[d]
    /\ text' = [text EXCEPT ![d] = n]
    /\ \/ /\ Send(FlushMessages(d, n, edited))
          /\ pending' = [pending EXCEPT ![d] = AfterFlush(edited)]
          /\ openSent' = [openSent EXCEPT ![d] = OpenedAfterFlush(d)]
          /\ timer' = [timer EXCEPT ![d] = FALSE]
       \/ /\ pending' = [pending EXCEPT ![d] = edited]
          /\ timer' = [timer EXCEPT ![d] = TRUE]
          /\ UNCHANGED <<openSent, toServer>>
    /\ UNCHANGED open

(* Edits arrive.                                                            *)
ApplyStep ==
    /\ ApplyEnds
    /\ ask' # NoAsk => ask'.doc = ask.doc
    /\ \/ UNCHANGED <<editor, toServer>>
       \/ ask.doc \in Docs /\ text[ask.doc] + 1 \in Texts
          /\ ApplyChange(ask.doc, text[ask.doc] + 1)

(* In which of the ways edits are applied.                                  *)
LEMMA ApplyForm ==
    ASSUME TypeOK, AskInv, ask # NoAsk, NEW e \in Events, ApplyEdits(e)
    PROVE  /\ ApplyStep /\ ask' \in Asks
           /\ ask' # NoAsk => /\ ask'.doc = ask.doc /\ ask'.live = ask.live
                              /\ ask'.text <= text'[ask.doc]
  <1> DEFINE d == ask.doc  n == text[d] + 1
  <1>1. d \in Docs /\ ask.text \in Texts /\ ask.text <= text[d] /\ (ask.live => open[d])
        /\ text[d] \in Nat
    BY AskKinds DEF AskInv, TypeOK
  <1> DEFINE cancelled == ask.kind = "reformat" /\ text[d] # ask.text
  <1>2. CASE e.text # 0 /\ ask.live /\ ~cancelled /\ text[d] < MaxText
    <2>1. n \in Texts /\ text' = [text EXCEPT ![d] = n]
      BY <1>1, <1>2, BoundsAreNat DEF ApplyEdits, Texts
    <2>2. ApplyChange(d, n) /\ (AfterFormat(d, n) \/ ask' = NoAsk)
      BY <1>1, <1>2 DEF ApplyEdits, ApplyChange
    <2>3. /\ ask' \in Asks /\ ApplyEnds
          /\ ask' # NoAsk => ask'.doc = ask.doc /\ ask'.text = n /\ ask'.live = ask.live
      BY <2>1, <2>2, AfterFormatForm
    <2>4. text'[d] = n /\ n \in Nat
      BY <1>1, <2>1 DEF TypeOK
    <2> QED BY <1>1, <2>1, <2>2, <2>3, <2>4 DEF ApplyStep
  <1>3. CASE ~(e.text # 0 /\ ask.live /\ ~cancelled /\ text[d] < MaxText)
    <2>1. UNCHANGED <<editor, toServer>> /\ (AfterFormat(d, ask.text) \/ ask' = NoAsk)
      BY <1>3 DEF ApplyEdits
    <2>2. /\ ask' \in Asks /\ ApplyEnds
          /\ ask' # NoAsk => ask'.doc = ask.doc /\ ask'.text = ask.text /\ ask'.live = ask.live
      BY <1>1, <2>1, AfterFormatForm
    <2> QED BY <1>1, <2>1, <2>2 DEF ApplyStep, editor
  <1> QED BY <1>2, <1>3

(* Applied edits keep the document's record and go out whole.               *)
LEMMA ApplyChangeKeeps ==
    ASSUME TypeInv, NEW d \in Docs, NEW n \in Texts, n = text[d] + 1, ApplyChange(d, n),
           UNCHANGED known
    PROVE  /\ timer' \in [Docs -> BOOLEAN] /\ openSent' = openSent
           /\ pending' \in [Docs -> Seq(Edits)]
           /\ \A e \in Docs : Tracked(e)' /\ text[e] <= text'[e]
           /\ \E ms : Speaks(ms) /\ \A i \in DOMAIN ms : ms[i].kind \in Notifications
  <1> DEFINE p == Append(pending[d], Ranged(n))  q == AfterFlush(p)  ms == FlushMessages(d, n, p)
  <1>1. Tracked(d) /\ EditorInv /\ open[d] /\ UNCHANGED open
    BY DEF TypeInv, EditorInv, ApplyChange
  <1>2. p \in Seq(Edits) /\ p # <<>> /\ Last(p) = n /\ Chained(p)
    BY <1>1, AppendRanged DEF TypeInv
  <1>3. /\ Carries(ms, d, n)
        /\ ~Ready => ms = <<>>
        /\ q \in Seq(Edits)
        /\ q # <<>> => ~Ready /\ q = p
        /\ OpenedAfterFlush(d) = openSent[d]
    BY <1>1, <1>2, FlushCarries
  <1>4. /\ text' = [text EXCEPT ![d] = n]
        /\ \/ /\ timer' = [timer EXCEPT ![d] = FALSE] /\ toServer' = toServer \o ms
              /\ pending' = [pending EXCEPT ![d] = q]
              /\ openSent' = [openSent EXCEPT ![d] = OpenedAfterFlush(d)]
           \/ /\ pending' = [pending EXCEPT ![d] = p] /\ timer' = [timer EXCEPT ![d] = TRUE]
              /\ UNCHANGED <<openSent, toServer>>
    BY DEF ApplyChange, Send
  <1> HIDE DEF p, q, ms
  <1>5. timer' \in [Docs -> BOOLEAN] /\ openSent' = openSent /\ pending' \in [Docs -> Seq(Edits)]
    <2>1. timer \in [Docs -> BOOLEAN] /\ openSent \in [Docs -> BOOLEAN] /\ pending \in [Docs -> Seq(Edits)]
      BY DEF TypeInv, TypeOK
    <2>2. timer' \in [Docs -> BOOLEAN] /\ openSent' = openSent
      BY <1>3, <1>4, <2>1
    <2>3. CASE pending' = [pending EXCEPT ![d] = q]
      BY <1>3, <2>1, <2>2, <2>3
    <2>4. CASE pending' = [pending EXCEPT ![d] = p]
      BY <1>2, <2>1, <2>2, <2>4
    <2> QED BY <1>4, <2>2, <2>3, <2>4
  <1>6. ASSUME NEW e \in Docs PROVE Tracked(e)' /\ text[e] <= text'[e]
    <2>1. Tracked(e) /\ Ready' = Ready /\ n # 0
      BY DEF TypeInv, EditorInv, Ready, Texts
    <2>2. text'[e] = (IF e = d THEN n ELSE text[e]) /\ text[e] \in Nat /\ text[d] \in Nat
      BY <1>4 DEF TypeInv, TypeOK
    <2>3. \/ pending'[e] = (IF e = d THEN q ELSE pending[e])
             /\ timer'[e] = (IF e = d THEN FALSE ELSE timer[e])
          \/ pending'[e] = (IF e = d THEN p ELSE pending[e])
             /\ timer'[e] = (IF e = d THEN TRUE ELSE timer[e])
      BY <1>4 DEF TypeInv, TypeOK
    <2>4. CASE e # d
      BY <1>1, <2>1, <2>2, <2>3, <2>4, <1>5 DEF Tracked
    <2>5. CASE e = d
      <3>1. open'[d] /\ text'[d] = n /\ openSent'[d] = openSent[d]
        BY <1>1, <1>5, <2>2, <2>5
      <3>2. CASE pending'[d] = q /\ timer'[d] = FALSE
        BY <1>1, <2>1, <2>2, <2>5, <3>1, <3>2, <1>2, <1>3 DEF Tracked
      <3>3. CASE pending'[d] = p /\ timer'[d] = TRUE
        BY <1>1, <2>1, <2>2, <2>5, <3>1, <3>3, <1>2 DEF Tracked
      <3> QED BY <2>3, <2>5, <3>2, <3>3
    <2> QED BY <2>2, <2>4, <2>5
  <1>7. ms = <<>> \/ Ready
    BY <1>3
  <1>8. Carries(ms, d, text'[d])
    BY <1>3, <1>4 DEF TypeInv, TypeOK
  <1>9. \E s : Speaks(s) /\ \A i \in DOMAIN s : s[i].kind \in Notifications
    <2>1. CASE toServer' = toServer \o ms
      BY <2>1, <1>7, <1>8, CarriesSpeaks
    <2>2. CASE UNCHANGED toServer
      BY <2>2, Silent DEF TypeInv
    <2> QED BY <2>1, <2>2, <1>4
  <1> QED BY <1>5, <1>6, <1>9

(* Receiving edits.                                                         *)
LEMMA ApplyKeeps ==
    ASSUME TypeInv, ask # NoAsk, NEW e \in Events, ApplyEdits(e),
           UNCHANGED <<known, session, backend>>, toBrowser' \in Seq(Events)
    PROVE  /\ TypeOK' /\ EditorInv' /\ ApplyStep
           /\ \A d \in Docs : text[d] <= text'[d]
           /\ \E ms : Speaks(ms) /\ \A i \in DOMAIN ms : ms[i].kind \in Notifications
  <1>1. /\ ApplyStep /\ ask' \in Asks
        /\ ask' # NoAsk => /\ ask'.doc = ask.doc /\ ask'.live = ask.live
                           /\ ask'.text <= text'[ask.doc]
        /\ ask.live => open[ask.doc]
    BY ApplyForm DEF TypeInv, EditorInv, AskInv
  <1>2. /\ timer' \in [Docs -> BOOLEAN] /\ openSent' = openSent /\ open' = open
        /\ pending' \in [Docs -> Seq(Edits)] /\ text' \in [Docs -> 0..MaxText]
        /\ \A d \in Docs : Tracked(d)' /\ text[d] <= text'[d]
        /\ \E ms : Speaks(ms) /\ \A i \in DOMAIN ms : ms[i].kind \in Notifications
    <2>1. CASE UNCHANGED <<editor, toServer>>
      <3>1. Ready' = Ready
        BY DEF Ready
      <3>2. \A d \in Docs : Tracked(d)' /\ text[d] <= text'[d]
        BY <2>1, <3>1 DEF TypeInv, TypeOK, EditorInv, Tracked, editor
      <3>3. \E ms : Speaks(ms) /\ \A i \in DOMAIN ms : ms[i].kind \in Notifications
        BY <2>1, Silent DEF TypeInv
      <3> QED BY <2>1, <3>2, <3>3 DEF TypeInv, TypeOK, editor
    <2>2. CASE ask.doc \in Docs /\ text[ask.doc] + 1 \in Texts /\ ApplyChange(ask.doc, text[ask.doc] + 1)
      <3>1. open' = open /\ text' \in [Docs -> 0..MaxText]
        BY <2>2 DEF ApplyChange, TypeInv, TypeOK, Texts
      <3> QED BY <2>2, <3>1, ApplyChangeKeeps
    <2> QED BY <1>1, <2>1, <2>2 DEF ApplyStep
  <1>3. toServer' \in Seq(Messages)
    BY <1>2, SpeaksTyped DEF TypeInv
  <1>4. TypeOK'
    BY <1>1, <1>2, <1>3 DEF TypeInv, TypeOK, backend
  <1>5. EditorInv'
    BY <1>1, <1>2 DEF EditorInv, AskInv
  <1> QED BY <1>1, <1>2, <1>4, <1>5

-----------------------------------------------------------------------------
(* A step of the backend: it says something, and the browser stays.         *)
Reports(es) ==
    /\ es \in Seq(Events)
    /\ toBrowser' = toBrowser \o es
    /\ UNCHANGED <<editor, known, ask, session>>

(* The events that are built are events.                                    *)
LEMMA BuiltEvents ==
    /\ \A k \in {"ready", "down", "started", "stopped"} : Event(k) \in Events /\ Event(k).kind = k
    /\ \A r \in BOOLEAN : [kind |-> "state", running |-> r] \in Events
    /\ \A n \in 0..Torn : [kind |-> "edits", text |-> n] \in Events
  BY DEF Event, Events

(* Nothing is reported.                                                     *)
LEMMA ReportsNothing ==
    ASSUME TypeOK, UNCHANGED <<toBrowser, editor, known, ask, session>>
    PROVE  Reports(<<>>)
  <1>1. toBrowser \o <<>> = toBrowser
    BY DEF TypeOK
  <1> QED BY <1>1 DEF Reports

(* One event is reported.                                                   *)
LEMMA ReportsOne ==
    ASSUME TypeOK, UNCHANGED <<editor, known, ask, session>>, NEW e \in Events,
           toBrowser' = Append(toBrowser, e)
    PROVE  Reports(<<e>>)
  <1>1. Append(toBrowser, e) = toBrowser \o <<e>>
    BY DEF TypeOK
  <1> QED BY <1>1 DEF Reports

(* What a change makes of a copy.                                           *)
LEMMA AppliedForm ==
    ASSUME NEW base, NEW edits \in Seq(Edits), edits # <<>>
    PROVE  /\ Applied(base, edits) = IF Fits(base, edits) THEN Last(edits) ELSE Torn
           /\ Last(edits) \in Texts /\ Applied(base, edits) \in 0..Torn
  <1>1. edits[Len(edits)] \in Edits
    OBVIOUS
  <1>2. edits[Len(edits)].text \in Texts
    BY <1>1 DEF Edits
  <1> QED BY <1>2, BoundsAreNat DEF Applied, Last, Torn, Texts

(* Delivering a notification.                                               *)
NotifyStep(m) ==
    /\ UNCHANGED <<server, starts, toBrowser>>
    /\ \/ UNCHANGED <<copy, shown>> /\ (server # "ready" \/ (m.kind = "change" /\ copy[m.doc] = 0))
       \/ /\ server = "ready" /\ Writes(m)
          /\ LET n == IF m.kind = "open" THEN m.text ELSE Applied(copy[m.doc], m.edits) IN
                copy' = [copy EXCEPT ![m.doc] = n] /\ shown' = [shown EXCEPT ![m.doc] = n]
       \/ /\ server = "ready" /\ m.kind = "close"
          /\ copy' = [copy EXCEPT ![m.doc] = 0] /\ UNCHANGED shown

(* A notification is dropped, or it writes or removes the copy.             *)
LEMMA NotifyForm ==
    ASSUME TypeOK, NEW m \in Messages, m.kind = "change" => m.edits # <<>>,
           m.kind \in Notifications, Notify(m)
    PROVE  /\ NotifyStep(m)
           /\ copy' \in [Docs -> 0..Torn] /\ shown' \in [Docs -> 0..Torn]
  <1>1. /\ m.doc \in Docs
        /\ m.kind = "change" => m.edits \in Seq(Edits)
        /\ m.kind = "open" => m.text \in Texts
    BY MessageKinds DEF Notifications, AboutDoc
  <1>2. NotifyStep(m)
    <2>1. CASE server # "ready"
      BY <2>1 DEF Notify, NotifyStep, backend
    <2>2. CASE server = "ready" /\ m.kind = "open"
      BY <2>2 DEF Notify, NotifyStep, DidOpen, HasNow, Writes
    <2>3. CASE server = "ready" /\ m.kind = "change"
      BY <2>3 DEF Notify, NotifyStep, DidChange, HasNow, Writes, backend
    <2>4. CASE server = "ready" /\ m.kind = "close"
      BY <2>4 DEF Notify, NotifyStep, DidClose
    <2> QED BY <2>1, <2>2, <2>3, <2>4 DEF Notifications
  <1>3. copy' \in [Docs -> 0..Torn] /\ shown' \in [Docs -> 0..Torn]
    <2> DEFINE n == IF m.kind = "open" THEN m.text ELSE Applied(copy[m.doc], m.edits)
    <2>1. Writes(m) => n \in 0..Torn
      <3>1. CASE m.kind = "open"
        BY <1>1, <3>1, BoundsAreNat DEF Texts, Torn
      <3>2. CASE m.kind = "change"
        BY <1>1, <3>2, AppliedForm
      <3> QED BY <3>1, <3>2 DEF Writes
    <2>2. 0 \in 0..Torn
      BY BoundsAreNat DEF Torn
    <2>3. copy \in [Docs -> 0..Torn] /\ shown \in [Docs -> 0..Torn]
      BY DEF TypeOK
    <2>4. \/ UNCHANGED <<copy, shown>>
          \/ Writes(m) /\ copy' = [copy EXCEPT ![m.doc] = n] /\ shown' = [shown EXCEPT ![m.doc] = n]
          \/ copy' = [copy EXCEPT ![m.doc] = 0] /\ UNCHANGED shown
      BY <1>2 DEF NotifyStep
    <2> HIDE DEF n
    <2>5. CASE UNCHANGED <<copy, shown>>
      BY <2>3, <2>5
    <2>6. CASE Writes(m) /\ copy' = [copy EXCEPT ![m.doc] = n] /\ shown' = [shown EXCEPT ![m.doc] = n]
      BY <2>1, <2>3, <2>6
    <2>7. CASE copy' = [copy EXCEPT ![m.doc] = 0] /\ UNCHANGED shown
      BY <2>2, <2>3, <2>7
    <2> QED BY <2>4, <2>5, <2>6, <2>7
  <1> QED BY <1>2, <1>3

(* What a step of the backend leaves alone.                                 *)
Browser == <<editor, known, ask, session>>

(* Two events one after the other.                                          *)
LEMMA Pair ==
    ASSUME NEW S, NEW a \in S, NEW b \in S
    PROVE  <<a>> \o <<b>> = <<a, b>> /\ <<a>> \in Seq(S) /\ <<b>> \in Seq(S) /\ <<a, b>> \in Seq(S)
  <1> DEFINE s == <<a>> \o <<b>>  t == <<a, b>>
  <1>1. s \in Seq(S) /\ t \in Seq(S) /\ Len(s) = 2 /\ Len(t) = 2
    OBVIOUS
  <1>2. s[1] = a /\ s[2] = b /\ t[1] = a /\ t[2] = b
    OBVIOUS
  <1> HIDE DEF s, t
  <1>3. \A i \in 1..2 : s[i] = t[i]
    BY <1>2
  <1>4. s = t
    BY <1>1, <1>3, SeqEqual
  <1>5. <<a>> \in Seq(S) /\ <<b>> \in Seq(S)
    OBVIOUS
  <1> QED BY <1>1, <1>4, <1>5 DEF s, t

(* What the backend reports when the server goes.                           *)
Farewell(es) == IF server = "starting" THEN <<Event("down"), Event("started")>> \o es
                ELSE <<Event("down")>> \o es

(* Stopping the server, with or without an answer.                          *)
LEMMA StopForm ==
    ASSUME TypeOK, NEW es \in Seq(Events), StopServer(es), UNCHANGED Browser
    PROVE  /\ UNCHANGED <<starts, shown>>
           /\ \/ server # "ready" /\ UNCHANGED <<server, copy>> /\ Reports(es)
              \/ server # "down" /\ server' = "down" /\ NoCopies /\ Reports(Farewell(es))
  <1>0. toBrowser \in Seq(Events) /\ es \in Seq(Events)
    BY DEF TypeOK
  <1>1. UNCHANGED <<starts, shown, editor, known, ask, session>>
    BY DEF StopServer, Browser
  <1>2. CASE toBrowser' = toBrowser \o es /\ UNCHANGED <<server, copy>> /\ server # "ready"
    BY <1>0, <1>1, <1>2 DEF Reports
  <1>3. CASE /\ server # "down" /\ server' = "down" /\ NoCopies
             /\ toBrowser' = toBrowser \o <<Event("down")>>
                   \o (IF server = "starting" THEN <<Event("started")>> ELSE <<>>) \o es
    <2> DEFINE d == Event("down")  s == Event("started")
    <2>1. d \in Events /\ s \in Events
      BY BuiltEvents
    <2>2. toBrowser' = toBrowser \o <<d>> \o (IF server = "starting" THEN <<s>> ELSE <<>>) \o es
      BY <1>3
    <2> HIDE DEF d, s
    <2>3. CASE server = "starting"
      <3>0. /\ <<d>> \in Seq(Events) /\ <<s>> \in Seq(Events) /\ <<d, s>> = <<d>> \o <<s>>
            /\ <<d, s>> \in Seq(Events)
        BY <2>1, Pair
      <3>1. toBrowser' = toBrowser \o (<<d, s>> \o es) /\ <<d, s>> \o es \in Seq(Events)
        <4>1. toBrowser' = ((toBrowser \o <<d>>) \o <<s>>) \o es
          BY <2>2, <2>3
        <4>2. (toBrowser \o <<d>>) \o <<s>> = toBrowser \o <<d, s>>
          BY <1>0, <3>0, ConcatAssociative
        <4>3. (toBrowser \o <<d, s>>) \o es = toBrowser \o (<<d, s>> \o es)
          BY <1>0, <3>0, ConcatAssociative
        <4> QED BY <4>1, <4>2, <4>3, <1>0, <3>0
      <3>2. Farewell(es) = <<d, s>> \o es
        BY <2>3 DEF Farewell, d, s
      <3> QED BY <1>1, <1>3, <3>1, <3>2 DEF Reports
    <2>4. CASE server # "starting"
      <3>1. toBrowser' = toBrowser \o (<<d>> \o es) /\ <<d>> \o es \in Seq(Events)
        BY <1>0, <2>1, <2>2, <2>4
      <3>2. Farewell(es) = <<d>> \o es
        BY <2>4 DEF Farewell, d, s
      <3> QED BY <1>1, <1>3, <3>1, <3>2 DEF Reports
    <2> QED BY <2>3, <2>4
  <1> QED BY <1>2, <1>3 DEF StopServer

(* Starting it.                                                             *)
LEMMA StartForm ==
    ASSUME TypeOK, StartServer, UNCHANGED Browser
    PROVE  /\ UNCHANGED <<copy, shown>> /\ starts' \in 0..MaxStarts
           /\ \/ server # "down" /\ UNCHANGED server /\ Reports(<<Event("started")>>)
              \/ server = "down" /\ server' = "starting" /\ Reports(<<Event("down")>>)
              \/ server = "down" /\ UNCHANGED server /\ Reports(<<Event("down"), Event("started")>>)
  <1> DEFINE d == Event("down")  s == Event("started")
  <1>0. toBrowser \in Seq(Events) /\ d \in Events /\ s \in Events
    BY BuiltEvents DEF TypeOK
  <1>1. UNCHANGED <<copy, shown, editor, known, ask, session>>
    BY DEF StartServer, Browser
  <1>2. starts' \in 0..MaxStarts
    BY BoundsAreNat DEF StartServer, TypeOK
  <1>3. \/ server # "down" /\ UNCHANGED server /\ toBrowser' = Append(toBrowser, s)
        \/ server = "down" /\ server' = "starting" /\ toBrowser' = Append(toBrowser, d)
        \/ server = "down" /\ UNCHANGED server /\ toBrowser' = toBrowser \o <<d, s>>
    BY DEF StartServer
  <1> HIDE DEF d, s
  <1>4. /\ Append(toBrowser, s) = toBrowser \o <<s>> /\ Append(toBrowser, d) = toBrowser \o <<d>>
        /\ <<s>> \in Seq(Events) /\ <<d>> \in Seq(Events) /\ <<d, s>> \in Seq(Events)
    BY <1>0
  <1> QED BY <1>1, <1>2, <1>3, <1>4 DEF Reports, d, s

(* A crash, and a successful start.                                         *)
LEMMA CrashForm ==
    ASSUME TypeOK, ServerCrash
    PROVE  /\ UNCHANGED <<starts, shown, toServer>>
           /\ server # "down" /\ server' = "down" /\ NoCopies /\ Reports(Farewell(<<>>))
  <1> DEFINE d == Event("down")  s == Event("started")
  <1>0. toBrowser \in Seq(Events) /\ d \in Events /\ s \in Events
    BY BuiltEvents DEF TypeOK
  <1>1. /\ UNCHANGED <<editor, known, ask, session, toServer, starts, shown>>
        /\ server # "down" /\ server' = "down" /\ NoCopies
        /\ toBrowser' = toBrowser \o <<d>> \o (IF server = "starting" THEN <<s>> ELSE <<>>)
    BY DEF ServerCrash
  <1> HIDE DEF d, s
  <1>3. CASE server = "starting"
    <2>1. toBrowser' = toBrowser \o (<<d, s>> \o <<>>) /\ <<d, s>> \o <<>> \in Seq(Events)
      <3>1. /\ <<d>> \in Seq(Events) /\ <<s>> \in Seq(Events) /\ <<d, s>> = <<d>> \o <<s>>
            /\ <<d, s>> \in Seq(Events)
        BY <1>0, Pair
      <3>4. <<d, s>> \o <<>> = <<d, s>>
        BY <3>1
      <3>2. toBrowser' = (toBrowser \o <<d>>) \o <<s>>
        BY <1>1, <1>3
      <3>3. (toBrowser \o <<d>>) \o <<s>> = toBrowser \o <<d, s>>
        BY <1>0, <3>1, ConcatAssociative
      <3> QED BY <3>1, <3>2, <3>3, <3>4
    <2>2. Farewell(<<>>) = <<d, s>> \o <<>>
      BY <1>3 DEF Farewell, d, s
    <2> QED BY <1>1, <2>1, <2>2 DEF Reports
  <1>4. CASE server # "starting"
    <2>1. toBrowser' = toBrowser \o (<<d>> \o <<>>) /\ <<d>> \o <<>> \in Seq(Events)
      BY <1>0, <1>1, <1>4
    <2>2. Farewell(<<>>) = <<d>> \o <<>>
      BY <1>4 DEF Farewell, d, s
    <2> QED BY <1>1, <2>1, <2>2 DEF Reports
  <1> QED BY <1>3, <1>4

(* A successful start.                                                      *)
LEMMA ReadyForm ==
    ASSUME TypeOK, ServerReady
    PROVE  /\ UNCHANGED <<starts, shown, copy, toServer>>
           /\ server = "starting" /\ server' = "ready"
           /\ Reports(<<Event("ready"), Event("ready"), Event("started")>>)
  <1> DEFINE r == Event("ready")  s == Event("started")
  <1>0. r \in Events /\ s \in Events
    BY BuiltEvents
  <1>1. /\ UNCHANGED <<editor, known, ask, session, toServer, starts, copy, shown>>
        /\ server = "starting" /\ server' = "ready"
        /\ toBrowser' = toBrowser \o <<r, r, s>>
    BY DEF ServerReady
  <1> HIDE DEF r, s
  <1>2. <<r, r, s>> \in Seq(Events)
    BY <1>0
  <1> QED BY <1>1, <1>2 DEF Reports, r, s

(* Serving a request.                                                       *)
LEMMA ServeForm ==
    ASSUME TypeOK, NEW m \in Messages, m.kind \in RequestKinds, Serve(m),
           UNCHANGED Browser
    PROVE  /\ UNCHANGED backend
           /\ \/ m.kind = "complete" /\ UNCHANGED toBrowser
              \/ m.kind \in Requests
                 /\ \E n \in 0..Torn : Reports(<<[kind |-> "edits", text |-> n]>>)
  <1>0. m.doc \in Docs /\ copy[m.doc] \in 0..Torn /\ 0 \in 0..Torn
    BY MessageKinds, BoundsAreNat DEF AboutDoc, TypeOK, Torn
  <1>1. UNCHANGED <<editor, known, ask, session>> /\ UNCHANGED backend
    BY DEF Browser, Serve
  <1>2. CASE m.kind = "complete"
    BY <1>1, <1>2 DEF Serve
  <1>3. CASE m.kind # "complete"
    <2>1. PICK n \in 0..Torn : toBrowser' = Append(toBrowser, [kind |-> "edits", text |-> n])
      BY <1>0, <1>3 DEF Serve
    <2>2. Reports(<<[kind |-> "edits", text |-> n]>>)
      BY <1>1, <2>1, BuiltEvents, ReportsOne
    <2> QED BY <1>1, <1>3, <2>2 DEF Requests
  <1> QED BY <1>2, <1>3

(* Answering what state the server is in.                                   *)
LEMMA FetchForm ==
    ASSUME TypeOK, FetchState, UNCHANGED Browser
    PROVE  /\ UNCHANGED backend
           /\ Reports(<<[kind |-> "state", running |-> server # "down"]>>)
  <1>1. UNCHANGED <<editor, known, ask, session>> /\ UNCHANGED backend
        /\ toBrowser' = Append(toBrowser, [kind |-> "state", running |-> server # "down"])
    BY DEF Browser, FetchState
  <1>2. [kind |-> "state", running |-> server # "down"] \in Events
    BY BuiltEvents
  <1> QED BY <1>1, <1>2, ReportsOne

(* What delivering message m does.                                          *)
DeliverStep(m) ==
    \/ m.kind \in Notifications /\ NotifyStep(m)
    \/ m.kind = "complete" /\ UNCHANGED <<toBrowser, backend>>
    \/ /\ m.kind \in Requests
       /\ \E n \in 0..Torn : Reports(<<[kind |-> "edits", text |-> n]>>)
       /\ UNCHANGED backend
    \/ m.kind = "fetch" /\ Reports(<<[kind |-> "state", running |-> server # "down"]>>)
       /\ UNCHANGED backend
    \/ /\ m.kind = "start" /\ UNCHANGED <<copy, shown>>
       /\ \/ server # "down" /\ UNCHANGED server /\ Reports(<<Event("started")>>)
          \/ server = "down" /\ server' = "starting" /\ Reports(<<Event("down")>>)
          \/ server = "down" /\ UNCHANGED server /\ Reports(<<Event("down"), Event("started")>>)
    \/ /\ m.kind \in {"stop", "quit"} /\ UNCHANGED <<starts, shown>>
       /\ \E es \in {<<Event("stopped")>>, <<>>} :
             /\ m.kind = "quit" <=> es = <<>>
             /\ \/ server # "ready" /\ UNCHANGED <<server, copy>> /\ Reports(es)
                \/ server # "down" /\ server' = "down" /\ NoCopies /\ Reports(Farewell(es))

(* Delivering a message.                                                    *)
LEMMA DeliverForm ==
    ASSUME TypeInv, Deliver
    PROVE  /\ toServer # <<>> /\ toServer' = Tail(toServer) /\ UNCHANGED Browser
           /\ Head(toServer) \in Messages /\ Head(toServer) = toServer[1] /\ 1 \in DOMAIN toServer
           /\ Head(toServer).kind = "change" => Head(toServer).edits # <<>>
           /\ DeliverStep(Head(toServer))
           /\ TypeOK' /\ EditorInv' /\ \E es : Reports(es)
  <1> DEFINE m == Head(toServer)
  <1>1. /\ toServer # <<>> /\ toServer' = Tail(toServer) /\ UNCHANGED Browser
        /\ m \in Messages /\ m = toServer[1] /\ 1 \in DOMAIN toServer
        /\ toServer' \in Seq(Messages)
    BY Tailed DEF Deliver, Browser, TypeInv, TypeOK
  <1>2. m.kind = "change" => m.edits # <<>>
    BY <1>1 DEF TypeInv, ChangesCarryEdits
  <1>3. UNCHANGED <<open, text, pending, openSent, timer, known, ask, session>>
    BY <1>1 DEF Browser, editor
  <1>t. TypeOK
    BY DEF TypeInv
  <1>q. /\ copy' \in [Docs -> 0..Torn] /\ shown' \in [Docs -> 0..Torn] /\ starts' \in 0..MaxStarts
        /\ server' \in {"down", "starting", "ready"} /\ (\E es : Reports(es)) /\ DeliverStep(m)
    <2>0. /\ copy \in [Docs -> 0..Torn] /\ shown \in [Docs -> 0..Torn] /\ starts \in 0..MaxStarts
          /\ server \in {"down", "starting", "ready"}
          /\ NoCopies => copy' \in [Docs -> 0..Torn]
      BY BoundsAreNat DEF TypeInv, TypeOK, NoCopies, Torn
    <2>1. CASE m.kind \in Notifications /\ Notify(m)
      <3>1. /\ NotifyStep(m)
            /\ copy' \in [Docs -> 0..Torn] /\ shown' \in [Docs -> 0..Torn]
        BY <1>1, <1>2, <2>1, NotifyForm DEF TypeInv
      <3>2. UNCHANGED <<toBrowser, server, starts>>
        BY <3>1 DEF NotifyStep
      <3>3. Reports(<<>>)
        BY <1>1, <3>2, ReportsNothing DEF TypeInv, Browser
      <3> QED BY <2>0, <2>1, <3>1, <3>2, <3>3 DEF DeliverStep
    <2>2. CASE m.kind \in RequestKinds /\ Serve(m)
      <3>1. /\ UNCHANGED backend
            /\ \/ m.kind = "complete" /\ UNCHANGED toBrowser
               \/ m.kind \in Requests
                  /\ \E n \in 0..Torn : Reports(<<[kind |-> "edits", text |-> n]>>)
        BY <1>t, <1>1, <2>2, ServeForm
      <3>2. UNCHANGED toBrowser => Reports(<<>>)
        BY <1>1, ReportsNothing DEF TypeInv, Browser
      <3>3. DeliverStep(m)
        BY <3>1 DEF DeliverStep
      <3> QED BY <2>0, <3>1, <3>2, <3>3 DEF backend
    <2>3. CASE m.kind = "fetch" /\ FetchState
      <3>1. UNCHANGED backend /\ Reports(<<[kind |-> "state", running |-> server # "down"]>>)
        BY <1>t, <1>1, <2>3, FetchForm
      <3> QED BY <2>0, <2>3, <3>1 DEF DeliverStep, backend
    <2>4. CASE m.kind = "start" /\ StartServer
      <3>1. /\ UNCHANGED <<copy, shown>> /\ starts' \in 0..MaxStarts
            /\ \/ server # "down" /\ UNCHANGED server /\ Reports(<<Event("started")>>)
               \/ server = "down" /\ server' = "starting" /\ Reports(<<Event("down")>>)
               \/ server = "down" /\ UNCHANGED server /\ Reports(<<Event("down"), Event("started")>>)
        BY <1>t, <1>1, <2>4, StartForm
      <3>2. DeliverStep(m)
        BY <2>4, <3>1 DEF DeliverStep
      <3> QED BY <2>0, <3>1, <3>2
    <2>5. ASSUME NEW es \in {<<Event("stopped")>>, <<>>}, StopServer(es),
                 m.kind \in {"stop", "quit"}, m.kind = "quit" <=> es = <<>>
          PROVE  /\ copy' \in [Docs -> 0..Torn] /\ shown' \in [Docs -> 0..Torn]
                 /\ starts' \in 0..MaxStarts /\ server' \in {"down", "starting", "ready"}
                 /\ (\E s : Reports(s)) /\ DeliverStep(m)
      <3>1. es \in Seq(Events)
        <4>1. <<Event("stopped")>> \in Seq(Events) /\ <<>> \in Seq(Events)
          BY BuiltEvents, Pair
        <4> QED BY <4>1, <2>5
      <3>2. /\ UNCHANGED <<starts, shown>>
            /\ \/ server # "ready" /\ UNCHANGED <<server, copy>> /\ Reports(es)
               \/ server # "down" /\ server' = "down" /\ NoCopies /\ Reports(Farewell(es))
        BY <1>t, <1>1, <2>5, <3>1, StopForm
      <3>3. DeliverStep(m)
        BY <2>5, <3>2 DEF DeliverStep
      <3> QED BY <2>0, <3>2, <3>3
    <2>6. CASE m.kind = "stop" /\ StopServer(<<Event("stopped")>>)
      BY <2>5, <2>6
    <2>7. CASE m.kind = "quit" /\ StopServer(<<>>)
      BY <2>5, <2>7
    <2> QED BY <2>1, <2>2, <2>3, <2>4, <2>6, <2>7 DEF Deliver, Notifications
  <1>4. toBrowser' \in Seq(Events)
    BY <1>q, Added DEF Reports, TypeInv, TypeOK
  <1>5. TypeOK'
    BY <1>1, <1>3, <1>4, <1>q DEF TypeInv, TypeOK
  <1>6. EditorInv'
    BY <1>1, EditorIdle DEF Browser
  <1> QED BY <1>1, <1>2, <1>5, <1>6, <1>q

(* A crash and a successful start keep the types.                           *)
LEMMA ProcessKeeps ==
    ASSUME TypeInv, ServerReady \/ ServerCrash
    PROVE  TypeOK' /\ EditorInv' /\ UNCHANGED toServer /\ UNCHANGED Browser /\ \E es : Reports(es)
  <1>1. /\ UNCHANGED <<starts, shown, toServer>> /\ (NoCopies \/ UNCHANGED copy)
        /\ server' \in {"down", "ready"} /\ \E es : Reports(es)
    BY ReadyForm, CrashForm DEF TypeInv
  <1>2. UNCHANGED Browser /\ UNCHANGED <<open, text, pending, openSent, timer, known, ask, session>>
    BY <1>1 DEF Reports, Browser, editor
  <1>3. toBrowser' \in Seq(Events)
    BY <1>1, Added DEF Reports, TypeInv, TypeOK
  <1>4. copy' \in [Docs -> 0..Torn]
    BY <1>1, BoundsAreNat DEF NoCopies, Torn, TypeInv, TypeOK
  <1>5. TypeOK'
    BY <1>1, <1>2, <1>3, <1>4 DEF TypeInv, TypeOK
  <1>6. EditorInv'
    BY <1>2, EditorIdle DEF Browser
  <1> QED BY <1>1, <1>2, <1>5, <1>6

-----------------------------------------------------------------------------
(* Receiving an event, in its three ways.                                   *)
ReceiveStep(e) ==
    \/ e.kind \in {"ready", "down"} /\ StateStep(e.kind)
    \/ /\ e.kind = "edits" /\ ask # NoAsk /\ ApplyStep /\ UNCHANGED <<known, session>>
       /\ \E ms : Speaks(ms) /\ \A i \in DOMAIN ms : ms[i].kind \in Notifications
    \/ e.kind \in Answers /\ Answer(e) /\ UNCHANGED <<editor, known, ask>>
       /\ \/ UNCHANGED toServer
          \/ \E k \in {"start", "stop"} : Speaks(<<Event(k)>>) /\ Event(k).kind = k

(* Receiving an event.                                                      *)
LEMMA ReceiveForm ==
    ASSUME TypeInv, Receive
    PROVE  /\ toBrowser # <<>> /\ toBrowser' = Tail(toBrowser) /\ UNCHANGED backend
           /\ Head(toBrowser) \in Events /\ Head(toBrowser) = toBrowser[1] /\ 1 \in DOMAIN toBrowser
           /\ ReceiveStep(Head(toBrowser))
           /\ TypeOK' /\ EditorInv'
           /\ \A d \in Docs : text[d] <= text'[d]
           /\ \E ms : Speaks(ms) /\ \A i \in DOMAIN ms : ms[i].kind \notin Requests
  <1> DEFINE e == Head(toBrowser)
  <1>1. /\ toBrowser # <<>> /\ toBrowser' = Tail(toBrowser) /\ UNCHANGED backend
        /\ e \in Events /\ e = toBrowser[1] /\ 1 \in DOMAIN toBrowser
        /\ toBrowser' \in Seq(Events)
    BY Tailed DEF Receive, TypeInv, TypeOK
  <1>q. /\ ReceiveStep(e) /\ TypeOK' /\ EditorInv'
        /\ \A d \in Docs : text[d] <= text'[d]
        /\ \E ms : Speaks(ms) /\ \A i \in DOMAIN ms : ms[i].kind \notin Requests
    <2>0. \A d \in Docs : text[d] <= text[d]
      BY DEF TypeInv, TypeOK
    <2>s. UNCHANGED toServer => Speaks(<<>>)
      BY Silent DEF TypeInv
    <2>1. CASE e.kind \in {"ready", "down"} /\ StateEvent(e.kind)
      <3>1. TypeOK' /\ EditorInv' /\ StateStep(e.kind)
        BY <1>1, <2>1, StateEventKeeps
      <3>2. \E ms : Speaks(ms) /\ \A i \in DOMAIN ms : ms[i].kind \notin Requests
        <4>1. CASE e.kind = "ready"
          <5>1. PICK o \in Orders(Unsent) : Speaks(Openings(o))
            BY <3>1, <4>1 DEF StateStep
          <5>2. \A i \in DOMAIN Openings(o) : Openings(o)[i].kind = "open"
            BY OpeningsForm DEF TypeInv
          <5> QED BY <5>1, <5>2 DEF Requests
        <4>2. CASE e.kind = "down"
          BY <3>1, <4>2, <2>s DEF StateStep
        <4> QED BY <2>1, <4>1, <4>2
      <3>3. UNCHANGED text
        BY <3>1 DEF StateStep
      <3> QED BY <2>0, <2>1, <3>1, <3>2, <3>3 DEF ReceiveStep
    <2>2. CASE e.kind = "edits" /\ ApplyEdits(e) /\ UNCHANGED <<known, session>>
      <3>1. ask # NoAsk
        BY <1>1, <2>2 DEF TypeInv, OneRequest
      <3>2. /\ TypeOK' /\ EditorInv' /\ ApplyStep
            /\ \A d \in Docs : text[d] <= text'[d]
            /\ \E ms : Speaks(ms) /\ \A i \in DOMAIN ms : ms[i].kind \in Notifications
        BY <1>1, <2>2, <3>1, ApplyKeeps
      <3>3. \E ms : Speaks(ms) /\ \A i \in DOMAIN ms : ms[i].kind \notin Requests
        BY <3>2 DEF Notifications, Requests
      <3> QED BY <2>2, <3>1, <3>2, <3>3 DEF ReceiveStep
    <2>3. CASE e.kind \in Answers /\ Answer(e) /\ UNCHANGED <<editor, known, ask>>
      <3>1. /\ TypeOK' /\ EditorInv'
            /\ \/ UNCHANGED toServer
               \/ \E k \in {"start", "stop"} : Speaks(<<Event(k)>>) /\ Event(k).kind = k
        BY <1>1, <2>3, AnswerKeeps
      <3>2. \E ms : Speaks(ms) /\ \A i \in DOMAIN ms : ms[i].kind \notin Requests
        <4>1. CASE UNCHANGED toServer
          BY <4>1, <2>s
        <4>2. ASSUME NEW k \in {"start", "stop"}, Speaks(<<Event(k)>>), Event(k).kind = k
              PROVE  \E ms : Speaks(ms) /\ \A i \in DOMAIN ms : ms[i].kind \notin Requests
          BY <4>2 DEF Requests
        <4> QED BY <3>1, <4>1, <4>2
      <3>3. UNCHANGED text
        BY <2>3 DEF editor
      <3> QED BY <2>0, <2>3, <3>1, <3>2, <3>3 DEF ReceiveStep
    <2> QED BY <2>1, <2>2, <2>3 DEF Receive, Answers
  <1> QED BY <1>1, <1>q

(* Changes stay whole when something is said.                               *)
LEMMA SpeaksWhole ==
    ASSUME TypeOK, ChangesCarryEdits, NEW ms, Speaks(ms)
    PROVE  ChangesCarryEdits'
  <1>1. ASSUME NEW i \in DOMAIN toServer', toServer'[i].kind = "change"
        PROVE  toServer'[i].edits # <<>>
    <2>1. CASE i \in DOMAIN toServer
      BY <1>1, <2>1, Added DEF TypeOK, Speaks, ChangesCarryEdits
    <2>2. CASE i \notin DOMAIN toServer
      BY <1>1, <2>2, Added DEF TypeOK, Speaks
    <2> QED BY <2>1, <2>2
  <1> QED BY <1>1 DEF ChangesCarryEdits

(* What is in the queue to the server was there, or is said now.            *)
LEMMA OldRequests ==
    ASSUME TypeOK, NEW ms, Speaks(ms), \A i \in DOMAIN ms : ms[i].kind \notin Requests
    PROVE  \A i \in DOMAIN toServer' : toServer'[i].kind \in Requests =>
              i \in DOMAIN toServer /\ toServer[i] = toServer'[i]
  BY Added DEF TypeOK, Speaks

(* One request stays one while others are said.                             *)
LEMMA RequestStays ==
    ASSUME TypeOK, OneRequest, NEW ms, Speaks(ms), \A i \in DOMAIN ms : ms[i].kind \notin Requests,
           UNCHANGED toBrowser,
           ask # NoAsk /\ ask.sent => ask' # NoAsk /\ ask'.sent
    PROVE  OneRequest'
  <1>1. \A i \in DOMAIN toServer' : toServer'[i].kind \in Requests =>
              i \in DOMAIN toServer /\ toServer[i] = toServer'[i]
    BY OldRequests
  <1> QED BY <1>1 DEF OneRequest

(* One request stays one when an event is taken.                            *)
LEMMA RequestTaken ==
    ASSUME TypeOK, OneRequest, NEW ms, Speaks(ms), \A i \in DOMAIN ms : ms[i].kind \notin Requests,
           toBrowser # <<>>, toBrowser' = Tail(toBrowser),
           Head(toBrowser).kind = "edits" \/ UNCHANGED ask
    PROVE  OneRequest'
  <1>1. \A i \in DOMAIN toServer' : toServer'[i].kind \in Requests =>
              i \in DOMAIN toServer /\ toServer[i] = toServer'[i]
    BY OldRequests
  <1>2. /\ Head(toBrowser) = toBrowser[1] /\ 1 \in DOMAIN toBrowser
        /\ \A i \in DOMAIN toBrowser' : /\ i \in Int /\ i + 1 \in DOMAIN toBrowser /\ i + 1 # 1
                                        /\ toBrowser'[i] = toBrowser[i + 1]
    BY Tailed DEF TypeOK
  <1>3. CASE Head(toBrowser).kind = "edits"
    <2>1. \A i \in DOMAIN toBrowser' : toBrowser'[i].kind # "edits"
      BY <1>2, <1>3 DEF OneRequest
    <2>2. \A i \in DOMAIN toServer' : toServer'[i].kind \notin Requests
      BY <1>1, <1>2, <1>3 DEF OneRequest
    <2> QED BY <2>1, <2>2 DEF OneRequest
  <1>4. CASE UNCHANGED ask
    BY <1>1, <1>2, <1>4 DEF OneRequest
  <1> QED BY <1>3, <1>4

(* Sending it makes it the only one.                                        *)
LEMMA RequestSent ==
    ASSUME TypeOK, OneRequest, AskStep
    PROVE  OneRequest'
  <1>1. /\ \A i \in DOMAIN toServer : toServer[i].kind \notin Requests
        /\ \A i \in DOMAIN toBrowser : toBrowser[i].kind # "edits"
        /\ UNCHANGED toBrowser
    BY DEF AskStep, OneRequest
  <1>2. CASE UNCHANGED toServer
    BY <1>1, <1>2 DEF OneRequest
  <1>3. ASSUME NEW m \in Messages, Speaks(<<m>>), m.kind \in Requests => ask' # NoAsk /\ ask'.sent
        PROVE  OneRequest'
    <2>1. ASSUME NEW i \in DOMAIN toServer', toServer'[i].kind \in Requests
          PROVE  i = Len(toServer) + 1 /\ toServer'[i] = m
      BY <1>1, <2>1, <1>3, Added DEF TypeOK, Speaks
    <2> QED BY <1>1, <1>3, <2>1 DEF OneRequest
  <1> QED BY <1>2, <1>3 DEF AskStep

(* One request stays one when a message is delivered or something reported. *)
LEMMA RequestServed ==
    ASSUME TypeOK, OneRequest, NEW es, Reports(es),
           \/ /\ toServer # <<>> /\ toServer' = Tail(toServer)
              /\ \/ \A i \in DOMAIN es : es[i].kind # "edits"
                 \/ Head(toServer).kind \in Requests /\ Len(es) = 1
           \/ UNCHANGED toServer /\ \A i \in DOMAIN es : es[i].kind # "edits"
    PROVE  OneRequest'
  <1>1. /\ UNCHANGED ask /\ toBrowser \in Seq(Events) /\ es \in Seq(Events)
        /\ toBrowser' = toBrowser \o es
    BY DEF Reports, TypeOK
  <1>2. \A i \in DOMAIN toBrowser' : i \notin DOMAIN toBrowser =>
           i - Len(toBrowser) \in DOMAIN es /\ toBrowser'[i] = es[i - Len(toBrowser)]
    BY <1>1, Added
  <1>3. \A i \in DOMAIN toBrowser' : i \in DOMAIN toBrowser => toBrowser'[i] = toBrowser[i]
    BY <1>1, Added
  <1>4. toServer # <<>> /\ toServer' = Tail(toServer) =>
           /\ Head(toServer) = toServer[1] /\ 1 \in DOMAIN toServer
           /\ \A i \in DOMAIN toServer' : /\ i \in Int /\ i + 1 \in DOMAIN toServer /\ i + 1 # 1
                                          /\ toServer'[i] = toServer[i + 1]
    BY Tailed DEF TypeOK
  <1>5. CASE \A i \in DOMAIN es : es[i].kind # "edits"
    <2>1. \A i \in DOMAIN toBrowser' : toBrowser'[i].kind = "edits" =>
             i \in DOMAIN toBrowser /\ toBrowser'[i] = toBrowser[i]
      BY <1>2, <1>3, <1>5
    <2>2. CASE UNCHANGED toServer
      BY <1>1, <2>1, <2>2 DEF OneRequest
    <2>3. CASE toServer # <<>> /\ toServer' = Tail(toServer)
      BY <1>1, <1>4, <2>1, <2>3 DEF OneRequest
    <2> QED BY <2>2, <2>3
  <1>6. CASE Head(toServer).kind \in Requests /\ Len(es) = 1 /\ toServer # <<>> /\ toServer' = Tail(toServer)
    <2>1. \A i \in DOMAIN toServer' : toServer'[i].kind \notin Requests
      BY <1>4, <1>6 DEF OneRequest
    <2>2. \A i \in DOMAIN toBrowser : toBrowser[i].kind # "edits"
      BY <1>4, <1>6 DEF OneRequest
    <2>3. \A i \in DOMAIN toBrowser' : toBrowser'[i].kind = "edits" => i = Len(toBrowser) + 1
      BY <1>1, <1>2, <1>3, <1>6, <2>2
    <2>4. ask # NoAsk /\ ask.sent
      BY <1>4, <1>6 DEF OneRequest
    <2> QED BY <1>1, <2>1, <2>3, <2>4 DEF OneRequest
  <1> QED BY <1>5, <1>6

(* The actions on document d, of the user and of its timer.                 *)
DocAction(d) ==
    \/ OpenDocument(d) \/ ChangeDocument(d) \/ ReplaceDocument(d)
    \/ CloseDocument(d) \/ DebounceFires(d) \/ BeginReformat(d)
    \/ \E kind \in {"complete", "format", "organize"} : BeginAsk(d, kind)

(* Each of them is a document step.                                         *)
LEMMA DocActionKeeps ==
    ASSUME TypeInv, NEW d \in Docs, DocAction(d)
    PROVE  TypeOK' /\ EditorInv' /\ DocStep
  BY OpenDocumentKeeps, ChangeDocumentKeeps, CloseDocumentKeeps, DebounceKeeps, BeginAskKeeps,
     BeginReformatKeeps DEF DocAction

(* The parts of a report that are events of the process.                    *)
LEMMA FarewellItems ==
    ASSUME NEW es \in {<<>>, <<Event("stopped")>>}
    PROVE  \A i \in DOMAIN Farewell(es) : Farewell(es)[i].kind \in {"down", "started", "stopped"}
  <1> DEFINE d == Event("down")  s == Event("started")  t == Event("stopped")
  <1>1. d.kind = "down" /\ s.kind = "started" /\ t.kind = "stopped" /\ es \in {<<>>, <<t>>}
        /\ Farewell(es) = IF server = "starting" THEN <<d, s>> \o es ELSE <<d>> \o es
    BY BuiltEvents DEF Farewell
  <1> HIDE DEF d, s, t
  <1> QED BY <1>1

(* No step but serving a request reports edits.                             *)
LEMMA OnlyServingEdits ==
    ASSUME TypeInv, NEW m, DeliverStep(m), UNCHANGED Browser
    PROVE  \E es : /\ Reports(es)
                   /\ \/ \A i \in DOMAIN es : es[i].kind # "edits"
                      \/ m.kind \in Requests /\ Len(es) = 1
  <1> DEFINE s == [kind |-> "state", running |-> server # "down"]
             d == Event("down")  t == Event("started")  p == Event("stopped")
  <1>0. s.kind = "state" /\ d.kind = "down" /\ t.kind = "started" /\ p.kind = "stopped"
    BY BuiltEvents
  <1>1. CASE UNCHANGED toBrowser
    <2>1. Reports(<<>>)
      BY <1>1, ReportsNothing DEF TypeInv, Browser
    <2> QED BY <2>1
  <1>2. ASSUME NEW n \in 0..Torn, Reports(<<[kind |-> "edits", text |-> n]>>), m.kind \in Requests
        PROVE  \E es : Reports(es) /\ m.kind \in Requests /\ Len(es) = 1
    BY <1>2
  <1> HIDE DEF s, d, t, p
  <1>3. CASE Reports(<<s>>) \/ Reports(<<t>>) \/ Reports(<<d>>) \/ Reports(<<d, t>>)
    BY <1>0, <1>3
  <1>4. ASSUME NEW es \in {<<>>, <<p>>}, Reports(es) \/ Reports(Farewell(es))
        PROVE  \E r : Reports(r) /\ \A i \in DOMAIN r : r[i].kind # "edits"
    <2>1. \A i \in DOMAIN Farewell(es) : Farewell(es)[i].kind # "edits"
      BY FarewellItems DEF p
    <2>2. \A i \in DOMAIN es : es[i].kind # "edits"
      BY <1>0
    <2> QED BY <2>1, <2>2, <1>4
  <1> QED BY <1>1, <1>2, <1>3, <1>4 DEF DeliverStep, NotifyStep, s, d, t, p

(* Every step keeps the types and the editor's records.                     *)
LEMMA TypeStep ==
    ASSUME TypeInv, [Next]_vars
    PROVE  TypeInv'
  <1>0. TypeOK /\ OneRequest /\ ChangesCarryEdits
    BY DEF TypeInv
  <1>1. ASSUME NEW d \in Docs, DocAction(d) PROVE TypeInv'
    <2>1. TypeOK' /\ EditorInv' /\ DocStep
      BY <1>1, DocActionKeeps
    <2>2. PICK ms : Speaks(ms) /\ \A i \in DOMAIN ms : ms[i].kind \in Notifications
      BY <2>1 DEF DocStep
    <2>3. \A i \in DOMAIN ms : ms[i].kind \notin Requests
      BY <2>2 DEF Notifications, Requests
    <2>4. UNCHANGED toBrowser /\ (ask # NoAsk /\ ask.sent => ask' # NoAsk /\ ask'.sent)
      BY <2>1 DEF DocStep
    <2>5. OneRequest'
      BY <1>0, <2>2, <2>3, <2>4, RequestStays
    <2> QED BY <1>0, <2>1, <2>2, <2>5, SpeaksWhole DEF TypeInv
  <1>2. CASE SendAsk
    <2>1. TypeOK' /\ EditorInv' /\ AskStep
      BY <1>2, SendAskKeeps
    <2>2. ChangesCarryEdits'
      <3>1. UNCHANGED toServer => Speaks(<<>>)
        BY <1>0, Silent
      <3> QED BY <1>0, <2>1, <3>1, SpeaksWhole DEF AskStep
    <2> QED BY <1>0, <2>1, <2>2, RequestSent DEF TypeInv
  <1>3. CASE Activate \/ Deactivate
    <2>1. /\ TypeOK' /\ EditorInv' /\ UNCHANGED <<toBrowser, ask>>
          /\ \E k \in {"fetch", "quit"} : Speaks(<<Event(k)>>) /\ Event(k).kind = k
      BY <1>3, ActivateKeeps DEF Activate, Deactivate
    <2>2. PICK k \in {"fetch", "quit"} : Speaks(<<Event(k)>>) /\ Event(k).kind = k
      BY <2>1
    <2>3. \A i \in DOMAIN <<Event(k)>> : <<Event(k)>>[i].kind \notin Requests
      BY <2>2 DEF Requests
    <2>4. OneRequest'
      BY <1>0, <2>1, <2>2, <2>3, RequestStays
    <2> QED BY <1>0, <2>1, <2>2, <2>4, SpeaksWhole DEF TypeInv
  <1>4. CASE Receive
    <2>1. /\ toBrowser # <<>> /\ toBrowser' = Tail(toBrowser)
          /\ ReceiveStep(Head(toBrowser)) /\ TypeOK' /\ EditorInv'
          /\ \E ms : Speaks(ms) /\ \A i \in DOMAIN ms : ms[i].kind \notin Requests
      BY <1>4, ReceiveForm
    <2>2. PICK ms : Speaks(ms) /\ \A i \in DOMAIN ms : ms[i].kind \notin Requests
      BY <2>1
    <2>3. Head(toBrowser).kind = "edits" \/ UNCHANGED ask
      BY <2>1 DEF ReceiveStep, StateStep
    <2>4. OneRequest'
      BY <1>0, <2>1, <2>2, <2>3, RequestTaken
    <2> QED BY <1>0, <2>1, <2>2, <2>4, SpeaksWhole DEF TypeInv
  <1>5. CASE Deliver
    <2>1. /\ toServer # <<>> /\ toServer' = Tail(toServer) /\ UNCHANGED Browser
          /\ DeliverStep(Head(toServer)) /\ TypeOK' /\ EditorInv'
      BY <1>5, DeliverForm
    <2>2. OneRequest'
      BY <1>0, <2>1, OnlyServingEdits, RequestServed
    <2>3. ChangesCarryEdits'
      <3>1. \A i \in DOMAIN toServer' : i + 1 \in DOMAIN toServer /\ toServer'[i] = toServer[i + 1]
        BY <1>0, <2>1, Tailed DEF TypeOK
      <3> QED BY <1>0, <3>1 DEF ChangesCarryEdits
    <2> QED BY <2>1, <2>2, <2>3 DEF TypeInv
  <1>6. CASE ServerReady \/ ServerCrash
    <2>1. TypeOK' /\ EditorInv' /\ UNCHANGED toServer
      BY <1>6, ProcessKeeps
    <2>2. \E es : Reports(es) /\ \A i \in DOMAIN es : es[i].kind # "edits"
      <3>1. CASE ServerReady
        <4> DEFINE r == Event("ready")  s == Event("started")
        <4>1. Reports(<<r, r, s>>) /\ r.kind = "ready" /\ s.kind = "started"
          BY <1>0, <3>1, ReadyForm, BuiltEvents
        <4> HIDE DEF r, s
        <4> QED BY <4>1
      <3>2. CASE ServerCrash
        <4>1. Reports(Farewell(<<>>))
          BY <1>0, <3>2, CrashForm
        <4>2. \A i \in DOMAIN Farewell(<<>>) : Farewell(<<>>)[i].kind # "edits"
          BY FarewellItems
        <4> QED BY <4>1, <4>2
      <3> QED BY <1>6, <3>1, <3>2
    <2>3. OneRequest'
      BY <1>0, <2>1, <2>2, RequestServed
    <2>4. ChangesCarryEdits'
      BY <1>0, <2>1 DEF ChangesCarryEdits
    <2> QED BY <2>1, <2>3, <2>4 DEF TypeInv
  <1>7. CASE UNCHANGED vars
    BY <1>7 DEF vars, TypeInv, TypeOK, EditorInv, Tracked, AskInv, Ready, OneRequest, ChangesCarryEdits
  <1> QED BY <1>1, <1>2, <1>3, <1>4, <1>5, <1>6, <1>7 DEF Next, DocAction

(* The initial states.                                                      *)
LEMMA TypeInit == Init => TypeInv
  <1> SUFFICES ASSUME Init PROVE TypeInv
    OBVIOUS
  <1>1. TypeOK
    BY BoundsAreNat DEF Init, TypeOK, Asks, Torn
  <1>2. EditorInv
    BY DEF Init, EditorInv, Tracked, AskInv, Ready
  <1>3. OneRequest /\ ChangesCarryEdits
    BY DEF Init, OneRequest, ChangesCarryEdits
  <1> QED BY <1>1, <1>2, <1>3 DEF TypeInv

(* Every variable keeps its type, and the editor's records of a document    *)
(* fit each other.                                                          *)
LEMMA TypeAlways == Spec => []TypeInv
  BY TypeInit, TypeStep, PTL DEF Spec

(* Type correctness: in particular no event ever refers to a request that   *)
(* is no longer under way (applyEdits, runSaveActions).                     *)
THEOREM TypeCorrect == Spec => []TypeOK
  BY TypeAlways, PTL DEF TypeInv

-----------------------------------------------------------------------------
(* The lifecycle has one call under way at a time: its token is the call,   *)
(* its answer, or the start the server is busy with.                        *)
NoCall == \A i \in DOMAIN toServer : toServer[i].kind \notin Calls
NoAnswer == \A i \in DOMAIN toBrowser : toBrowser[i].kind \notin Answers

(* The token stays where it is while other things are said and taken.       *)
LEMMA CallStays ==
    ASSUME TypeOK, OneCall, NEW ms, Speaks(ms), \A i \in DOMAIN ms : ms[i].kind \notin Calls,
           \/ UNCHANGED toBrowser
           \/ toBrowser # <<>> /\ toBrowser' = Tail(toBrowser),
           UNCHANGED server,
           UNCHANGED session \/ (session \in {"fetching", "stopping"} /\ session' = "dropped")
    PROVE  OneCall'
  <1>1. \A i \in DOMAIN toServer' : toServer'[i].kind \in Calls =>
           i \in DOMAIN toServer /\ toServer[i] = toServer'[i]
    BY Added DEF TypeOK, Speaks
  <1>2. CASE UNCHANGED toBrowser
    BY <1>1, <1>2 DEF OneCall, Calls
  <1>3. CASE toBrowser # <<>> /\ toBrowser' = Tail(toBrowser)
    <2>1. \A i \in DOMAIN toBrowser' : /\ i \in Int /\ i + 1 \in DOMAIN toBrowser
                                       /\ toBrowser'[i] = toBrowser[i + 1]
      BY <1>3, Tailed DEF TypeOK
    <2>2. ASSUME NEW i \in DOMAIN toBrowser', NEW j \in DOMAIN toBrowser',
                 toBrowser'[i].kind \in Answers, toBrowser'[j].kind \in Answers
          PROVE  i = j
      <3>1. i + 1 = j + 1
        BY <2>1, <2>2 DEF OneCall
      <3> QED BY <3>1, <2>1
    <2> QED BY <1>1, <2>1, <2>2 DEF OneCall, Calls
  <1> QED BY <1>2, <1>3

(* A call is made when there is no token.                                   *)
LEMMA CallMade ==
    ASSUME TypeOK, NoCall, NoAnswer', server' # "starting",
           NEW m \in Messages, Speaks(<<m>>),
           \/ m.kind = "fetch" /\ session' = "fetching"
           \/ m.kind = "stop" /\ session' = "stopping"
           \/ m.kind = "start" /\ session' = "starting"
    PROVE  OneCall'
  <1>1. \A i \in DOMAIN toServer' : toServer'[i].kind \in Calls =>
           i = Len(toServer) + 1 /\ toServer'[i] = m
    BY Added DEF TypeOK, Speaks, NoCall
  <1> QED BY <1>1 DEF OneCall, NoAnswer, Calls, Answers

(* The answer is taken.                                                     *)
LEMMA AnswerTaken ==
    ASSUME TypeOK, OneCall, toBrowser # <<>>, Head(toBrowser).kind \in Answers,
           toBrowser' = Tail(toBrowser)
    PROVE  /\ NoCall /\ NoAnswer' /\ server # "starting"
           /\ Head(toBrowser).kind = "state" => session \in {"fetching", "dropped"}
           /\ Head(toBrowser).kind = "stopped" => session \in {"stopping", "dropped"}
           /\ Head(toBrowser).kind = "started" => session = "starting"
  <1>1. /\ Head(toBrowser) = toBrowser[1] /\ 1 \in DOMAIN toBrowser
        /\ \A i \in DOMAIN toBrowser' : /\ i \in Int /\ i + 1 \in DOMAIN toBrowser /\ i + 1 # 1
                                        /\ toBrowser'[i] = toBrowser[i + 1]
    BY Tailed DEF TypeOK
  <1> QED BY <1>1 DEF OneCall, NoCall, NoAnswer

(* What the chain does with its answer leaves one token or none.            *)
LEMMA AnswerOneCall ==
    ASSUME TypeInv, OneCall, NEW e, e = Head(toBrowser), toBrowser # <<>>, e.kind \in Answers,
           toBrowser' = Tail(toBrowser), Answer(e), UNCHANGED backend
    PROVE  OneCall'
  <1>t. TypeOK
    BY DEF TypeInv
  <1>1. /\ NoCall /\ NoAnswer' /\ server # "starting" /\ server' = server
    BY <1>t, AnswerTaken DEF backend
  <1>2. CASE UNCHANGED toServer
    BY <1>1, <1>2 DEF NoCall, NoAnswer, OneCall, Calls, Answers
  <1>3. ASSUME NEW k \in {"start", "stop"}, Send(<<Event(k)>>),
               session' = IF k = "start" THEN "starting" ELSE "stopping"
        PROVE  OneCall'
    <2>1. Speaks(<<Event(k)>>) /\ Event(k).kind = k
      BY <1>t, <1>3, CallSpeaks
    <2>2. Event(k) \in Messages
      BY DEF Event, Messages
    <2>3. server' # "starting"
      BY <1>1
    <2>4. \/ Event(k).kind = "stop" /\ session' = "stopping"
          \/ Event(k).kind = "start" /\ session' = "starting"
      BY <1>3, <2>1
    <2> QED BY <1>t, <1>1, <2>1, <2>2, <2>3, <2>4, CallMade
  <1>4. \/ UNCHANGED toServer
        \/ Send(<<Event("start")>>) /\ session' = "starting"
        \/ Send(<<Event("stop")>>) /\ session' = "stopping"
    BY DEF Answer, Continue
  <1> QED BY <1>2, <1>3, <1>4

(* A message that is no call is delivered.                                  *)
LEMMA OtherDelivered ==
    ASSUME TypeOK, OneCall, toServer # <<>>, toServer' = Tail(toServer),
           NEW es, Reports(es), \A i \in DOMAIN es : es[i].kind \notin Answers,
           server' # "starting" \/ UNCHANGED server
    PROVE  OneCall'
  <1>0. UNCHANGED session
    BY DEF Reports
  <1>1. \A i \in DOMAIN toServer' : /\ i \in Int /\ i + 1 \in DOMAIN toServer
                                    /\ toServer'[i] = toServer[i + 1]
    BY Tailed DEF TypeOK
  <1>2. \A i \in DOMAIN toBrowser' : toBrowser'[i].kind \in Answers =>
             i \in DOMAIN toBrowser /\ toBrowser'[i] = toBrowser[i]
    BY Added DEF TypeOK, Reports
  <1> QED BY <1>0, <1>1, <1>2 DEF OneCall, Answers

(* The call is delivered.                                                   *)
LEMMA CallTaken ==
    ASSUME TypeOK, OneCall, toServer # <<>>, Head(toServer).kind \in Calls,
           toServer' = Tail(toServer)
    PROVE  /\ NoCall' /\ NoAnswer /\ server # "starting"
           /\ Head(toServer).kind = "fetch" => session \in {"fetching", "dropped"}
           /\ Head(toServer).kind = "stop" => session \in {"stopping", "dropped"}
           /\ Head(toServer).kind = "start" => session = "starting"
  <1>1. /\ Head(toServer) = toServer[1] /\ 1 \in DOMAIN toServer
        /\ \A i \in DOMAIN toServer' : /\ i \in Int /\ i + 1 \in DOMAIN toServer /\ i + 1 # 1
                                        /\ toServer'[i] = toServer[i + 1]
    BY Tailed DEF TypeOK
  <1> QED BY <1>1 DEF OneCall, NoCall, NoAnswer

(* What answers a report may contain.                                       *)
OneAnswer(es) ==
    /\ \A i, j \in DOMAIN es : es[i].kind \in Answers /\ es[j].kind \in Answers => i = j
    /\ \A i \in DOMAIN es :
          /\ es[i].kind = "state" => session \in {"fetching", "dropped"}
          /\ es[i].kind = "stopped" => session \in {"stopping", "dropped"}
          /\ es[i].kind = "started" => session = "starting"

(* The answer is given.                                                     *)
LEMMA AnswerGiven ==
    ASSUME TypeOK, NoCall', NoAnswer, server' # "starting", NEW es, Reports(es), OneAnswer(es)
    PROVE  OneCall'
  <1>0. UNCHANGED session /\ toBrowser \in Seq(Events) /\ es \in Seq(Events)
        /\ toBrowser' = toBrowser \o es
    BY DEF Reports, TypeOK
  <1>2. \A i \in DOMAIN toBrowser' : toBrowser'[i].kind \in Answers =>
           /\ i \in Int /\ i - Len(toBrowser) \in DOMAIN es
           /\ toBrowser'[i] = es[i - Len(toBrowser)]
    <2>1. \A i \in DOMAIN toBrowser' : i \in DOMAIN toBrowser => toBrowser'[i] = toBrowser[i]
      BY <1>0, Added
    <2>2. \A i \in DOMAIN toBrowser' : i \notin DOMAIN toBrowser =>
             i - Len(toBrowser) \in DOMAIN es /\ toBrowser'[i] = es[i - Len(toBrowser)]
      BY <1>0, Added
    <2>3. \A i \in DOMAIN toBrowser' : i \in Int
      BY <1>0
    <2> QED BY <2>1, <2>2, <2>3 DEF NoAnswer
  <1>3. ASSUME NEW i \in DOMAIN toBrowser', NEW j \in DOMAIN toBrowser',
               toBrowser'[i].kind \in Answers, toBrowser'[j].kind \in Answers
        PROVE  i = j
    <2>1. i - Len(toBrowser) = j - Len(toBrowser)
      BY <1>2, <1>3 DEF OneAnswer
    <2> QED BY <2>1, <1>0, <1>2, <1>3
  <1>4. ASSUME NEW i \in DOMAIN toBrowser'
        PROVE  /\ toBrowser'[i].kind = "state" => session \in {"fetching", "dropped"}
               /\ toBrowser'[i].kind = "stopped" => session \in {"stopping", "dropped"}
               /\ toBrowser'[i].kind = "started" => session = "starting"
    BY <1>2 DEF OneAnswer, Answers
  <1> QED BY <1>0, <1>3, <1>4 DEF OneCall, NoCall, Calls

(* What the farewell of a server may contain.                               *)
LEMMA FarewellAnswers ==
    ASSUME NEW es \in {<<>>, <<Event("stopped")>>},
           server = "starting" => es = <<>> /\ session = "starting",
           es # <<>> => session \in {"stopping", "dropped"}
    PROVE  OneAnswer(Farewell(es)) /\ OneAnswer(es)
           /\ (server # "starting" /\ es = <<>> =>
                 \A i \in DOMAIN Farewell(es) : Farewell(es)[i].kind \notin Answers)
  <1> DEFINE d == Event("down")  s == Event("started")  t == Event("stopped")
  <1>1. /\ d.kind = "down" /\ s.kind = "started" /\ t.kind = "stopped"
        /\ d \in Events /\ t \in Events
    BY BuiltEvents
  <1> HIDE DEF d, s, t
  <1>2. CASE es = <<>>
    <2>1. CASE server = "starting"
      <3>1. Farewell(es) = <<d, s>>
        BY <1>2, <2>1 DEF Farewell, d, s
      <3> QED BY <1>1, <1>2, <2>1, <3>1 DEF OneAnswer, Answers
    <2>2. CASE server # "starting"
      <3>1. Farewell(es) = <<d>>
        BY <1>2, <2>2 DEF Farewell, d
      <3> QED BY <1>1, <1>2, <2>2, <3>1 DEF OneAnswer, Answers
    <2> QED BY <2>1, <2>2
  <1>3. CASE es = <<t>>
    <2>1. server # "starting" /\ session \in {"stopping", "dropped"}
      BY <1>3
    <2>2. Farewell(es) = <<d, t>>
      <3>1. Farewell(es) = <<d>> \o <<t>>
        BY <1>3, <2>1 DEF Farewell, d
      <3> QED BY <3>1, <1>1, Pair
    <2>3. OneAnswer(<<d, t>>)
      BY <1>1, <2>1 DEF OneAnswer, Answers
    <2>4. OneAnswer(<<t>>)
      BY <1>1, <2>1 DEF OneAnswer, Answers
    <2>5. es # <<>>
      BY <1>3
    <2> QED BY <1>3, <2>2, <2>3, <2>4, <2>5
  <1> QED BY <1>2, <1>3 DEF t

(* Delivering a message moves the token on, or leaves it.                   *)
LEMMA DeliverOneCall ==
    ASSUME TypeInv, OneCall, Deliver
    PROVE  OneCall'
  <1> DEFINE m == Head(toServer)
  <1>t. TypeOK
    BY DEF TypeInv
  <1>1. /\ toServer # <<>> /\ toServer' = Tail(toServer) /\ UNCHANGED Browser /\ m \in Messages
        /\ DeliverStep(m)
    BY DeliverForm
  <1>2. m.kind \in Calls =>
           /\ NoCall' /\ NoAnswer /\ server # "starting"
           /\ m.kind = "fetch" => session \in {"fetching", "dropped"}
           /\ m.kind = "stop" => session \in {"stopping", "dropped"}
           /\ m.kind = "start" => session = "starting"
    BY <1>t, <1>1, CallTaken
  <1>3. CASE UNCHANGED <<toBrowser, server>>
    <2>1. Reports(<<>>)
      BY <1>t, <1>1, <1>3, ReportsNothing DEF Browser
    <2> QED BY <1>t, <1>1, <1>3, <2>1, OtherDelivered
  <1>4. ASSUME NEW n \in 0..Torn, Reports(<<[kind |-> "edits", text |-> n]>>), UNCHANGED server
        PROVE  OneCall'
    <2> DEFINE e == [kind |-> "edits", text |-> n]
    <2>1. e.kind = "edits" /\ Reports(<<e>>)
      BY <1>4
    <2> HIDE DEF e
    <2>2. \A i \in DOMAIN <<e>> : <<e>>[i].kind \notin Answers
      BY <2>1 DEF Answers
    <2> QED BY <1>t, <1>1, <1>4, <2>1, <2>2, OtherDelivered
  <1>5. ASSUME m.kind = "fetch", Reports(<<[kind |-> "state", running |-> server # "down"]>>),
               UNCHANGED server
        PROVE  OneCall'
    <2> DEFINE e == [kind |-> "state", running |-> server # "down"]
    <2>1. e.kind = "state" /\ Reports(<<e>>)
      BY <1>5
    <2> HIDE DEF e
    <2>2. /\ NoCall' /\ NoAnswer /\ server' # "starting" /\ session \in {"fetching", "dropped"}
      BY <1>2, <1>5 DEF Calls
    <2>3. OneAnswer(<<e>>)
      BY <2>1, <2>2 DEF OneAnswer, Answers
    <2> QED BY <1>t, <2>1, <2>2, <2>3, AnswerGiven
  <1>6. ASSUME m.kind = "start",
               \/ server # "down" /\ UNCHANGED server /\ Reports(<<Event("started")>>)
               \/ server = "down" /\ server' = "starting" /\ Reports(<<Event("down")>>)
               \/ server = "down" /\ UNCHANGED server /\ Reports(<<Event("down"), Event("started")>>)
        PROVE  OneCall'
    <2> DEFINE d == Event("down")  s == Event("started")
    <2>1. d.kind = "down" /\ s.kind = "started"
      BY BuiltEvents
    <2>2. /\ NoCall' /\ NoAnswer /\ server # "starting" /\ session = "starting"
      BY <1>2, <1>6 DEF Calls
    <2>3. \/ server # "down" /\ UNCHANGED server /\ Reports(<<s>>)
          \/ server = "down" /\ server' = "starting" /\ Reports(<<d>>)
          \/ server = "down" /\ UNCHANGED server /\ Reports(<<d, s>>)
      BY <1>6
    <2> HIDE DEF d, s
    <2>4. OneAnswer(<<s>>) /\ OneAnswer(<<d, s>>)
      BY <2>1, <2>2 DEF OneAnswer, Answers
    <2>5. CASE UNCHANGED server
      BY <1>t, <2>2, <2>3, <2>4, <2>5, AnswerGiven
    <2>6. CASE server' = "starting" /\ Reports(<<d>>)
      <3>1. UNCHANGED session /\ NoAnswer'
        <4>1. \A i \in DOMAIN toBrowser' : i \notin DOMAIN toBrowser => toBrowser'[i] = d
          BY <2>6, Added DEF TypeInv, TypeOK, Reports
        <4>2. \A i \in DOMAIN toBrowser' : i \in DOMAIN toBrowser => toBrowser'[i] = toBrowser[i]
          BY <2>6, Added DEF TypeInv, TypeOK, Reports
        <4> QED BY <2>1, <2>2, <2>6, <4>1, <4>2 DEF NoAnswer, Answers, Reports
      <3> QED BY <2>2, <2>6, <3>1 DEF OneCall, NoCall, NoAnswer, Calls, Answers
    <2> QED BY <2>3, <2>5, <2>6
  <1>7. ASSUME NEW es \in {<<Event("stopped")>>, <<>>}, m.kind = "quit" <=> es = <<>>,
               m.kind \in {"stop", "quit"},
               \/ server # "ready" /\ UNCHANGED server /\ Reports(es)
               \/ server # "down" /\ server' = "down" /\ Reports(Farewell(es))
        PROVE  OneCall'
    <2>1. CASE m.kind = "stop"
      <3>1. /\ NoCall' /\ NoAnswer /\ server # "starting" /\ server' # "starting"
            /\ session \in {"stopping", "dropped"}
        BY <1>2, <1>7, <2>1 DEF Calls
      <3>2. OneAnswer(Farewell(es)) /\ OneAnswer(es)
        BY <3>1, FarewellAnswers
      <3> QED BY <1>t, <1>7, <3>1, <3>2, AnswerGiven
    <2>2. CASE m.kind = "quit"
      <3>0. es = <<>>
        BY <1>7, <2>2
      <3>1. CASE server # "starting" \/ (Reports(es) /\ UNCHANGED server)
        <4>1. \A i \in DOMAIN Farewell(es) : server # "starting" => Farewell(es)[i].kind \notin Answers
          BY <3>0, FarewellAnswers
        <4>2. \A i \in DOMAIN es : es[i].kind \notin Answers
          BY <3>0
        <4>3. \E r : Reports(r) /\ (\A i \in DOMAIN r : r[i].kind \notin Answers)
                     /\ (server' # "starting" \/ UNCHANGED server)
          BY <1>7, <3>0, <3>1, <4>1, <4>2
        <4> QED BY <1>t, <1>1, <4>3, OtherDelivered
      <3>2. CASE server = "starting" /\ server' = "down" /\ Reports(Farewell(es))
        <4>1. NoCall /\ NoAnswer /\ session = "starting"
          BY <3>2 DEF OneCall, NoCall, NoAnswer
        <4>2. NoCall'
          <5>1. \A i \in DOMAIN toServer' : i + 1 \in DOMAIN toServer /\ toServer'[i] = toServer[i + 1]
            BY <1>t, <1>1, Tailed DEF TypeOK
          <5> QED BY <4>1, <5>1 DEF NoCall
        <4>3. OneAnswer(Farewell(es))
          BY <3>0, <4>1, FarewellAnswers
        <4>4. server' # "starting"
          BY <3>2
        <4> QED BY <1>t, <3>2, <4>1, <4>2, <4>3, <4>4, AnswerGiven
      <3> QED BY <1>7, <3>0, <3>1, <3>2
    <2> QED BY <1>7, <2>1, <2>2
  <1>8. \/ UNCHANGED <<toBrowser, server>>
        \/ \E n \in 0..Torn : Reports(<<[kind |-> "edits", text |-> n]>>) /\ UNCHANGED server
        \/ /\ m.kind = "fetch" /\ Reports(<<[kind |-> "state", running |-> server # "down"]>>)
           /\ UNCHANGED server
        \/ /\ m.kind = "start"
           /\ \/ server # "down" /\ UNCHANGED server /\ Reports(<<Event("started")>>)
              \/ server = "down" /\ server' = "starting" /\ Reports(<<Event("down")>>)
              \/ server = "down" /\ UNCHANGED server /\ Reports(<<Event("down"), Event("started")>>)
        \/ /\ m.kind \in {"stop", "quit"}
           /\ \E es \in {<<Event("stopped")>>, <<>>} :
                 /\ m.kind = "quit" <=> es = <<>>
                 /\ \/ server # "ready" /\ UNCHANGED server /\ Reports(es)
                    \/ server # "down" /\ server' = "down" /\ Reports(Farewell(es))
    BY <1>1 DEF DeliverStep, NotifyStep, backend
  <1> QED BY <1>3, <1>4, <1>5, <1>6, <1>7, <1>8

(* The process answers the start it was busy with, whatever becomes of it.  *)
LEMMA ProcessOneCall ==
    ASSUME TypeInv, OneCall, ServerReady \/ ServerCrash
    PROVE  OneCall'
  <1>t. TypeOK
    BY DEF TypeInv
  <1>1. UNCHANGED toServer /\ UNCHANGED session
    BY ProcessKeeps DEF Browser
  <1>2. CASE ServerReady
    <2> DEFINE r == Event("ready")  s == Event("started")
    <2>1. /\ Reports(<<r, r, s>>) /\ r.kind = "ready" /\ s.kind = "started"
          /\ server = "starting" /\ server' = "ready"
      BY <1>t, <1>2, ReadyForm, BuiltEvents
    <2> HIDE DEF r, s
    <2>2. NoCall' /\ NoAnswer /\ session = "starting"
      BY <1>1, <2>1 DEF OneCall, NoCall, NoAnswer
    <2>3. OneAnswer(<<r, r, s>>)
      BY <2>1, <2>2 DEF OneAnswer, Answers
    <2>4. server' # "starting"
      BY <2>1
    <2> QED BY <1>t, <2>1, <2>2, <2>3, <2>4, AnswerGiven
  <1>3. CASE ServerCrash
    <2>1. server # "down" /\ server' = "down" /\ server' # "starting" /\ Reports(Farewell(<<>>))
      BY <1>t, <1>3, CrashForm
    <2>2. CASE server = "starting"
      <3>1. NoCall' /\ NoAnswer /\ session = "starting"
        BY <1>1, <2>2 DEF OneCall, NoCall, NoAnswer
      <3>2. OneAnswer(Farewell(<<>>))
        BY <3>1, FarewellAnswers
      <3> QED BY <1>t, <2>1, <3>1, <3>2, AnswerGiven
    <2>3. CASE server # "starting"
      <3>1. \A i \in DOMAIN Farewell(<<>>) : Farewell(<<>>)[i].kind \notin Answers
        BY <2>3, FarewellAnswers
      <3>2. \A i \in DOMAIN toBrowser' : toBrowser'[i].kind \in Answers =>
               i \in DOMAIN toBrowser /\ toBrowser'[i] = toBrowser[i]
        BY <1>t, <2>1, <3>1, Added DEF TypeOK, Reports
      <3> QED BY <1>1, <2>1, <3>2 DEF OneCall, Answers
    <2> QED BY <2>2, <2>3
  <1> QED BY <1>2, <1>3

(* Every step keeps the token single.                                       *)
LEMMA OneCallStep ==
    ASSUME TypeInv, OneCall, [Next]_vars
    PROVE  OneCall'
  <1>t. TypeOK
    BY DEF TypeInv
  <1>1. ASSUME NEW d \in Docs, DocAction(d) PROVE OneCall'
    <2>1. DocStep
      BY <1>1, DocActionKeeps
    <2>2. PICK ms : Speaks(ms) /\ \A i \in DOMAIN ms : ms[i].kind \in Notifications
      BY <2>1 DEF DocStep
    <2>3. \A i \in DOMAIN ms : ms[i].kind \notin Calls
      BY <2>2 DEF Notifications, Calls
    <2> QED BY <1>t, <2>1, <2>2, <2>3, CallStays DEF DocStep, backend
  <1>2. CASE SendAsk
    <2>1. AskStep
      BY <1>2, SendAskKeeps
    <2>2. \E ms : Speaks(ms) /\ \A i \in DOMAIN ms : ms[i].kind \notin Calls
      <3>1. UNCHANGED toServer => Speaks(<<>>)
        BY <1>t, Silent
      <3>2. ask.kind \in RequestKinds
        BY <1>t, <2>1, AskKinds DEF AskStep
      <3>3. ASSUME NEW m \in Messages, Speaks(<<m>>), m.kind = ask.kind
            PROVE  \E ms : Speaks(ms) /\ \A i \in DOMAIN ms : ms[i].kind \notin Calls
        <4>1. \A i \in DOMAIN <<m>> : <<m>>[i].kind \notin Calls
          BY <3>2, <3>3 DEF Calls
        <4> QED BY <3>3, <4>1
      <3>4. CASE UNCHANGED toServer
        <4>1. \A i \in DOMAIN <<>> : <<>>[i].kind \notin Calls
          OBVIOUS
        <4> QED BY <3>1, <3>4, <4>1
      <3>5. CASE ~UNCHANGED toServer
        <4>1. PICK m \in Messages : Speaks(<<m>>) /\ m.kind = ask.kind
          BY <2>1, <3>5 DEF AskStep
        <4> QED BY <3>3, <4>1
      <3> QED BY <3>4, <3>5
    <2> QED BY <1>t, <2>1, <2>2, CallStays DEF AskStep, backend
  <1>3. CASE Activate
    <2>1. session = "idle" /\ session' = "fetching" /\ Send(<<Event("fetch")>>)
          /\ UNCHANGED <<toBrowser, server>>
      BY <1>3 DEF Activate, backend
    <2>2. Speaks(<<Event("fetch")>>) /\ Event("fetch").kind = "fetch"
      BY <1>t, <2>1, CallSpeaks
    <2>3. Event("fetch") \in Messages
      BY DEF Event, Messages
    <2>4. NoCall /\ NoAnswer' /\ server' # "starting"
      BY <2>1 DEF OneCall, NoCall, NoAnswer, Calls, Answers
    <2> QED BY <1>t, <2>1, <2>2, <2>3, <2>4, CallMade
  <1>4. CASE Deactivate
    <2>1. /\ UNCHANGED session \/ (session \in {"fetching", "stopping"} /\ session' = "dropped")
          /\ UNCHANGED <<toBrowser, server>> /\ Send(<<Event("quit")>>)
      BY <1>4 DEF Deactivate, backend
    <2>2. Speaks(<<Event("quit")>>) /\ Event("quit").kind = "quit"
      BY <1>t, <2>1, CallSpeaks
    <2>3. \A i \in DOMAIN <<Event("quit")>> : <<Event("quit")>>[i].kind \notin Calls
      BY <2>2 DEF Calls
    <2> QED BY <1>t, <2>1, <2>2, <2>3, CallStays
  <1>5. CASE Receive
    <2> DEFINE e == Head(toBrowser)
    <2>1. /\ toBrowser # <<>> /\ toBrowser' = Tail(toBrowser) /\ UNCHANGED backend
          /\ ReceiveStep(e)
      BY <1>5, ReceiveForm
    <2>2. CASE e.kind \in Answers /\ Answer(e)
      BY <2>1, <2>2, AnswerOneCall
    <2>3. CASE e.kind \in {"ready", "down"} /\ StateStep(e.kind)
      <3>1. \E ms : Speaks(ms) /\ \A i \in DOMAIN ms : ms[i].kind \notin Calls
        <4>1. UNCHANGED toServer => Speaks(<<>>)
          BY <1>t, Silent
        <4>2. \A o \in Orders(Unsent) : \A i \in DOMAIN Openings(o) : Openings(o)[i].kind \notin Calls
          BY OpeningsForm DEF TypeInv, Calls
        <4> QED BY <2>3, <4>1, <4>2 DEF StateStep
      <3>2. UNCHANGED <<session, server>>
        BY <2>1, <2>3 DEF StateStep, backend
      <3> QED BY <1>t, <2>1, <3>1, <3>2, CallStays
    <2>4. CASE /\ UNCHANGED session
               /\ \E ms : Speaks(ms) /\ \A i \in DOMAIN ms : ms[i].kind \in Notifications
      <3>1. \E ms : Speaks(ms) /\ \A i \in DOMAIN ms : ms[i].kind \notin Calls
        BY <2>4 DEF Notifications, Calls
      <3>2. UNCHANGED server
        BY <2>1 DEF backend
      <3> QED BY <1>t, <2>1, <2>4, <3>1, <3>2, CallStays
    <2> QED BY <2>1, <2>2, <2>3, <2>4 DEF ReceiveStep
  <1>6. CASE UNCHANGED vars
    BY <1>6 DEF vars, OneCall
  <1> QED BY <1>1, <1>2, <1>3, <1>4, <1>5, <1>6, DeliverOneCall, ProcessOneCall DEF Next, DocAction

-----------------------------------------------------------------------------
(* What the browser believes of the server.                                 *)

(* Messages said by a browser that believes the same as before.             *)
LEMMA BeliefSpoken ==
    ASSUME TypeOK, StartingBelief, StartBelief, NEW ms, Speaks(ms),
           \A i \in DOMAIN ms : ms[i].kind # "start",
           UNCHANGED server, Ready' => Ready, NoReadyAhead => NoReadyAhead'
    PROVE  StartingBelief' /\ StartBelief'
  <1>1. /\ toServer \in Seq(Messages) /\ ms \in Seq(Messages) /\ toServer' = toServer \o ms
        /\ \A i \in DOMAIN toServer : i \in Int
        /\ \A i \in DOMAIN toServer' : i \in Int
        /\ \A i \in DOMAIN toServer' : i \in DOMAIN toServer => toServer'[i] = toServer[i]
        /\ \A i \in DOMAIN toServer' : i \notin DOMAIN toServer =>
              i - Len(toServer) \in DOMAIN ms /\ toServer'[i] = ms[i - Len(toServer)]
    BY Added DEF TypeOK, Speaks
  <1>2. ASSUME NEW i \in DOMAIN toServer', ~Ready, toServer'[i].kind \in AboutDoc
        PROVE  i \in DOMAIN toServer /\ toServer'[i] = toServer[i]
    BY <1>1, <1>2 DEF Speaks
  <1>3. ASSUME NEW i \in DOMAIN toServer', toServer'[i].kind = "start"
        PROVE  i \in DOMAIN toServer /\ toServer'[i] = toServer[i]
    BY <1>1, <1>3
  <1>4. StartingBelief'
    BY <1>2 DEF StartingBelief
  <1>5. StartBelief'
    BY <1>2, <1>3 DEF StartBelief
  <1> QED BY <1>4, <1>5

(* An event is taken that says nothing of the server's state.               *)
LEMMA BeliefTaken ==
    ASSUME TypeOK, Belief, toBrowser # <<>>, toBrowser' = Tail(toBrowser),
           Head(toBrowser).kind \notin {"ready", "down"}, UNCHANGED <<known, server>>
    PROVE  DownSaid' /\ UpBelief' /\ DownBelief' /\ (NoReadyAhead => NoReadyAhead')
  <1>1. /\ Head(toBrowser) = toBrowser[1] /\ 1 \in DOMAIN toBrowser
        /\ toBrowser \in Seq(Events)
        /\ \A i \in DOMAIN toBrowser : i \in Int
        /\ \A i \in DOMAIN toBrowser' : /\ i \in Int /\ i + 1 \in DOMAIN toBrowser /\ i + 1 # 1
                                        /\ toBrowser'[i] = toBrowser[i + 1]
        /\ \A i \in DOMAIN toBrowser : i # 1 => i - 1 \in DOMAIN toBrowser' /\ toBrowser'[i - 1] = toBrowser[i]
    BY Tailed DEF TypeOK
  <1>2. Ready' = Ready
    BY DEF Ready
  <1>3. ASSUME NEW i \in DOMAIN toBrowser', SaysDown(toBrowser'[i])
        PROVE  /\ server' = "down"
               /\ \A j \in DOMAIN toBrowser' : i < j => toBrowser'[j].kind \notin {"ready", "down"}
    <2>1. SaysDown(toBrowser[i + 1]) /\ i + 1 \in DOMAIN toBrowser
      BY <1>1, <1>3
    <2>2. ASSUME NEW j \in DOMAIN toBrowser', i < j PROVE toBrowser'[j].kind \notin {"ready", "down"}
      <3>1. j + 1 \in DOMAIN toBrowser /\ i + 1 < j + 1 /\ toBrowser'[j] = toBrowser[j + 1]
        BY <1>1, <2>2
      <3> QED BY <2>1, <3>1 DEF Belief, DownSaid
    <2> QED BY <2>1, <2>2 DEF Belief, DownSaid
  <1>4. UpBelief'
    <2>1. ASSUME server' = "ready", Ready', NEW i \in DOMAIN toBrowser'
          PROVE  toBrowser'[i].kind # "down"
      BY <1>1, <1>2, <2>1 DEF Belief, UpBelief
    <2>2. ASSUME server' = "ready", NEW i \in DOMAIN toBrowser', NEW j \in DOMAIN toBrowser', i < j
          PROVE  ~(toBrowser'[i].kind = "ready" /\ toBrowser'[j].kind = "down")
      <3>1. /\ i + 1 \in DOMAIN toBrowser /\ j + 1 \in DOMAIN toBrowser /\ i + 1 < j + 1
            /\ toBrowser'[j] = toBrowser[j + 1] /\ toBrowser'[i] = toBrowser[i + 1]
        BY <1>1, <2>2
      <3> QED BY <3>1, <2>2 DEF Belief, UpBelief
    <2> QED BY <2>1, <2>2 DEF UpBelief
  <1>5. NoReadyAhead => NoReadyAhead'
    BY <1>1 DEF NoReadyAhead
  <1>6. DownBelief'
    <2>1. ASSUME NEW i \in DOMAIN toBrowser, toBrowser[i].kind = "down",
                 \A j \in DOMAIN toBrowser : i < j => toBrowser[j].kind # "ready"
          PROVE  /\ i - 1 \in DOMAIN toBrowser' /\ toBrowser'[i - 1].kind = "down"
                 /\ \A j \in DOMAIN toBrowser' : i - 1 < j => toBrowser'[j].kind # "ready"
      <3>1. i # 1
        BY <1>1, <2>1
      <3>2. ASSUME NEW j \in DOMAIN toBrowser', i - 1 < j PROVE toBrowser'[j].kind # "ready"
        <4>1. j + 1 \in DOMAIN toBrowser /\ i < j + 1 /\ toBrowser'[j] = toBrowser[j + 1]
          BY <1>1, <3>2
        <4> QED BY <4>1, <2>1
      <3> QED BY <1>1, <2>1, <3>1, <3>2
    <2>2. CASE server = "ready"
      BY <2>2 DEF DownBelief
    <2>3. CASE ~Ready /\ NoReadyAhead
      BY <1>2, <1>5, <2>3 DEF DownBelief
    <2>4. CASE \E i \in DOMAIN toBrowser :
                  /\ toBrowser[i].kind = "down"
                  /\ \A j \in DOMAIN toBrowser : i < j => toBrowser[j].kind # "ready"
      BY <2>1, <2>4 DEF DownBelief
    <2> QED BY <2>2, <2>3, <2>4 DEF Belief, DownBelief
  <1> QED BY <1>3, <1>4, <1>5, <1>6 DEF DownSaid

(* The items of the queue to the browser when its first one is taken.       *)
Shifted ==
    /\ Head(toBrowser) = toBrowser[1] /\ 1 \in DOMAIN toBrowser
    /\ \A i \in DOMAIN toBrowser : i \in Int /\ 1 <= i
    /\ \A i \in DOMAIN toBrowser' : /\ i \in Int /\ 1 <= i /\ i + 1 \in DOMAIN toBrowser
                                    /\ toBrowser'[i] = toBrowser[i + 1]
    /\ \A i \in DOMAIN toBrowser : i # 1 => i - 1 \in DOMAIN toBrowser' /\ toBrowser'[i - 1] = toBrowser[i]

(* Taking the first event.                                                  *)
LEMMA Shifts ==
    ASSUME TypeOK, toBrowser # <<>>, toBrowser' = Tail(toBrowser)
    PROVE  Shifted
  BY Tailed DEF TypeOK, Shifted

(* What was said of a server that is down stays the last word.              *)
LEMMA DownSaidShifts ==
    ASSUME Shifted, DownSaid, UNCHANGED server
    PROVE  DownSaid'
  <1>1. ASSUME NEW i \in DOMAIN toBrowser', SaysDown(toBrowser'[i])
        PROVE  /\ server' = "down"
               /\ \A j \in DOMAIN toBrowser' : i < j => toBrowser'[j].kind \notin {"ready", "down"}
    <2>1. SaysDown(toBrowser[i + 1]) /\ i + 1 \in DOMAIN toBrowser
      BY <1>1 DEF Shifted
    <2>2. ASSUME NEW j \in DOMAIN toBrowser', i < j PROVE toBrowser'[j].kind \notin {"ready", "down"}
      <3>1. j + 1 \in DOMAIN toBrowser /\ i + 1 < j + 1 /\ toBrowser'[j] = toBrowser[j + 1]
        BY <2>2 DEF Shifted
      <3> QED BY <2>1, <3>1 DEF DownSaid
    <2> QED BY <2>1, <2>2 DEF DownSaid
  <1> QED BY <1>1 DEF DownSaid

(* The server is heard of as ready: it is, or its end is already on the way. *)
LEMMA ReadyHeard ==
    ASSUME TypeInv, Belief, toBrowser # <<>>, toBrowser' = Tail(toBrowser),
           Head(toBrowser).kind = "ready", StateStep("ready"), UNCHANGED server
    PROVE  Belief'
  <1>0. Shifted
    BY Shifts DEF TypeInv
  <1>1. ~NoReadyAhead /\ server # "starting" /\ \A i \in DOMAIN toServer : toServer[i].kind # "start"
    BY <1>0 DEF Shifted, NoReadyAhead, Belief, StartingBelief, StartBelief
  <1>2. PICK o \in Orders(Unsent) : Speaks(Openings(o))
    BY DEF StateStep
  <1>3. \A i \in DOMAIN toServer' : toServer'[i].kind # "start"
    <2>1. \A i \in DOMAIN Openings(o) : Openings(o)[i].kind # "start"
      BY OpeningsForm DEF TypeInv
    <2> QED BY <1>1, <1>2, <2>1, Added DEF TypeInv, TypeOK, Speaks
  <1>4. DownSaid'
    BY <1>0, DownSaidShifts DEF Belief
  <1>5. UpBelief'
    <2>1. ASSUME server = "ready", NEW i \in DOMAIN toBrowser'
          PROVE  toBrowser'[i].kind # "down"
      <3>1. i + 1 \in DOMAIN toBrowser /\ 1 < i + 1 /\ toBrowser'[i] = toBrowser[i + 1]
        BY <1>0 DEF Shifted
      <3> QED BY <1>0, <2>1, <3>1 DEF Shifted, Belief, UpBelief
    <2> QED BY <2>1 DEF UpBelief
  <1>6. DownBelief'
    <2>1. ASSUME server # "ready"
          PROVE  \E i \in DOMAIN toBrowser' :
                    /\ toBrowser'[i].kind = "down"
                    /\ \A j \in DOMAIN toBrowser' : i < j => toBrowser'[j].kind # "ready"
      <3>1. PICK i \in DOMAIN toBrowser :
               /\ toBrowser[i].kind = "down"
               /\ \A j \in DOMAIN toBrowser : i < j => toBrowser[j].kind # "ready"
        BY <1>1, <2>1 DEF Belief, DownBelief
      <3>2. i # 1 /\ i - 1 \in DOMAIN toBrowser' /\ toBrowser'[i - 1].kind = "down"
        BY <1>0, <3>1 DEF Shifted
      <3>3. ASSUME NEW j \in DOMAIN toBrowser', i - 1 < j PROVE toBrowser'[j].kind # "ready"
        <4>1. j + 1 \in DOMAIN toBrowser /\ i < j + 1 /\ toBrowser'[j] = toBrowser[j + 1]
          BY <1>0, <3>3 DEF Shifted
        <4> QED BY <4>1, <3>1
      <3> QED BY <3>2, <3>3
    <2> QED BY <2>1 DEF DownBelief
  <1> QED BY <1>1, <1>3, <1>4, <1>5, <1>6 DEF Belief, StartingBelief, StartBelief

(* The server is heard of as down.                                          *)
LEMMA DownHeard ==
    ASSUME TypeInv, Belief, toBrowser # <<>>, toBrowser' = Tail(toBrowser),
           Head(toBrowser).kind = "down", StateStep("down"), UNCHANGED server
    PROVE  Belief'
  <1>0. Shifted
    BY Shifts DEF TypeInv
  <1>1. ~Ready' /\ UNCHANGED toServer /\ (NoReadyAhead => NoReadyAhead')
    BY <1>0 DEF StateStep, Ready, NoReadyAhead, Shifted
  <1>2. StartingBelief' /\ StartBelief'
    BY <1>1 DEF Belief, StartingBelief, StartBelief
  <1>3. DownSaid'
    BY <1>0, DownSaidShifts DEF Belief
  <1>4. UpBelief'
    <2>2. ASSUME server' = "ready", NEW i \in DOMAIN toBrowser', NEW j \in DOMAIN toBrowser', i < j
          PROVE  ~(toBrowser'[i].kind = "ready" /\ toBrowser'[j].kind = "down")
      <3>1. /\ i + 1 \in DOMAIN toBrowser /\ j + 1 \in DOMAIN toBrowser /\ i + 1 < j + 1
            /\ toBrowser'[j] = toBrowser[j + 1] /\ toBrowser'[i] = toBrowser[i + 1]
        BY <1>0, <2>2 DEF Shifted
      <3> QED BY <3>1, <2>2 DEF Belief, UpBelief
    <2> QED BY <1>1, <2>2 DEF UpBelief
  <1>5. DownBelief'
    <2>1. ASSUME NEW i \in DOMAIN toBrowser, toBrowser[i].kind = "down",
                 \A j \in DOMAIN toBrowser : i < j => toBrowser[j].kind # "ready"
          PROVE  DownBelief'
      <3>2. ASSUME NEW j \in DOMAIN toBrowser', i - 1 < j PROVE toBrowser'[j].kind # "ready"
        <4>1. j + 1 \in DOMAIN toBrowser /\ i < j + 1 /\ toBrowser'[j] = toBrowser[j + 1]
          BY <1>0, <3>2 DEF Shifted
        <4> QED BY <4>1, <2>1
      <3>3. CASE i = 1
        <4>1. NoReadyAhead'
          BY <1>0, <3>2, <3>3 DEF NoReadyAhead, Shifted
        <4> QED BY <1>1, <4>1 DEF DownBelief
      <3>4. CASE i # 1
        <4>1. i - 1 \in DOMAIN toBrowser' /\ toBrowser'[i - 1].kind = "down"
          BY <1>0, <2>1, <3>4 DEF Shifted
        <4> QED BY <3>2, <4>1 DEF DownBelief
      <3> QED BY <3>3, <3>4
    <2>2. CASE server = "ready"
      BY <2>2 DEF DownBelief
    <2>3. CASE NoReadyAhead
      BY <1>1, <2>3 DEF DownBelief
    <2> QED BY <2>1, <2>2, <2>3 DEF Belief, DownBelief
  <1> QED BY <1>2, <1>3, <1>4, <1>5 DEF Belief

(* The start is sent on word that the server is down.                       *)
LEMMA StartSent ==
    ASSUME TypeInv, Belief, NoCall, toBrowser # <<>>, toBrowser' = Tail(toBrowser),
           SaysDown(Head(toBrowser)), UNCHANGED <<known, server>>,
           NEW m \in Messages, m.kind = "start", Speaks(<<m>>)
    PROVE  StartingBelief' /\ StartBelief'
  <1>0. Shifted
    BY Shifts DEF TypeInv
  <1>1. /\ server = "down"
        /\ \A j \in DOMAIN toBrowser : j # 1 => toBrowser[j].kind \notin {"ready", "down"}
    BY <1>0 DEF Belief, DownSaid, Shifted
  <1>2. ~Ready
    <2>1. toBrowser[1].kind \notin {"ready", "down"}
      BY <1>0 DEF SaysDown, Shifted
    <2> QED BY <1>0, <1>1, <2>1 DEF Belief, DownBelief
  <1>3. ~Ready' /\ NoReadyAhead'
    BY <1>0, <1>1, <1>2 DEF Ready, NoReadyAhead, Shifted
  <1>4. \A i \in DOMAIN toServer' : /\ i \in Int /\ i <= Len(toServer) + 1
                                    /\ toServer'[i].kind = "start" => i = Len(toServer) + 1
    <2>1. toServer \in Seq(Messages) /\ toServer' = toServer \o <<m>>
      BY DEF TypeInv, TypeOK, Speaks
    <2>2. \A i \in DOMAIN toServer : toServer'[i] = toServer[i] /\ toServer[i].kind # "start"
      BY <2>1, Added DEF NoCall, Calls
    <2>3. \A i \in DOMAIN toServer' : i \in 1..Len(toServer) + 1
      BY <2>1
    <2>4. \A i \in DOMAIN toServer' : i # Len(toServer) + 1 => i \in DOMAIN toServer
      BY <2>1, <2>3
    <2> QED BY <2>1, <2>2, <2>3, <2>4
  <1>5. StartBelief'
    <2>1. ASSUME NEW i \in DOMAIN toServer', toServer'[i].kind = "start",
                 NEW j \in DOMAIN toServer', i < j
          PROVE  FALSE
      <3>1. i = Len(toServer) + 1 /\ j <= Len(toServer) + 1 /\ j \in Int /\ i \in Int
        BY <1>4, <2>1
      <3> QED BY <2>1, <3>1
    <2> QED BY <1>1, <1>3, <2>1 DEF StartBelief
  <1> QED BY <1>1, <1>5 DEF StartingBelief

(* Whatever is received, the browser's beliefs stay in order.               *)
LEMMA ReceiveBelief ==
    ASSUME TypeInv, OneCall, Belief, Receive
    PROVE  Belief'
  <1> DEFINE e == Head(toBrowser)
  <1>t. TypeOK
    BY DEF TypeInv
  <1>1. /\ toBrowser # <<>> /\ toBrowser' = Tail(toBrowser) /\ UNCHANGED backend /\ e \in Events
        /\ ReceiveStep(e)
    BY ReceiveForm
  <1>2. UNCHANGED server
    BY <1>1 DEF backend
  <1>3. CASE e.kind = "ready"
    BY <1>1, <1>2, <1>3, ReadyHeard DEF ReceiveStep, Answers
  <1>4. CASE e.kind = "down"
    BY <1>1, <1>2, <1>4, DownHeard DEF ReceiveStep, Answers
  <1>5. CASE e.kind \notin {"ready", "down"}
    <2>1. UNCHANGED known
      BY <1>1, <1>5 DEF ReceiveStep
    <2>2. DownSaid' /\ UpBelief' /\ DownBelief' /\ (NoReadyAhead => NoReadyAhead')
      BY <1>t, <1>1, <1>2, <1>5, <2>1, BeliefTaken
    <2>3. StartingBelief' /\ StartBelief'
      <3>1. ASSUME NEW ms, Speaks(ms), \A i \in DOMAIN ms : ms[i].kind # "start"
            PROVE  StartingBelief' /\ StartBelief'
        <4>1. Ready' => Ready
          BY <2>1 DEF Ready
        <4> QED BY <1>t, <1>2, <2>2, <3>1, <4>1, BeliefSpoken DEF Belief
      <3>2. CASE e.kind = "edits"
        <4>1. PICK ms : Speaks(ms) /\ \A i \in DOMAIN ms : ms[i].kind \in Notifications
          BY <1>1, <3>2 DEF ReceiveStep, Answers
        <4>2. \A i \in DOMAIN ms : ms[i].kind # "start"
          BY <4>1 DEF Notifications
        <4> QED BY <3>1, <4>1, <4>2
      <3>3. CASE UNCHANGED toServer
        <4>1. Speaks(<<>>)
          BY <1>t, <3>3, Silent
        <4> QED BY <3>1, <4>1
      <3>4. CASE Send(<<Event("stop")>>)
        <4> DEFINE m == Event("stop")
        <4>1. Speaks(<<m>>) /\ m.kind = "stop"
          BY <1>t, <3>4, CallSpeaks
        <4> HIDE DEF m
        <4>2. \A i \in DOMAIN <<m>> : <<m>>[i].kind # "start"
          BY <4>1
        <4> QED BY <3>1, <4>1, <4>2
      <3>5. CASE Send(<<Event("start")>>) /\ SaysDown(e) /\ e.kind \in Answers
        <4> DEFINE m == Event("start")
        <4>1. Speaks(<<m>>) /\ m.kind = "start" /\ m \in Messages
          BY <1>t, <3>5, CallSpeaks DEF Event, Messages
        <4> HIDE DEF m
        <4>2. NoCall
          BY <1>t, <1>1, <3>5, AnswerTaken
        <4> QED BY <1>1, <1>2, <2>1, <3>5, <4>1, <4>2, StartSent
      <3>6. CASE e.kind \in Answers /\ Answer(e)
        <4>1. \/ UNCHANGED toServer
              \/ Send(<<Event("stop")>>)
              \/ Send(<<Event("start")>>) /\ SaysDown(e)
          BY <3>6 DEF Answer, Continue, SaysDown
        <4> QED BY <3>3, <3>4, <3>5, <3>6, <4>1
      <3> QED BY <1>1, <1>5, <3>2, <3>6 DEF ReceiveStep
    <2> QED BY <2>2, <2>3 DEF Belief
  <1> QED BY <1>3, <1>4, <1>5

(* The items of the queue to the browser when events are added.             *)
GrownBy(es) ==
    /\ Len(toBrowser) \in Nat
    /\ \A i \in DOMAIN toBrowser : /\ i \in Int /\ i <= Len(toBrowser)
                                   /\ i \in DOMAIN toBrowser' /\ toBrowser'[i] = toBrowser[i]
    /\ \A i \in DOMAIN toBrowser' : i \notin DOMAIN toBrowser =>
          i - Len(toBrowser) \in DOMAIN es /\ toBrowser'[i] = es[i - Len(toBrowser)]
    /\ \A i \in DOMAIN toBrowser' : i \in Int /\ (i \notin DOMAIN toBrowser => i > Len(toBrowser))
    /\ \A i \in DOMAIN es : Len(toBrowser) + i \in DOMAIN toBrowser'

(* Reporting adds events.                                                   *)
LEMMA Grows ==
    ASSUME TypeOK, NEW es, Reports(es)
    PROVE  GrownBy(es) /\ es \in Seq(Events) /\ Ready' = Ready
  <1>1. toBrowser \in Seq(Events) /\ es \in Seq(Events) /\ toBrowser' = toBrowser \o es
    BY DEF TypeOK, Reports
  <1>2. /\ \A i \in DOMAIN toBrowser : i \in DOMAIN toBrowser' /\ toBrowser'[i] = toBrowser[i]
        /\ \A i \in DOMAIN toBrowser' : i \notin DOMAIN toBrowser =>
              i - Len(toBrowser) \in DOMAIN es /\ toBrowser'[i] = es[i - Len(toBrowser)]
    BY <1>1, Added
  <1>3. /\ Len(toBrowser) \in Nat /\ DOMAIN toBrowser = 1..Len(toBrowser)
        /\ Len(es) \in Nat /\ DOMAIN es = 1..Len(es)
        /\ DOMAIN toBrowser' = 1..(Len(toBrowser) + Len(es))
    BY <1>1
  <1>4. Ready' = Ready
    BY DEF Reports, Ready
  <1> QED BY <1>1, <1>2, <1>3, <1>4 DEF GrownBy

(* The queue to the server loses its first message, or nothing.             *)
Drained ==
    \/ UNCHANGED toServer
    \/ toServer # <<>> /\ toServer' = Tail(toServer)

(* What the browser believed before its messages arrived still holds.       *)
LEMMA StartBeliefDrained ==
    ASSUME TypeOK, StartBelief, Drained, UNCHANGED server, Ready' => Ready,
           NoReadyAhead => NoReadyAhead'
    PROVE  StartBelief'
  <1>1. CASE UNCHANGED toServer
    BY <1>1 DEF StartBelief
  <1>2. CASE toServer # <<>> /\ toServer' = Tail(toServer)
    <2>1. \A i \in DOMAIN toServer' : i \in Int /\ i + 1 \in DOMAIN toServer
                                      /\ toServer'[i] = toServer[i + 1]
      BY <1>2, Tailed DEF TypeOK
    <2>2. ASSUME NEW i \in DOMAIN toServer', toServer'[i].kind = "start"
          PROVE  /\ server' = "down" /\ ~Ready' /\ NoReadyAhead'
                 /\ \A j \in DOMAIN toServer' : i < j => toServer'[j].kind \notin AboutDoc
      <3>1. i + 1 \in DOMAIN toServer /\ toServer[i + 1].kind = "start"
        BY <2>1, <2>2
      <3>2. ASSUME NEW j \in DOMAIN toServer', i < j PROVE toServer'[j].kind \notin AboutDoc
        <4>1. j + 1 \in DOMAIN toServer /\ i + 1 < j + 1 /\ toServer'[j] = toServer[j + 1]
          BY <2>1, <3>2
        <4> QED BY <3>1, <4>1 DEF StartBelief
      <3> QED BY <3>1, <3>2 DEF StartBelief
    <2> QED BY <2>2 DEF StartBelief
  <1> QED BY <1>1, <1>2 DEF Drained

(* A report that does not change what is known of the server.               *)
LEMMA QuietReport ==
    ASSUME TypeOK, Belief, Drained, NEW es, Reports(es), UNCHANGED server, Len(es) <= 1,
           \A i \in DOMAIN es : /\ es[i].kind \notin {"ready", "down"}
                                /\ SaysDown(es[i]) => server = "down"
    PROVE  Belief'
  <1>0. GrownBy(es) /\ es \in Seq(Events) /\ Ready' = Ready
    BY Grows
  <1>1. \A i \in DOMAIN toBrowser' : toBrowser'[i].kind \in {"ready", "down"} =>
           i \in DOMAIN toBrowser /\ toBrowser'[i] = toBrowser[i]
    BY <1>0 DEF GrownBy
  <1>2. NoReadyAhead => NoReadyAhead'
    BY <1>1 DEF NoReadyAhead
  <1>3. StartBelief'
    BY <1>0, <1>2, StartBeliefDrained DEF Belief
  <1>4. StartingBelief'
    <2>1. server = "starting" => \A i \in DOMAIN toServer' : toServer'[i].kind \notin AboutDoc
      <3>1. CASE UNCHANGED toServer
        BY <3>1 DEF Belief, StartingBelief
      <3>2. CASE toServer # <<>> /\ toServer' = Tail(toServer)
        <4>1. \A i \in DOMAIN toServer' : i + 1 \in DOMAIN toServer /\ toServer'[i] = toServer[i + 1]
          BY <3>2, Tailed DEF TypeOK
        <4> QED BY <4>1 DEF Belief, StartingBelief
      <3> QED BY <3>1, <3>2 DEF Drained
    <2> QED BY <1>0, <1>2, <2>1 DEF Belief, StartingBelief
  <1>5. DownSaid'
    <2>1. ASSUME NEW i \in DOMAIN toBrowser', SaysDown(toBrowser'[i])
          PROVE  /\ server' = "down"
                 /\ \A j \in DOMAIN toBrowser' : i < j => toBrowser'[j].kind \notin {"ready", "down"}
      <3>1. CASE i \in DOMAIN toBrowser
        <4>1. SaysDown(toBrowser[i])
          BY <1>0, <2>1, <3>1 DEF GrownBy
        <4> QED BY <1>1, <3>1, <4>1 DEF Belief, DownSaid
      <3>2. CASE i \notin DOMAIN toBrowser
        <4>1. i - Len(toBrowser) \in DOMAIN es /\ SaysDown(es[i - Len(toBrowser)]) /\ i > Len(toBrowser)
              /\ i \in Int
          BY <1>0, <2>1, <3>2 DEF GrownBy
        <4>2. \A j \in DOMAIN toBrowser' : i < j => j \notin DOMAIN toBrowser
          BY <1>0, <4>1 DEF GrownBy
        <4> QED BY <1>1, <4>1, <4>2
      <3> QED BY <3>1, <3>2
    <2> QED BY <2>1 DEF DownSaid
  <1>6. UpBelief'
    BY <1>0, <1>1 DEF Belief, UpBelief
  <1>7. DownBelief'
    <2>1. ASSUME NEW i \in DOMAIN toBrowser, toBrowser[i].kind = "down",
                 \A j \in DOMAIN toBrowser : i < j => toBrowser[j].kind # "ready"
          PROVE  DownBelief'
      <3>1. i \in DOMAIN toBrowser' /\ toBrowser'[i].kind = "down"
        BY <1>0, <2>1 DEF GrownBy
      <3>2. \A j \in DOMAIN toBrowser' : i < j => toBrowser'[j].kind # "ready"
        BY <1>1, <2>1
      <3> QED BY <3>1, <3>2 DEF DownBelief
    <2> QED BY <1>0, <1>2, <2>1 DEF Belief, DownBelief
  <1> QED BY <1>3, <1>4, <1>5, <1>6, <1>7 DEF Belief

(* The server goes: that is the last the browser will hear of its state.    *)
LEMMA GoneBelief ==
    ASSUME TypeOK, Belief, Drained, server # "down", server' = "down",
           NEW es \in {<<>>, <<Event("stopped")>>}, Reports(Farewell(es))
    PROVE  Belief'
  <1> DEFINE f == Farewell(es)
  <1>0. GrownBy(f) /\ f \in Seq(Events) /\ Ready' = Ready
    BY Grows
  <1>1. /\ 1 \in DOMAIN f /\ f[1].kind = "down" /\ \A i \in DOMAIN f : 1 <= i /\ i \in Int
        /\ \A i \in DOMAIN f : i # 1 => f[i].kind \notin {"ready", "down"}
        /\ \A i \in DOMAIN f : SaysDown(f[i]) => \A j \in DOMAIN f : j <= i
    <2> DEFINE d == Event("down")  s == Event("started")  t == Event("stopped")
    <2>1. d.kind = "down" /\ s.kind = "started" /\ t.kind = "stopped"
          /\ f = IF server = "starting" THEN <<d, s>> \o es ELSE <<d>> \o es
      BY BuiltEvents DEF Farewell
    <2>2. es \in {<<>>, <<t>>}
      OBVIOUS
    <2> HIDE DEF d, s, t
    <2>3. \/ Len(f) = 1 /\ f[1] = d
          \/ Len(f) = 2 /\ f[1] = d /\ f[2] \in {s, t}
          \/ Len(f) = 3 /\ f[1] = d /\ f[2] = s /\ f[3] = t
      <3>1. CASE server = "starting" /\ es = <<>>
        <4>1. f = <<d, s>> \o <<>>
          BY <2>1, <3>1
        <4> QED BY <4>1
      <3>2. CASE server = "starting" /\ es = <<t>>
        <4>1. f = <<d, s>> \o <<t>>
          BY <2>1, <3>2
        <4> QED BY <4>1
      <3>3. CASE server # "starting" /\ es = <<>>
        <4>1. f = <<d>> \o <<>>
          BY <2>1, <3>3
        <4> QED BY <4>1
      <3>4. CASE server # "starting" /\ es = <<t>>
        <4>1. f = <<d>> \o <<t>>
          BY <2>1, <3>4
        <4> QED BY <4>1
      <3> QED BY <2>2, <3>1, <3>2, <3>3, <3>4
    <2>4. DOMAIN f = 1..Len(f)
      BY <1>0 DEF f
    <2> HIDE DEF f
    <2>5. CASE Len(f) = 1 /\ f[1] = d
      BY <2>1, <2>4, <2>5
    <2>6. CASE Len(f) = 2 /\ f[1] = d /\ f[2] \in {s, t}
      BY <2>1, <2>4, <2>6 DEF SaysDown
    <2>7. CASE Len(f) = 3 /\ f[1] = d /\ f[2] = s /\ f[3] = t
      BY <2>1, <2>4, <2>7 DEF SaysDown
    <2> QED BY <2>3, <2>5, <2>6, <2>7
  <1> HIDE DEF f
  <1>2. \A i \in DOMAIN toServer : toServer[i].kind # "start"
    BY DEF Belief, StartBelief
  <1>3. StartBelief' /\ StartingBelief'
    <2>1. \A i \in DOMAIN toServer' : toServer'[i].kind # "start"
      <3>1. CASE UNCHANGED toServer
        BY <1>2, <3>1
      <3>2. CASE toServer # <<>> /\ toServer' = Tail(toServer)
        BY <1>2, <3>2, Tailed DEF TypeOK
      <3> QED BY <3>1, <3>2 DEF Drained
    <2> QED BY <2>1 DEF StartBelief, StartingBelief
  <1>4. \A i \in DOMAIN toBrowser : ~SaysDown(toBrowser[i])
    BY DEF Belief, DownSaid
  <1>5. DownSaid'
    <2>1. ASSUME NEW i \in DOMAIN toBrowser', SaysDown(toBrowser'[i]), NEW j \in DOMAIN toBrowser', i < j
          PROVE  FALSE
      <3>1. i \notin DOMAIN toBrowser
        BY <1>0, <1>4, <2>1 DEF GrownBy
      <3>2. i - Len(toBrowser) \in DOMAIN f /\ SaysDown(f[i - Len(toBrowser)]) /\ i > Len(toBrowser)
            /\ i \in Int /\ Len(toBrowser) \in Int
        BY <1>0, <2>1, <3>1 DEF GrownBy
      <3>3. j \notin DOMAIN toBrowser /\ j \in Int
        BY <1>0, <2>1, <3>2 DEF GrownBy
      <3>4. j - Len(toBrowser) \in DOMAIN f
        BY <1>0, <3>3 DEF GrownBy
      <3>5. j - Len(toBrowser) <= i - Len(toBrowser)
        BY <1>1, <3>2, <3>4
      <3> QED BY <2>1, <3>2, <3>3, <3>5
    <2> QED BY <2>1 DEF DownSaid
  <1>6. DownBelief'
    <2> DEFINE k == Len(toBrowser) + 1
    <2>1. k \in DOMAIN toBrowser' /\ k \notin DOMAIN toBrowser /\ k \in Int /\ k - Len(toBrowser) = 1
      BY <1>0, <1>1 DEF GrownBy
    <2>2. toBrowser'[k].kind = "down"
      BY <1>0, <1>1, <2>1 DEF GrownBy
    <2>3. ASSUME NEW j \in DOMAIN toBrowser', k < j PROVE toBrowser'[j].kind # "ready"
      <3>1. j \notin DOMAIN toBrowser /\ j \in Int /\ Len(toBrowser) \in Int
        BY <1>0, <2>3 DEF GrownBy
      <3>2. j - Len(toBrowser) \in DOMAIN f /\ toBrowser'[j] = f[j - Len(toBrowser)]
        BY <1>0, <3>1 DEF GrownBy
      <3>3. j - Len(toBrowser) # 1
        BY <2>3, <3>1
      <3> QED BY <1>1, <3>2, <3>3
    <2> QED BY <2>1, <2>2, <2>3 DEF DownBelief
  <1> QED BY <1>3, <1>5, <1>6 DEF Belief, UpBelief

(* The start arrives: nothing about documents is behind it, and nothing on  *)
(* the way to the browser calls the server ready.                           *)
LEMMA StartBelieved ==
    ASSUME TypeOK, OneCall, Belief, toServer # <<>>, toServer' = Tail(toServer),
           Head(toServer).kind = "start",
           \/ server' = "starting" /\ Reports(<<Event("down")>>)
           \/ UNCHANGED server /\ Reports(<<Event("down"), Event("started")>>)
    PROVE  Belief'
  <1>0. /\ Head(toServer) = toServer[1] /\ 1 \in DOMAIN toServer
        /\ \A i \in DOMAIN toServer' : i \in Int /\ 1 < i + 1 /\ i + 1 \in DOMAIN toServer
                                       /\ toServer'[i] = toServer[i + 1]
    <2>1. \A i \in DOMAIN toServer' : i \in Nat \ {0}
      BY DEF TypeOK
    <2> QED BY <2>1, Tailed DEF TypeOK
  <1>1. /\ server = "down" /\ ~Ready /\ NoReadyAhead
        /\ \A i \in DOMAIN toServer' : toServer'[i].kind \notin AboutDoc
    BY <1>0 DEF Belief, StartBelief
  <1>2. NoCall' /\ NoAnswer
    BY CallTaken DEF Calls
  <1>3. \E f : /\ Reports(f)
               /\ \A i \in DOMAIN f : f[i].kind # "ready" /\ ~SaysDown(f[i])
    <2> DEFINE d == Event("down")  s == Event("started")
    <2>1. d.kind = "down" /\ s.kind = "started"
      BY BuiltEvents
    <2>2. Reports(<<d>>) \/ Reports(<<d, s>>)
      OBVIOUS
    <2> HIDE DEF d, s
    <2>3. /\ \A i \in DOMAIN <<d>> : <<d>>[i].kind # "ready" /\ ~SaysDown(<<d>>[i])
          /\ \A i \in DOMAIN <<d, s>> : <<d, s>>[i].kind # "ready" /\ ~SaysDown(<<d, s>>[i])
      BY <2>1 DEF SaysDown
    <2> QED BY <2>2, <2>3
  <1>4. PICK f : Reports(f) /\ \A i \in DOMAIN f : f[i].kind # "ready" /\ ~SaysDown(f[i])
    BY <1>3
  <1>5. GrownBy(f) /\ Ready' = Ready
    BY <1>4, Grows
  <1>6. ~Ready' /\ NoReadyAhead'
    BY <1>1, <1>4, <1>5 DEF NoReadyAhead, GrownBy
  <1>7. \A i \in DOMAIN toBrowser' : ~SaysDown(toBrowser'[i])
    BY <1>2, <1>4, <1>5 DEF GrownBy, NoAnswer, SaysDown, Answers
  <1>8. \A i \in DOMAIN toServer' : toServer'[i].kind # "start"
    BY <1>2 DEF NoCall, Calls
  <1>9. server' # "ready"
    BY <1>1
  <1> QED BY <1>1, <1>6, <1>7, <1>8, <1>9
          DEF Belief, StartingBelief, StartBelief, DownSaid, UpBelief, DownBelief

(* The server gets ready before anything is said about a document.          *)
LEMMA ReadyBelieved ==
    ASSUME TypeOK, OneCall, Belief, ServerReady
    PROVE  Belief'
  <1> DEFINE r == Event("ready")  s == Event("started")  f == <<r, r, s>>
  <1>1. /\ server = "starting" /\ server' = "ready" /\ UNCHANGED toServer /\ Reports(f)
        /\ r.kind = "ready" /\ s.kind = "started"
    BY ReadyForm, BuiltEvents
  <1> HIDE DEF r, s
  <1>2. \A i \in DOMAIN f : f[i].kind # "down" /\ ~SaysDown(f[i])
    BY <1>1 DEF SaysDown
  <1>3. GrownBy(f) /\ Ready' = Ready
    BY <1>1, Grows
  <1> HIDE DEF f
  <1>4. ~Ready' /\ NoReadyAhead /\ NoCall
    BY <1>1, <1>3 DEF Belief, StartingBelief, OneCall, NoCall
  <1>5. \A i \in DOMAIN toBrowser' : ~SaysDown(toBrowser'[i])
    BY <1>1, <1>2, <1>3 DEF GrownBy, Belief, DownSaid
  <1>6. UpBelief'
    <2>1. ASSUME NEW i \in DOMAIN toBrowser', NEW j \in DOMAIN toBrowser', i < j,
                 toBrowser'[i].kind = "ready", toBrowser'[j].kind = "down"
          PROVE  FALSE
      <3>1. i \notin DOMAIN toBrowser
        BY <1>3, <1>4, <2>1 DEF GrownBy, NoReadyAhead
      <3>2. i > Len(toBrowser) /\ i \in Int /\ j \in Int /\ Len(toBrowser) \in Int
        BY <1>3, <3>1 DEF GrownBy
      <3>3. j \notin DOMAIN toBrowser
        BY <1>3, <2>1, <3>2 DEF GrownBy
      <3> QED BY <1>2, <1>3, <2>1, <3>3 DEF GrownBy
    <2> QED BY <1>4, <2>1 DEF UpBelief
  <1> QED BY <1>1, <1>4, <1>5, <1>6
          DEF Belief, StartingBelief, StartBelief, DownSaid, DownBelief, NoCall, Calls

(* Delivering a message keeps the browser's beliefs in order.               *)
LEMMA DeliverBelief ==
    ASSUME TypeInv, OneCall, Belief, Deliver
    PROVE  Belief'
  <1> DEFINE m == Head(toServer)
  <1>t. TypeOK
    BY DEF TypeInv
  <1>1. /\ toServer # <<>> /\ toServer' = Tail(toServer) /\ UNCHANGED Browser
        /\ m = toServer[1] /\ 1 \in DOMAIN toServer
        /\ DeliverStep(m)
    BY DeliverForm
  <1>d. Drained
    BY <1>1 DEF Drained
  <1>2. CASE UNCHANGED <<toBrowser, server>>
    <2>1. Reports(<<>>)
      BY <1>t, <1>1, <1>2, ReportsNothing DEF Browser
    <2> QED BY <1>t, <1>d, <1>2, <2>1, QuietReport
  <1>3. ASSUME NEW e, Reports(<<e>>), UNCHANGED server, e.kind \notin {"ready", "down"},
               SaysDown(e) => server = "down"
        PROVE  Belief'
    <2>1. /\ Len(<<e>>) <= 1
          /\ \A i \in DOMAIN <<e>> : /\ <<e>>[i].kind \notin {"ready", "down"}
                                     /\ SaysDown(<<e>>[i]) => server = "down"
      BY <1>3
    <2> QED BY <1>t, <1>d, <1>3, <2>1, QuietReport
  <1>4. ASSUME NEW n \in 0..Torn, Reports(<<[kind |-> "edits", text |-> n]>>), UNCHANGED server
        PROVE  Belief'
    <2> DEFINE e == [kind |-> "edits", text |-> n]
    <2>1. e.kind = "edits" /\ Reports(<<e>>)
      BY <1>4
    <2> HIDE DEF e
    <2> QED BY <1>3, <1>4, <2>1 DEF SaysDown
  <1>5. ASSUME Reports(<<[kind |-> "state", running |-> server # "down"]>>), UNCHANGED server
        PROVE  Belief'
    <2> DEFINE e == [kind |-> "state", running |-> server # "down"]
    <2>1. e.kind = "state" /\ e.running = (server # "down") /\ Reports(<<e>>)
      BY <1>5
    <2> HIDE DEF e
    <2> QED BY <1>3, <1>5, <2>1 DEF SaysDown
  <1>6. ASSUME m.kind = "start",
               \/ server # "down" /\ UNCHANGED server /\ Reports(<<Event("started")>>)
               \/ server = "down" /\ server' = "starting" /\ Reports(<<Event("down")>>)
               \/ server = "down" /\ UNCHANGED server /\ Reports(<<Event("down"), Event("started")>>)
        PROVE  Belief'
    <2>1. server = "down"
      BY <1>1, <1>6 DEF Belief, StartBelief
    <2> QED BY <1>t, <1>1, <1>6, <2>1, StartBelieved
  <1>7. ASSUME NEW es \in {<<Event("stopped")>>, <<>>}, m.kind = "quit" <=> es = <<>>,
               m.kind \in {"stop", "quit"},
               \/ server # "ready" /\ UNCHANGED server /\ Reports(es)
               \/ server # "down" /\ server' = "down" /\ Reports(Farewell(es))
        PROVE  Belief'
    <2>1. CASE server # "down" /\ server' = "down" /\ Reports(Farewell(es))
      BY <1>t, <1>d, <2>1, GoneBelief
    <2>2. CASE es = <<>> /\ UNCHANGED server /\ Reports(es)
      BY <1>t, <1>d, <2>2, QuietReport
    <2>3. CASE es = <<Event("stopped")>> /\ server # "ready" /\ UNCHANGED server /\ Reports(es)
      <3> DEFINE e == Event("stopped")
      <3>1. e.kind = "stopped" /\ Reports(<<e>>)
        BY <2>3, BuiltEvents
      <3>2. m.kind = "stop"
        <4>1. es # <<>>
          BY <2>3
        <4> QED BY <1>7, <4>1
      <3>3. server # "starting"
        BY <1>t, <1>1, <3>2, CallTaken DEF Calls
      <3>4. server = "down"
        BY <1>t, <2>3, <3>3 DEF TypeOK
      <3> HIDE DEF e
      <3> QED BY <1>3, <2>3, <3>1, <3>4
    <2> QED BY <1>7, <2>1, <2>2, <2>3
  <1>8. \/ UNCHANGED <<toBrowser, server>>
        \/ \E n \in 0..Torn : Reports(<<[kind |-> "edits", text |-> n]>>) /\ UNCHANGED server
        \/ Reports(<<[kind |-> "state", running |-> server # "down"]>>) /\ UNCHANGED server
        \/ /\ m.kind = "start"
           /\ \/ server # "down" /\ UNCHANGED server /\ Reports(<<Event("started")>>)
              \/ server = "down" /\ server' = "starting" /\ Reports(<<Event("down")>>)
              \/ server = "down" /\ UNCHANGED server /\ Reports(<<Event("down"), Event("started")>>)
        \/ /\ m.kind \in {"stop", "quit"}
           /\ \E es \in {<<Event("stopped")>>, <<>>} :
                 /\ m.kind = "quit" <=> es = <<>>
                 /\ \/ server # "ready" /\ UNCHANGED server /\ Reports(es)
                    \/ server # "down" /\ server' = "down" /\ Reports(Farewell(es))
    BY <1>1 DEF DeliverStep, NotifyStep, backend
  <1> QED BY <1>2, <1>4, <1>5, <1>6, <1>7, <1>8

(* Every step keeps the browser's beliefs in order.                         *)
LEMMA BeliefStep ==
    ASSUME TypeInv, OneCall, Belief, [Next]_vars
    PROVE  Belief'
  <1>t. TypeOK
    BY DEF TypeInv
  <1>1. ASSUME NEW ms, Speaks(ms), \A i \in DOMAIN ms : ms[i].kind # "start",
               UNCHANGED <<known, toBrowser, server>>
        PROVE  Belief'
    <2>1. Ready' = Ready /\ NoReadyAhead' = NoReadyAhead
      BY <1>1 DEF Ready, NoReadyAhead
    <2>2. StartingBelief' /\ StartBelief'
      BY <1>t, <1>1, <2>1, BeliefSpoken DEF Belief
    <2> QED BY <1>1, <2>1, <2>2 DEF Belief, DownSaid, UpBelief, DownBelief
  <1>2. ASSUME NEW d \in Docs, DocAction(d) PROVE Belief'
    <2>1. DocStep
      BY <1>2, DocActionKeeps
    <2>2. PICK ms : Speaks(ms) /\ \A i \in DOMAIN ms : ms[i].kind \in Notifications
      BY <2>1 DEF DocStep
    <2>3. \A i \in DOMAIN ms : ms[i].kind # "start"
      BY <2>2 DEF Notifications
    <2> QED BY <1>1, <2>1, <2>2, <2>3 DEF DocStep, backend
  <1>3. CASE SendAsk
    <2>1. AskStep
      BY <1>3, SendAskKeeps
    <2>2. UNCHANGED <<known, toBrowser, server>> /\ ask.kind # "start"
      BY <1>t, <2>1, AskKinds DEF AskStep, backend
    <2>3. CASE UNCHANGED toServer
      <3>1. Speaks(<<>>)
        BY <1>t, <2>3, Silent
      <3> QED BY <1>1, <2>2, <3>1
    <2>4. CASE ~UNCHANGED toServer
      <3>1. PICK m \in Messages : Speaks(<<m>>) /\ m.kind = ask.kind
        BY <2>1, <2>4 DEF AskStep
      <3>2. \A i \in DOMAIN <<m>> : <<m>>[i].kind # "start"
        BY <2>2, <3>1
      <3> QED BY <1>1, <2>2, <3>1, <3>2
    <2> QED BY <2>3, <2>4
  <1>4. CASE Activate \/ Deactivate
    <2>1. UNCHANGED <<known, toBrowser, server>>
      BY <1>4 DEF Activate, Deactivate, backend
    <2>2. PICK k \in {"fetch", "quit"} : Speaks(<<Event(k)>>) /\ Event(k).kind = k
      BY <1>4, ActivateKeeps
    <2>3. \A i \in DOMAIN <<Event(k)>> : <<Event(k)>>[i].kind # "start"
      BY <2>2
    <2> QED BY <1>1, <2>1, <2>2, <2>3
  <1>5. CASE ServerCrash
    <2>1. /\ UNCHANGED toServer /\ server # "down" /\ server' = "down"
          /\ Reports(Farewell(<<>>))
      BY <1>t, <1>5, CrashForm
    <2> QED BY <1>t, <2>1, GoneBelief DEF Drained
  <1>6. CASE UNCHANGED vars
    BY <1>6 DEF vars, Belief, StartingBelief, StartBelief, DownSaid, UpBelief, DownBelief,
          Ready, NoReadyAhead
  <1> QED BY <1>t, <1>2, <1>3, <1>4, <1>5, <1>6, ReceiveBelief, DeliverBelief, ReadyBelieved
          DEF Next, DocAction

-----------------------------------------------------------------------------
(* The path of the copies through the queue to a server that is ready.      *)

(* The next message takes the copies one step further.                      *)
LEMMA PathExtends ==
    ASSUME NEW base, NEW q \in Seq(Messages), NEW m \in Messages, NEW v, NEW c \in Copies,
           Reaches(base, q, v), Legal(v, m, c)
    PROVE  Reaches(base, q \o <<m>>, c)
  <1> DEFINE n == Len(q)
             r == q \o <<m>>
  <1>1. /\ n \in Nat /\ DOMAIN q = 1..n /\ Len(r) = n + 1 /\ DOMAIN r = 1..(n + 1)
        /\ \A i \in 1..n : r[i] = q[i]
        /\ r[n + 1] = m
    OBVIOUS
  <1>2. PICK f \in [0..n -> Copies] :
           /\ f[0] = base /\ f[n] = v
           /\ \A i \in 1..n : Legal(f[i - 1], q[i], f[i])
    BY <1>1 DEF Reaches
  <1> HIDE DEF n, r
  <1> DEFINE g == [i \in 0..(n + 1) |-> IF i = n + 1 THEN c ELSE f[i]]
  <1>3. g \in [0..(n + 1) -> Copies]
    BY <1>1
  <1>4. g[0] = base /\ g[n + 1] = c
    BY <1>1, <1>2
  <1>5. ASSUME NEW i \in 1..(n + 1) PROVE Legal(g[i - 1], r[i], g[i])
    <2>1. CASE i = n + 1
      <3>1. g[i - 1] = v /\ g[i] = c /\ r[i] = m
        BY <1>1, <1>2, <2>1
      <3> QED BY <3>1
    <2>2. CASE i # n + 1
      <3>1. i \in 1..n /\ g[i - 1] = f[i - 1] /\ g[i] = f[i] /\ r[i] = q[i]
        BY <1>1, <2>2
      <3> QED BY <1>2, <3>1
    <2> QED BY <2>1, <2>2
  <1> HIDE DEF g
  <1>6. Reaches(base, r, c)
    BY <1>1, <1>3, <1>4, <1>5 DEF Reaches
  <1> QED BY <1>6 DEF r

(* An empty queue leaves the copies as they are.                            *)
LEMMA PathStarts ==
    ASSUME NEW base \in Copies
    PROVE  Reaches(base, <<>>, base)
  <1> DEFINE f == [i \in 0..0 |-> base]
  <1>1. f \in [0..Len(<<>>) -> Copies] /\ f[0] = base /\ f[Len(<<>>)] = base
    OBVIOUS
  <1> HIDE DEF f
  <1>2. DOMAIN <<>> = {}
    OBVIOUS
  <1> QED BY <1>1, <1>2 DEF Reaches

(* The message at the head of the queue is the path's first step.           *)
LEMMA PathShifts ==
    ASSUME NEW base, NEW q \in Seq(Messages), NEW c, Reaches(base, q, c), q # <<>>
    PROVE  \E b \in Copies : Legal(base, Head(q), b) /\ Reaches(b, Tail(q), c)
  <1> DEFINE n == Len(q)
             r == Tail(q)
  <1>1. /\ n \in Nat \ {0} /\ DOMAIN q = 1..n /\ Len(r) = n - 1 /\ DOMAIN r = 1..(n - 1)
        /\ \A i \in 1..(n - 1) : r[i] = q[i + 1]
        /\ Head(q) = q[1]
    OBVIOUS
  <1>2. PICK f \in [0..n -> Copies] :
           /\ f[0] = base /\ f[n] = c
           /\ \A i \in 1..n : Legal(f[i - 1], q[i], f[i])
    BY <1>1 DEF Reaches
  <1> HIDE DEF n, r
  <1> DEFINE g == [i \in 0..(n - 1) |-> f[i + 1]]
  <1>3. g \in [0..(n - 1) -> Copies]
    BY <1>1
  <1>4. g[0] = f[1] /\ g[n - 1] = c
    BY <1>1, <1>2
  <1>5. ASSUME NEW i \in 1..(n - 1) PROVE Legal(g[i - 1], r[i], g[i])
    <2>1. i + 1 \in 1..n /\ g[i - 1] = f[(i + 1) - 1] /\ g[i] = f[i + 1] /\ r[i] = q[i + 1]
      BY <1>1
    <2> QED BY <1>2, <2>1
  <1> HIDE DEF g
  <1>6. Reaches(f[1], r, c)
    BY <1>1, <1>3, <1>4, <1>5 DEF Reaches
  <1>7. Legal(f[0], q[1], f[1]) /\ f[1] \in Copies
    <2>1. 1 \in 1..n /\ 1 - 1 = 0 /\ 1 \in 0..n
      BY <1>1
    <2> QED BY <1>2, <2>1
  <1> QED BY <1>1, <1>2, <1>6, <1>7 DEF r

(* Changes continue to fit when the next range joins them.                  *)
LEMMA FitsAppend ==
    ASSUME NEW base \in Nat, NEW p \in Seq(Edits), Fits(base, p), NEW n \in Texts,
           p = <<>> => base + 1 = n,
           p # <<>> => Last(p) + 1 = n
    PROVE  Fits(base, Append(p, Ranged(n)))
  <1> DEFINE r == Ranged(n)  q == Append(p, r)
  <1>1. r \in Edits /\ r.text = n /\ n \in Nat
    BY BuiltEdits DEF Ranged, Texts
  <1> HIDE DEF r
  <1>2. q \in Seq(Edits) /\ Len(q) = Len(p) + 1 /\ q[Len(q)] = r /\ Len(p) \in Nat
        /\ \A i \in 1..Len(p) : q[i] = p[i]
    BY <1>1
  <1> HIDE DEF q
  <1>3. ASSUME NEW i \in DOMAIN q
        PROVE  q[i].full \/ q[i].text = (IF i = 1 THEN base ELSE q[i - 1].text) + 1
    <2>1. CASE i = Len(q)
      <3>1. CASE p = <<>>
        BY <1>1, <1>2, <2>1, <3>1
      <3>2. CASE p # <<>>
        <4>1. i # 1 /\ i - 1 = Len(p) /\ q[i - 1] = p[Len(p)]
          BY <1>2, <2>1, <3>2
        <4> QED BY <1>1, <1>2, <2>1, <3>2, <4>1 DEF Last
      <3> QED BY <3>1, <3>2
    <2>2. CASE i # Len(q)
      <3>1. i \in DOMAIN p /\ q[i] = p[i] /\ (i # 1 => q[i - 1] = p[i - 1])
        BY <1>2, <2>2
      <3> QED BY <3>1 DEF Fits
    <2> QED BY <2>1, <2>2
  <1> QED BY <1>3 DEF Fits, q, r

(* A step of the browser takes the copies one message further, or is silent  *)
(* and leaves them as current as they were.                                 *)
Advances(c) ==
    \/ UNCHANGED toServer /\ Current(c)'
    \/ \E m \in Messages, b \in Copies :
          toServer' = toServer \o <<m>> /\ Legal(c, m, b) /\ Current(b)'

(* A request that is still to be sent, and needs a fresh copy, is no new one. *)
SameAsk ==
    ask' # NoAsk /\ ~ask'.sent /\ ask'.kind \notin {"organize", "reformat"} =>
       /\ ask # NoAsk /\ ask'.doc = ask.doc /\ ask'.text = ask.text
       /\ ask'.kind = ask.kind /\ ask'.sent = ask.sent

(* A step about one document, whose copy it moves to x.                     *)
LEMMA DocMoves ==
    ASSUME TypeInv, NEW d \in Docs, NEW c \in Copies, Current(c), NEW x \in 0..MaxText,
           NEW b, b = [c EXCEPT ![d] = x], UNCHANGED known,
           \A e \in Docs : e # d => /\ open'[e] = open[e] /\ text'[e] = text[e]
                                    /\ pending'[e] = pending[e],
           CopyCurrent(b, d)', x = 0 \/ x >= text[d] \/ x = c[d], SameAsk
    PROVE  b \in Copies /\ Current(b)' /\ b[d] = x
  <1>1. b \in Copies /\ b[d] = x /\ \A e \in Docs : e # d => b[e] = c[e]
    BY DEF Copies
  <1>2. ASSUME NEW e \in Docs PROVE CopyCurrent(b, e)'
    <2>1. CASE e = d
      BY <2>1
    <2>2. CASE e # d
      <3>1. CopyCurrent(c, e)
        BY DEF Current
      <3> QED BY <1>1, <2>2, <3>1 DEF CopyCurrent, Ready
    <2> QED BY <2>1, <2>2
  <1>3. AskCurrent(b)'
    <2>1. SUFFICES ASSUME ask' # NoAsk, ~ask'.sent, ask'.kind \notin {"organize", "reformat"}
                   PROVE  b[ask'.doc] = 0 \/ b[ask'.doc] >= ask'.text
      BY DEF AskCurrent
    <2>2. /\ ask # NoAsk /\ ask'.doc = ask.doc /\ ask'.text = ask.text
          /\ c[ask.doc] = 0 \/ c[ask.doc] >= ask.text
      BY <2>1 DEF SameAsk, Current, AskCurrent
    <2>3. ask.doc \in Docs /\ ask.text \in Nat /\ ask.text <= text[ask.doc]
          /\ text[ask.doc] \in Nat
      BY <2>2, AskKinds DEF TypeInv, TypeOK, EditorInv, AskInv
    <2>4. x \in Nat
      BY BoundsAreNat
    <2> QED BY <1>1, <2>2, <2>3, <2>4
  <1> QED BY <1>1, <1>2, <1>3 DEF Current

(* Opening a document.                                                      *)
LEMMA OpenAdvances ==
    ASSUME TypeInv, NEW d \in Docs, OpenDocument(d), NEW c \in Copies, Current(c)
    PROVE  Advances(c)
  <1>n. PICK n \in Texts : n = text[d] + 1
    BY BoundsAreNat DEF TypeInv, TypeOK, OpenDocument, Texts
  <1> DEFINE b == [c EXCEPT ![d] = n]
  <1>0. /\ n # 0 /\ n \in 0..MaxText /\ n >= text[d] /\ text' = [text EXCEPT ![d] = n]
        /\ text'[d] = n /\ open'[d] = TRUE /\ pending'[d] = <<>> /\ ~open[d]
        /\ \A e \in Docs : e # d => /\ open'[e] = open[e] /\ text'[e] = text[e]
                                    /\ pending'[e] = pending[e]
        /\ UNCHANGED <<known, ask>> /\ Ready' = Ready
    BY <1>n, BoundsAreNat DEF TypeInv, TypeOK, OpenDocument, Texts, Ready
  <1>1. c[d] = 0 /\ c[d] \in 0..MaxText /\ [c EXCEPT ![d] = c[d]] = c
    BY <1>0, BoundsAreNat DEF Current, CopyCurrent, Copies
  <1>2. SameAsk
    BY <1>0 DEF SameAsk
  <1>3. CASE Ready
    <2> DEFINE m == OpenMessage(d, n)
    <2>1. m \in Messages /\ m.kind = "open" /\ m.doc = d /\ m.text = n
      BY Built, <1>0 DEF OpenMessage
    <2>2. toServer' = toServer \o <<m>>
      BY <1>n, <1>3 DEF OpenDocument, Send, Ready
    <2> HIDE DEF m
    <2>3. b[d] = n
      BY DEF Copies
    <2>4. CopyCurrent(b, d)'
      <3>1. Fits(n, <<>>)
        BY DEF Fits
      <3>2. b[d] # 0 /\ Fits(b[d], pending'[d]) /\ b[d] = text'[d] /\ (Ready /\ open[d])'
        BY <1>0, <1>3, <2>3, <3>1
      <3> QED BY <3>2 DEF CopyCurrent
    <2>5. b \in Copies /\ Current(b)'
      BY <1>0, <1>2, <2>4, DocMoves
    <2>6. Legal(c, m, b)
      BY <1>1, <2>1 DEF Legal, Notifications
    <2> QED BY <2>1, <2>2, <2>5, <2>6 DEF Advances
  <1>4. CASE ~Ready
    <2>1. UNCHANGED toServer
      BY <1>4 DEF OpenDocument, Ready
    <2>2. CopyCurrent(c, d)'
      BY <1>0, <1>1, <1>4 DEF CopyCurrent
    <2>3. Current(c)'
      BY <1>0, <1>1, <1>2, <2>2, DocMoves
    <2> QED BY <2>1, <2>3 DEF Advances
  <1> QED BY <1>3, <1>4

(* The next edit of a current copy's document fits it.                      *)
LEMMA NextFits ==
    ASSUME TypeInv, NEW d \in Docs, open[d], Ready, NEW c \in Copies, CopyCurrent(c, d),
           NEW n \in Texts, n = text[d] + 1
    PROVE  /\ c[d] # 0 /\ Fits(c[d], Append(pending[d], Ranged(n)))
           /\ Append(pending[d], Ranged(n)) \in Seq(Edits)
           /\ Append(pending[d], Ranged(n)) # <<>> /\ Last(Append(pending[d], Ranged(n))) = n
  <1>1. c[d] # 0 /\ Fits(c[d], pending[d]) /\ (pending[d] = <<>> => c[d] = text[d])
        /\ c[d] \in Nat
    BY BoundsAreNat DEF CopyCurrent, Copies
  <1>2. pending[d] \in Seq(Edits) /\ Tracked(d) /\ (pending[d] # <<>> => Last(pending[d]) = text[d])
    BY DEF TypeInv, TypeOK, EditorInv, Tracked
  <1>3. Fits(c[d], Append(pending[d], Ranged(n)))
    BY <1>1, <1>2, FitsAppend
  <1> QED BY <1>1, <1>2, <1>3, AppendRanged DEF TypeInv

(* Changing a document.                                                     *)
LEMMA ChangeAdvances ==
    ASSUME TypeInv, NEW d \in Docs, ChangeDocument(d) \/ ReplaceDocument(d),
           NEW c \in Copies, Current(c)
    PROVE  Advances(c)
  <1> DEFINE n == text[d] + 1
  <1>0. /\ n \in Texts /\ open[d]
        /\ \A e \in Docs : e # d => /\ open'[e] = open[e] /\ text'[e] = text[e]
                                    /\ pending'[e] = pending[e]
        /\ UNCHANGED <<open, known, ask, toServer>> /\ Ready' = Ready
        /\ \/ pending'[d] = Append(pending[d], Ranged(n))
           \/ pending'[d] = <<Whole(n)>>
    BY BoundsAreNat DEF TypeInv, TypeOK, ChangeDocument, ReplaceDocument, Texts, Ready
  <1> HIDE DEF n
  <1>1. CopyCurrent(c, d) /\ c[d] \in 0..MaxText /\ [c EXCEPT ![d] = c[d]] = c
    BY DEF Current, Copies
  <1>2. SameAsk
    BY <1>0 DEF SameAsk
  <1>3. CopyCurrent(c, d)'
    <2>1. CASE Ready
      <3>1. c[d] # 0
        BY <1>0, <1>1, <2>1 DEF CopyCurrent
      <3>2. Fits(c[d], pending'[d]) /\ pending'[d] # <<>>
        <4>1. CASE pending'[d] = Append(pending[d], Ranged(n))
          BY <1>0, <1>1, <2>1, <4>1, NextFits DEF n
        <4>2. CASE pending'[d] = <<Whole(n)>>
          <5> DEFINE w == Whole(n)
          <5>1. w.full
            BY DEF Whole
          <5> HIDE DEF w
          <5>2. Fits(c[d], <<w>>) /\ <<w>> # <<>>
            BY <5>1 DEF Fits
          <5> QED BY <4>2, <5>2 DEF w
        <4> QED BY <1>0, <4>1, <4>2
      <3> QED BY <1>0, <2>1, <3>1, <3>2 DEF CopyCurrent
    <2>2. CASE ~Ready
      BY <1>0, <1>1, <2>2 DEF CopyCurrent
    <2> QED BY <2>1, <2>2
  <1>4. Current(c)'
    BY <1>0, <1>1, <1>2, <1>3, DocMoves
  <1> QED BY <1>0, <1>4 DEF Advances

(* Closing one.                                                             *)
LEMMA CloseAdvances ==
    ASSUME TypeInv, NEW d \in Docs, CloseDocument(d), NEW c \in Copies, Current(c)
    PROVE  Advances(c)
  <1> DEFINE b == [c EXCEPT ![d] = 0]
  <1>0. /\ open'[d] = FALSE /\ open[d]
        /\ \A e \in Docs : e # d => /\ open'[e] = open[e] /\ text'[e] = text[e]
                                    /\ pending'[e] = pending[e]
        /\ UNCHANGED known /\ Ready' = Ready /\ openSent[d] = Ready
    BY DEF TypeInv, TypeOK, CloseDocument, Ready, EditorInv, Tracked
  <1>1. SameAsk
    BY DEF CloseDocument, SameAsk, TypeInv, TypeOK, Asks, NoAsk
  <1>2. b[d] = 0 /\ 0 \in 0..MaxText /\ CopyCurrent(c, d) /\ c[d] \in 0..MaxText
        /\ [c EXCEPT ![d] = c[d]] = c
    BY BoundsAreNat DEF Copies, Current
  <1>3. CopyCurrent(b, d)'
    BY <1>0, <1>2 DEF CopyCurrent
  <1>4. b \in Copies /\ Current(b)'
    BY <1>0, <1>1, <1>2, <1>3, DocMoves
  <1>5. CASE Ready
    <2> DEFINE m == [kind |-> "close", doc |-> d]
    <2>1. m \in Messages /\ m.kind = "close" /\ m.doc = d
      BY Built
    <2>2. toServer' = toServer \o <<m>>
      BY <1>0, <1>5 DEF CloseDocument, Send, Ready
    <2> HIDE DEF m
    <2>3. c[d] # 0
      BY <1>0, <1>2, <1>5 DEF CopyCurrent
    <2>4. Legal(c, m, b)
      BY <2>1, <2>3 DEF Legal, Notifications
    <2> QED BY <1>4, <2>1, <2>2, <2>4 DEF Advances
  <1>6. CASE ~Ready
    <2>1. UNCHANGED toServer
      BY <1>6 DEF CloseDocument, Ready
    <2>2. c[d] = 0
      BY <1>2, <1>6 DEF CopyCurrent
    <2>3. b = c
      BY <1>2, <2>2
    <2> QED BY <1>4, <2>1, <2>3 DEF Advances
  <1> QED BY <1>5, <1>6

(* A flush with everything pending on top of the text at the copy: what is  *)
(* sent brings the copy to the newest text.                                 *)
LEMMA SentFits ==
    ASSUME NEW base, NEW n \in Texts, NEW edits \in Seq(Edits),
           edits # <<>> => Last(edits) = n /\ Fits(base, edits)
    PROVE  Fits(base, Sent(n, edits))
  <1>1. CASE edits = <<>>
    <2> DEFINE w == Whole(n)
    <2>1. w.full
      BY DEF Whole
    <2> HIDE DEF w
    <2>2. Fits(base, <<w>>)
      BY <2>1 DEF Fits
    <2> QED BY <1>1, <2>2 DEF Sent, w
  <1>2. CASE edits # <<>>
    BY <1>2 DEF Sent
  <1> QED BY <1>1, <1>2

(* Flushing a document, with edits pending that fit its copy.               *)
LEMMA FlushAdvances ==
    ASSUME TypeInv, NEW d \in Docs, open[d], NEW n \in Texts, NEW edits \in Seq(Edits),
           n >= text[d], edits # <<>> => Last(edits) = n,
           NEW c \in Copies, Current(c), Ready => c[d] # 0 /\ (edits # <<>> => Fits(c[d], edits)),
           Send(FlushMessages(d, n, edits)), text'[d] = n,
           pending'[d] = AfterFlush(edits),
           \A e \in Docs : e # d => text'[e] = text[e] /\ pending'[e] = pending[e],
           UNCHANGED <<open, known>>, SameAsk
    PROVE  Advances(c)
  <1>0. Ready' = Ready /\ EditorInv /\ open'[d] = open[d]
        /\ \A e \in Docs : e # d => /\ open'[e] = open[e] /\ text'[e] = text[e]
                                    /\ pending'[e] = pending[e]
    BY DEF Ready, TypeInv
  <1>1. CASE Ready
    <2> DEFINE s == Sent(n, edits)  m == ChangeMessage(d, s)  b == [c EXCEPT ![d] = n]
    <2>1. s \in Seq(Edits) /\ s # <<>> /\ Last(s) = n
      BY SentEndsWithText
    <2>2. Fits(c[d], s) /\ c[d] # 0
      BY <1>1, SentFits
    <2>3. toServer' = toServer \o <<m>> /\ pending'[d] = <<>>
      BY <1>0, <1>1, FlushForm DEF Send
    <2> HIDE DEF s
    <2>4. m \in Messages /\ m.kind = "change" /\ m.doc = d /\ m.edits = s
      BY <2>1, Built DEF ChangeMessage
    <2> HIDE DEF m
    <2>5. Legal(c, m, b)
      BY <2>1, <2>2, <2>4 DEF Legal, Notifications
    <2>6. b[d] = n /\ n \in 0..MaxText /\ n # 0
      BY DEF Copies, Texts
    <2>7. CopyCurrent(b, d)'
      <3>1. Fits(n, <<>>)
        BY DEF Fits
      <3>2. b[d] # 0 /\ Fits(b[d], pending'[d]) /\ b[d] = text'[d] /\ (Ready /\ open[d])'
        BY <1>0, <1>1, <2>3, <2>6, <3>1
      <3> QED BY <3>2 DEF CopyCurrent
    <2>8. b \in Copies /\ Current(b)'
      BY <1>0, <2>6, <2>7, DocMoves
    <2> QED BY <2>3, <2>4, <2>5, <2>8 DEF Advances
  <1>2. CASE ~Ready
    <2>1. toServer' = toServer \o <<>>
      BY <1>0, <1>2, FlushForm DEF Send
    <2>2. UNCHANGED toServer
      BY <2>1 DEF TypeInv, TypeOK
    <2>3. c[d] = 0 /\ c[d] \in 0..MaxText /\ [c EXCEPT ![d] = c[d]] = c
      BY <1>2 DEF Current, CopyCurrent, Copies
    <2>4. CopyCurrent(c, d)'
      BY <1>0, <1>2, <2>3 DEF CopyCurrent
    <2>5. Current(c)'
      BY <1>0, <2>3, <2>4, DocMoves
    <2> QED BY <2>2, <2>5 DEF Advances
  <1> QED BY <1>1, <1>2

(* The debounce timer.                                                      *)
LEMMA DebounceAdvances ==
    ASSUME TypeInv, NEW d \in Docs, DebounceFires(d), NEW c \in Copies, Current(c)
    PROVE  Advances(c)
  <1>1. open[d] /\ Tracked(d) /\ text[d] \in Texts
        /\ pending[d] \in Seq(Edits) /\ (pending[d] # <<>> => Last(pending[d]) = text[d])
    BY DEF DebounceFires, TypeInv, TypeOK, EditorInv, Tracked, Texts
  <1>2. /\ Send(FlushMessages(d, text[d], pending[d])) /\ UNCHANGED <<open, text, known, ask>>
        /\ pending'[d] = AfterFlush(pending[d])
        /\ \A e \in Docs : e # d => pending'[e] = pending[e]
    BY DEF DebounceFires, TypeInv, TypeOK
  <1>3. Ready => c[d] # 0 /\ Fits(c[d], pending[d])
    BY <1>1 DEF Current, CopyCurrent
  <1>4. SameAsk
    BY <1>2 DEF SameAsk
  <1>5. text[d] >= text[d]
    BY <1>1 DEF Texts
  <1> QED BY <1>1, <1>2, <1>3, <1>4, <1>5, FlushAdvances

(* A request that begins: its document is flushed, and the copy that        *)
(* reaches the server before the request does is the newest text.           *)
LEMMA BeginAskAdvances ==
    ASSUME TypeInv, NEW d \in Docs, NEW k \in {"complete", "format", "organize"}, BeginAsk(d, k),
           NEW c \in Copies, Current(c)
    PROVE  Advances(c)
  <1> DEFINE n == text[d]
  <1>1. /\ open[d] /\ Tracked(d) /\ n \in Texts /\ n # 0 /\ n \in 0..MaxText /\ n >= n
        /\ pending[d] \in Seq(Edits) /\ (pending[d] # <<>> => Last(pending[d]) = n)
        /\ ask'.doc = d /\ ask'.text = n
        /\ UNCHANGED <<open, text, known>> /\ Ready' = Ready
    BY DEF BeginAsk, TypeInv, TypeOK, EditorInv, Tracked, Texts, Ready
  <1>2. CopyCurrent(c, d) /\ c[d] \in Nat
    BY BoundsAreNat DEF Current, Copies
  <1>3. ASSUME NEW b \in Copies, \A e \in Docs : CopyCurrent(b, e)', Ready => b[d] = n
        PROVE  Current(b)'
    <2>1. ~Ready => b[d] = 0
      BY <1>1, <1>3 DEF CopyCurrent
    <2>2. AskCurrent(b)'
      BY <1>1, <1>3, <2>1 DEF AskCurrent
    <2> QED BY <1>3, <2>2 DEF Current
  <1>4. CASE timer[d] /\ Ready
    <2> DEFINE s == Sent(n, pending[d])  m == ChangeMessage(d, s)
    <2>1. s \in Seq(Edits) /\ s # <<>> /\ Last(s) = n
      BY <1>1, SentEndsWithText
    <2>2. Fits(c[d], s) /\ c[d] # 0
      BY <1>1, <1>2, <1>4, SentFits DEF CopyCurrent
    <2>3. /\ toServer' = toServer \o <<m>> /\ pending'[d] = <<>>
          /\ \A e \in Docs : e # d => pending'[e] = pending[e]
      <3>1. Send(FlushMessages(d, n, pending[d]))
            /\ pending' = [pending EXCEPT ![d] = AfterFlush(pending[d])]
        BY <1>4 DEF BeginAsk, FlushPending
      <3>2. EditorInv
        BY DEF TypeInv
      <3>3. FlushMessages(d, n, pending[d]) = <<m>> /\ AfterFlush(pending[d]) = <<>>
        BY <1>1, <1>4, <3>2, FlushForm
      <3> QED BY <3>1, <3>3 DEF Send, TypeInv, TypeOK
    <2> HIDE DEF s
    <2>4. m \in Messages /\ m.kind = "change" /\ m.doc = d /\ m.edits = s
      BY <2>1, Built DEF ChangeMessage
    <2> HIDE DEF m
    <2>5. PICK b : b = [c EXCEPT ![d] = n]
      OBVIOUS
    <2>6. b \in Copies /\ b[d] = n /\ \A e \in Docs : e # d => b[e] = c[e]
      BY <1>1, <2>5 DEF Copies
    <2>7. Legal(c, m, b)
      BY <2>1, <2>2, <2>4, <2>5 DEF Legal, Notifications
    <2>8. ASSUME NEW e \in Docs PROVE CopyCurrent(b, e)'
      <3>1. CASE e = d
        <4>1. Fits(n, <<>>)
          BY DEF Fits
        <4>2. b[d] # 0 /\ Fits(b[d], pending'[d]) /\ b[d] = text'[d] /\ (Ready /\ open[d])'
          BY <1>1, <1>4, <2>3, <2>6, <4>1
        <4> QED BY <3>1, <4>2 DEF CopyCurrent
      <3>2. CASE e # d
        <4>1. CopyCurrent(c, e)
          BY DEF Current
        <4> QED BY <1>1, <2>3, <2>6, <3>2, <4>1 DEF CopyCurrent
      <3> QED BY <3>1, <3>2
    <2>9. Current(b)'
      BY <1>3, <2>6, <2>8
    <2> QED BY <2>3, <2>4, <2>6, <2>7, <2>9 DEF Advances
  <1>5. CASE ~(timer[d] /\ Ready)
    <2>1. UNCHANGED <<toServer, pending>>
      <3>1. CASE ~timer[d]
        BY <3>1 DEF BeginAsk, FlushPending
      <3>2. CASE timer[d] /\ ~Ready
        <4>1. Send(FlushMessages(d, n, pending[d]))
              /\ pending' = [pending EXCEPT ![d] = AfterFlush(pending[d])]
          BY <3>2 DEF BeginAsk, FlushPending
        <4>2. EditorInv
          BY DEF TypeInv
        <4> QED BY <1>1, <3>2, <4>1, <4>2, FlushForm DEF Send, TypeInv, TypeOK
      <3> QED BY <1>5, <3>1, <3>2
    <2>2. \A e \in Docs : CopyCurrent(c, e)'
      BY <1>1, <2>1 DEF Current, CopyCurrent
    <2>3. Ready => c[d] = n
      BY <1>1, <1>2, <1>5 DEF CopyCurrent, Tracked
    <2>4. Current(c)'
      BY <1>3, <2>2, <2>3
    <2> QED BY <2>1, <2>4 DEF Advances
  <1> QED BY <1>4, <1>5

(* A step that leaves the documents alone leaves current copies current.    *)
LEMMA CurrentStays ==
    ASSUME NEW c \in Copies, Current(c), UNCHANGED <<open, text, pending, known>>, SameAsk
    PROVE  Current(c)'
  BY DEF Current, CopyCurrent, AskCurrent, SameAsk, Ready

(* An explicit format needs no fresh copy.                                  *)
LEMMA BeginReformatAdvances ==
    ASSUME TypeInv, NEW d \in Docs, BeginReformat(d), NEW c \in Copies, Current(c)
    PROVE  Advances(c)
  <1>1. UNCHANGED <<open, text, pending, known, toServer>> /\ ask'.kind = "reformat"
    BY DEF BeginReformat, editor
  <1>2. SameAsk
    BY <1>1 DEF SameAsk
  <1> QED BY <1>1, <1>2, CurrentStays DEF Advances

(* The request is sent when the path has reached the text it needs.         *)
LEMMA SendAskAdvances ==
    ASSUME TypeInv, SendAsk, NEW c \in Copies, Current(c)
    PROVE  Advances(c)
  <1>1. AskStep /\ ask # NoAsk /\ ~ask.sent
    BY SendAskKeeps DEF AskStep
  <1>2. SameAsk
    BY <1>1 DEF AskStep, SameAsk
  <1>3. Current(c)'
    BY <1>1, <1>2, CurrentStays DEF AskStep, editor
  <1>4. CASE UNCHANGED toServer
    BY <1>3, <1>4 DEF Advances
  <1>5. CASE ~UNCHANGED toServer
    <2>1. PICK m \in Messages :
             Speaks(<<m>>) /\ m.kind = ask.kind /\ m.doc = ask.doc /\ m.text = ask.text
      BY <1>1, <1>5 DEF AskStep
    <2>2. ask.kind \in RequestKinds
      BY <1>1, AskKinds DEF TypeInv
    <2>3. Legal(c, m, c)
      BY <1>1, <2>1, <2>2 DEF Legal, Notifications, Current, AskCurrent
    <2> QED BY <1>3, <2>1, <2>3 DEF Advances, Speaks
  <1> QED BY <1>4, <1>5

(* The calls of the lifecycle concern no copy.                              *)
LEMMA CallAdvances ==
    ASSUME TypeInv, NEW c \in Copies, Current(c), UNCHANGED <<editor, known, ask>>,
           \/ UNCHANGED toServer
           \/ \E k \in {"fetch", "start", "stop", "quit"} : Speaks(<<Event(k)>>) /\ Event(k).kind = k
    PROVE  Advances(c)
  <1>1. Current(c)'
    BY CurrentStays DEF SameAsk, editor
  <1>2. CASE UNCHANGED toServer
    BY <1>1, <1>2 DEF Advances
  <1>3. CASE \E k \in {"fetch", "start", "stop", "quit"} : Speaks(<<Event(k)>>) /\ Event(k).kind = k
    <2>1. PICK k \in {"fetch", "start", "stop", "quit"} : Speaks(<<Event(k)>>) /\ Event(k).kind = k
      BY <1>3
    <2> DEFINE m == Event(k)
    <2>2. m \in Messages /\ m.kind = k /\ toServer' = toServer \o <<m>>
      BY <2>1 DEF Speaks, Event, Messages
    <2> HIDE DEF m
    <2>3. Legal(c, m, c)
      BY <2>2 DEF Legal, Notifications
    <2> QED BY <1>1, <2>2, <2>3 DEF Advances
  <1> QED BY <1>2, <1>3

(* Edits that arrive go into the buffer, and after a format out again.      *)
LEMMA ApplyAdvances ==
    ASSUME TypeInv, ApplyStep, UNCHANGED known, NEW c \in Copies, Current(c)
    PROVE  Advances(c)
  <1>1. SameAsk
    BY DEF ApplyStep, ApplyEnds, SameAsk
  <1>2. CASE UNCHANGED <<editor, toServer>>
    <2>1. Current(c)'
      BY <1>1, <1>2, CurrentStays DEF editor
    <2> QED BY <1>2, <2>1 DEF Advances
  <1>3. CASE ask.doc \in Docs /\ text[ask.doc] + 1 \in Texts /\ ApplyChange(ask.doc, text[ask.doc] + 1)
    <2>1. PICK d \in Docs, n \in Texts : n = text[d] + 1 /\ ApplyChange(d, n)
      BY <1>3
    <2> DEFINE p == Append(pending[d], Ranged(n))
    <2>2. /\ open[d] /\ UNCHANGED open /\ text' = [text EXCEPT ![d] = n]
          /\ \/ Send(FlushMessages(d, n, p)) /\ pending' = [pending EXCEPT ![d] = AfterFlush(p)]
             \/ pending' = [pending EXCEPT ![d] = p] /\ UNCHANGED toServer
      BY <2>1 DEF ApplyChange
    <2>3. /\ p \in Seq(Edits) /\ p # <<>> /\ Last(p) = n
          /\ Ready => c[d] # 0 /\ Fits(c[d], p)
      <3>1. Tracked(d) /\ CopyCurrent(c, d)
        BY DEF TypeInv, EditorInv, Current
      <3>2. p \in Seq(Edits) /\ p # <<>> /\ Last(p) = n
        BY <2>1, <3>1, AppendRanged DEF TypeInv
      <3> QED BY <2>1, <2>2, <3>1, <3>2, NextFits
    <2> HIDE DEF p
    <2>4. text'[d] = n /\ n >= text[d] /\ n # 0 /\ \A e \in Docs : e # d => text'[e] = text[e]
      BY <2>1, <2>2 DEF TypeInv, TypeOK, Texts
    <2>5. CASE Send(FlushMessages(d, n, p)) /\ pending' = [pending EXCEPT ![d] = AfterFlush(p)]
      <3>1. pending'[d] = AfterFlush(p) /\ \A e \in Docs : e # d => pending'[e] = pending[e]
        BY <2>5 DEF TypeInv, TypeOK
      <3> QED BY <1>1, <2>2, <2>3, <2>4, <2>5, <3>1, FlushAdvances
    <2>6. CASE pending' = [pending EXCEPT ![d] = p] /\ UNCHANGED toServer
      <3>1. pending'[d] = p /\ \A e \in Docs : e # d => pending'[e] = pending[e] /\ open'[e] = open[e]
        BY <2>2, <2>6 DEF TypeInv, TypeOK
      <3>2. c[d] \in 0..MaxText /\ [c EXCEPT ![d] = c[d]] = c /\ Ready' = Ready /\ CopyCurrent(c, d)
        BY DEF Copies, Ready, Current
      <3>3. CopyCurrent(c, d)'
        BY <2>2, <2>3, <3>1, <3>2 DEF CopyCurrent
      <3>4. Current(c)'
        BY <1>1, <2>4, <3>1, <3>2, <3>3, DocMoves
      <3> QED BY <2>6, <3>4 DEF Advances
    <2> QED BY <2>2, <2>5, <2>6
  <1> QED BY <1>2, <1>3 DEF ApplyStep

(* A message, or none, takes the path one step further, or not.             *)
LEMMA AdvancesReaches ==
    ASSUME TypeInv, server = "ready", UNCHANGED <<server, copy>>,
           NEW c \in Copies, Reaches(copy, toServer, c), Advances(c)
    PROVE  Path'
  <1>1. toServer \in Seq(Messages)
    BY DEF TypeInv, TypeOK
  <1>2. CASE UNCHANGED toServer /\ Current(c)'
    BY <1>2 DEF Path
  <1>3. ASSUME NEW m \in Messages, NEW b \in Copies,
               toServer' = toServer \o <<m>>, Legal(c, m, b), Current(b)'
        PROVE  Path'
    <2>1. Reaches(copy, toServer \o <<m>>, b)
      BY <1>1, <1>3, PathExtends
    <2>2. Reaches(copy', toServer', b)
      BY <1>3, <2>1
    <2> QED BY <1>3, <2>2 DEF Path
  <1> QED BY <1>2, <1>3 DEF Advances

(* A path that goes on where another ends.                                  *)
LEMMA PathJoins ==
    ASSUME NEW base, NEW q \in Seq(Messages), NEW r \in Seq(Messages), NEW v, NEW c,
           Reaches(base, q, v), Reaches(v, r, c)
    PROVE  Reaches(base, q \o r, c)
  <1> DEFINE n == Len(q)  k == Len(r)  s == q \o r
  <1>1. /\ n \in Nat /\ DOMAIN q = 1..n /\ k \in Nat /\ DOMAIN r = 1..k
        /\ Len(s) = n + k /\ DOMAIN s = 1..(n + k)
        /\ \A i \in 1..n : s[i] = q[i]
        /\ \A i \in 1..(n + k) : i > n => s[i] = r[i - n]
    OBVIOUS
  <1>2. PICK f \in [0..n -> Copies] :
           /\ f[0] = base /\ f[n] = v
           /\ \A i \in 1..n : Legal(f[i - 1], q[i], f[i])
    BY <1>1 DEF Reaches
  <1>3. PICK h \in [0..k -> Copies] :
           /\ h[0] = v /\ h[k] = c
           /\ \A i \in 1..k : Legal(h[i - 1], r[i], h[i])
    BY <1>1 DEF Reaches
  <1> HIDE DEF n, k, s
  <1> DEFINE g == [i \in 0..(n + k) |-> IF i <= n THEN f[i] ELSE h[i - n]]
  <1>4. g \in [0..(n + k) -> Copies]
    <2>1. ASSUME NEW i \in 0..(n + k) PROVE g[i] \in Copies
      <3>1. CASE i <= n
        BY <1>1, <3>1
      <3>2. CASE ~(i <= n)
        <4>1. i - n \in 0..k /\ g[i] = h[i - n]
          BY <1>1, <3>2
        <4> QED BY <4>1
      <3> QED BY <3>1, <3>2
    <2> QED BY <2>1
  <1>5. g[0] = base /\ g[n + k] = c
    <2>1. g[0] = f[0] /\ 0 \in 0..(n + k) /\ n + k \in 0..(n + k)
      BY <1>1
    <2>2. CASE k = 0
      BY <1>1, <1>2, <1>3, <2>1, <2>2
    <2>3. CASE k # 0
      <3>1. ~(n + k <= n) /\ (n + k) - n = k
        BY <1>1, <2>3
      <3> QED BY <1>2, <1>3, <2>1, <3>1
    <2> QED BY <2>2, <2>3
  <1>6. ASSUME NEW i \in 1..(n + k) PROVE Legal(g[i - 1], s[i], g[i])
    <2>0. i \in 0..(n + k) /\ i - 1 \in 0..(n + k) /\ i \in Int
      BY <1>1
    <2>1. CASE i <= n
      <3>1. i \in 1..n /\ g[i - 1] = f[i - 1] /\ g[i] = f[i] /\ s[i] = q[i]
        BY <1>1, <2>0, <2>1
      <3> QED BY <1>2, <3>1
    <2>2. CASE ~(i <= n)
      <3>0. i > n /\ i - n \in 1..k
        BY <1>1, <2>0, <2>2
      <3>1. i - n \in 1..k /\ g[i] = h[i - n] /\ s[i] = r[i - n]
        <4>1. g[i] = h[i - n]
          BY <2>0, <2>2
        <4>2. s[i] = r[i - n]
          BY <1>1, <3>0
        <4> QED BY <3>0, <4>1, <4>2
      <3>2. g[i - 1] = h[(i - n) - 1]
        <4>1. CASE i - 1 = n
          <5>1. g[i - 1] = f[n] /\ (i - n) - 1 = 0
            BY <1>1, <2>0, <4>1
          <5> QED BY <1>2, <1>3, <5>1
        <4>2. CASE i - 1 # n
          <5>1. ~(i - 1 <= n) /\ (i - 1) - n = (i - n) - 1
            BY <1>1, <2>0, <2>2, <4>2
          <5> QED BY <2>0, <5>1
        <4> QED BY <4>1, <4>2
      <3> QED BY <1>3, <3>1, <3>2
    <2> QED BY <2>1, <2>2
  <1> HIDE DEF g
  <1>7. Reaches(base, s, c)
    BY <1>1, <1>4, <1>5, <1>6 DEF Reaches
  <1> QED BY <1>7 DEF s

(* The openings of documents that are not open at the server, in any order, *)
(* take it from its copies to the same with those documents' texts.         *)
Opened(c, o, t, k) == [d \in Docs |-> IF \E i \in 1..k : o[i] = d THEN t[d] ELSE c[d]]

(* Each opening is the next step of the way.                                *)
LEMMA OpeningsReach ==
    ASSUME NEW c \in Copies, NEW t \in Copies, NEW k \in Nat, NEW o \in [1..k -> Docs],
           \A i, j \in 1..k : o[i] = o[j] => i = j,
           \A i \in 1..k : c[o[i]] = 0,
           NEW q \in Seq(Messages), Len(q) = k,
           \A i \in 1..k : q[i].kind = "open" /\ q[i].doc = o[i] /\ q[i].text = t[o[i]]
    PROVE  Reaches(c, q, Opened(c, o, t, k)) /\ Opened(c, o, t, k) \in Copies
  <1> DEFINE f == [i \in 0..k |-> Opened(c, o, t, i)]
  <1>1. \A i \in 0..k : Opened(c, o, t, i) \in Copies
    BY DEF Opened, Copies
  <1>2. f \in [0..k -> Copies] /\ f[k] = Opened(c, o, t, k)
    BY <1>1
  <1>3. f[0] = c
    <2>1. Opened(c, o, t, 0) = [d \in Docs |-> c[d]]
      BY DEF Opened
    <2> QED BY <2>1 DEF Copies
  <1>4. ASSUME NEW i \in 1..k PROVE Legal(f[i - 1], q[i], f[i])
    <2> DEFINE a == f[i - 1]  b == f[i]  d == o[i]
    <2>1. i \in 0..k /\ i - 1 \in 0..k /\ a = Opened(c, o, t, i - 1) /\ b = Opened(c, o, t, i)
          /\ a \in Copies /\ b \in Copies /\ d \in Docs
      BY <1>2
    <2>2. a[d] = 0
      BY <2>1 DEF Opened
    <2>3. b = [a EXCEPT ![d] = t[d]]
      <3>1. ASSUME NEW e \in Docs PROVE b[e] = [a EXCEPT ![d] = t[d]][e]
        <4>1. CASE e = d
          BY <2>1, <4>1 DEF Opened, Copies
        <4>2. CASE e # d
          <5>1. (\E j \in 1..i : o[j] = e) <=> (\E j \in 1..(i - 1) : o[j] = e)
            <6>1. ASSUME NEW j \in 1..i, o[j] = e PROVE j \in 1..(i - 1)
              <7>1. j # i
                BY <4>2, <6>1
              <7> QED BY <7>1
            <6>2. 1..(i - 1) \subseteq 1..i
              OBVIOUS
            <6> QED BY <6>1, <6>2
          <5> QED BY <2>1, <4>2, <5>1 DEF Opened, Copies
        <4> QED BY <4>1, <4>2
      <3> QED BY <2>1, <3>1 DEF Copies
    <2> HIDE DEF a, b, d
    <2>4. Legal(a, q[i], b)
      <3>1. q[i].kind = "open" /\ q[i].doc = d /\ q[i].text = t[d]
        BY DEF d
      <3> QED BY <2>2, <2>3, <3>1 DEF Legal, Notifications
    <2> QED BY <2>4 DEF a, b
  <1> HIDE DEF f
  <1>5. DOMAIN q = 1..k
    OBVIOUS
  <1> QED BY <1>2, <1>3, <1>4, <1>5, <1>1 DEF Reaches

(* An order of the unsent documents misses none.                            *)
LEMMA OrderIsComplete ==
    ASSUME NEW o \in Orders(Unsent)
    PROVE  \A d \in Unsent : \E i \in DOMAIN o : o[i] = d
  <1> DEFINE k == Cardinality(Unsent)
  <1>1. o \in [1..k -> Unsent] /\ k \in Nat /\ IsFiniteSet(Unsent) /\ DOMAIN o = 1..k
        /\ \A i, j \in 1..k : o[i] = o[j] => i = j
    BY OrderIsSeq DEF Orders
  <1>2. o \in Injection(1..k, Unsent)
    BY <1>1 DEF Injection, IsInjective
  <1>3. Cardinality(1..k) = k
    BY <1>1, FS_Interval
  <1>4. o \in Surjection(1..k, Unsent)
    BY <1>1, <1>2, <1>3, FS_Injection
  <1> QED BY <1>1, <1>4 DEF Surjection

(* A server that is ready is told of every document it does not have.       *)
LEMMA ReadyAdvances ==
    ASSUME TypeInv, server = "ready", StateStep("ready"), UNCHANGED <<server, copy>>,
           NEW c \in Copies, Reaches(copy, toServer, c), Current(c)
    PROVE  Path'
  <1>1. PICK o \in Orders(Unsent) : toServer' = toServer \o Openings(o)
    BY DEF StateStep, Speaks
  <1>2. /\ UNCHANGED <<open, text, ask>> /\ Ready'
        /\ pending' = [d \in Docs |-> IF d \in Unsent THEN <<>> ELSE pending[d]]
    BY DEF StateStep, Ready
  <1>3. /\ DOMAIN o = 1..Cardinality(Unsent) /\ Cardinality(Unsent) \in Nat
        /\ \A i \in DOMAIN o : o[i] \in Unsent
        /\ \A i, j \in DOMAIN o : o[i] = o[j] => i = j
        /\ Unsent \subseteq Docs
        /\ \A d \in Unsent : \E i \in DOMAIN o : o[i] = d
    BY OrderIsSeq, OrderIsComplete
  <1>4. /\ Openings(o) \in Seq(Messages) /\ Len(Openings(o)) = Cardinality(Unsent)
        /\ \A i \in DOMAIN o : /\ Openings(o)[i].kind = "open" /\ Openings(o)[i].doc = o[i]
                               /\ Openings(o)[i].text = text[o[i]]
    BY OpeningsForm DEF TypeInv
  <1>5. \A d \in Unsent : c[d] = 0 /\ open[d] /\ text[d] # 0
    BY <1>3 DEF TypeInv, EditorInv, Tracked, Unsent, Current, CopyCurrent
  <1>6. PICK k \in Nat, q \in Seq(Messages), t \in Copies :
           k = Cardinality(Unsent) /\ q = Openings(o) /\ t = text
    BY <1>3, <1>4 DEF TypeInv, TypeOK, Copies
  <1>7. PICK b : b = Opened(c, o, t, k)
    OBVIOUS
  <1>8. Reaches(c, q, b) /\ b \in Copies
    <2>1. o \in [1..k -> Docs]
      BY <1>3, <1>6 DEF Orders
    <2>2. \A i, j \in 1..k : o[i] = o[j] => i = j
      BY <1>3, <1>6
    <2>3. \A i \in 1..k : c[o[i]] = 0
      BY <1>3, <1>5, <1>6
    <2>4. Len(q) = k /\ \A i \in 1..k : q[i].kind = "open" /\ q[i].doc = o[i] /\ q[i].text = t[o[i]]
      BY <1>3, <1>4, <1>6
    <2> QED BY <1>7, <2>1, <2>2, <2>3, <2>4, OpeningsReach
  <1>9. Reaches(copy, toServer \o q, b)
    BY <1>8, PathJoins DEF TypeInv, TypeOK
  <1>10. \A d \in Docs : b[d] = IF d \in Unsent THEN text[d] ELSE c[d]
    <2>1. ASSUME NEW d \in Docs
          PROVE  (\E i \in 1..k : o[i] = d) <=> d \in Unsent
      BY <1>3, <1>6
    <2> QED BY <1>6, <1>7, <2>1 DEF Opened
  <1>11. ASSUME NEW d \in Docs PROVE CopyCurrent(b, d)'
    <2>1. CopyCurrent(c, d) /\ Tracked(d)
      BY DEF Current, TypeInv, EditorInv
    <2>2. CASE d \in Unsent
      <3>1. Fits(b[d], <<>>)
        BY DEF Fits
      <3>2. b[d] # 0 /\ Fits(b[d], pending'[d]) /\ b[d] = text'[d] /\ (Ready /\ open[d])'
        BY <1>2, <1>5, <1>10, <2>2, <3>1
      <3> QED BY <3>2 DEF CopyCurrent
    <2>3. CASE d \notin Unsent
      <3>1. b[d] = c[d] /\ pending'[d] = pending[d] /\ text'[d] = text[d] /\ open'[d] = open[d]
        BY <1>2, <1>10, <2>3
      <3>2. CASE open[d]
        <4>1. Ready
          BY <2>1, <2>3, <3>2 DEF Unsent, Tracked
        <4>2. c[d] # 0 /\ Fits(c[d], pending[d]) /\ (pending[d] = <<>> => c[d] = text[d])
          BY <2>1, <3>2, <4>1 DEF CopyCurrent
        <4> QED BY <1>2, <3>1, <4>2, <3>2 DEF CopyCurrent
      <3>3. CASE ~open[d]
        <4>1. c[d] = 0
          BY <2>1, <3>3 DEF CopyCurrent
        <4> QED BY <1>2, <3>1, <3>3, <4>1 DEF CopyCurrent
      <3> QED BY <3>2, <3>3
    <2> QED BY <2>2, <2>3
  <1>12. AskCurrent(b)'
    <2>1. SUFFICES ASSUME ask # NoAsk, ~ask.sent, ask.kind \notin {"organize", "reformat"}
                   PROVE  b[ask.doc] = 0 \/ b[ask.doc] >= ask.text
      BY <1>2 DEF AskCurrent
    <2>2. c[ask.doc] = 0 \/ c[ask.doc] >= ask.text
      BY <2>1 DEF Current, AskCurrent
    <2>3. ask.doc \in Docs /\ ask.text \in Nat /\ ask.text <= text[ask.doc]
          /\ text[ask.doc] \in Nat
      BY <2>1, AskKinds DEF TypeInv, TypeOK, EditorInv, AskInv
    <2> QED BY <1>10, <2>2, <2>3
  <1>13. Current(b)'
    BY <1>11, <1>12 DEF Current
  <1>14. Reaches(copy', toServer', b)
    BY <1>1, <1>6, <1>9
  <1> QED BY <1>8, <1>13, <1>14 DEF Path

(* A server that is ready is never taken for one that is gone, once it has  *)
(* been taken for ready.                                                    *)
LEMMA DownAdvances ==
    ASSUME TypeInv, StateStep("down"), ~Ready, NEW c \in Copies, Current(c)
    PROVE  Advances(c)
  <1>1. UNCHANGED <<open, text, pending, ask, toServer>> /\ ~Ready'
    BY DEF StateStep, Ready
  <1>2. Current(c)'
    BY <1>1 DEF Current, CopyCurrent, AskCurrent
  <1> QED BY <1>1, <1>2 DEF Advances

(* A queue that concerns no document leads nowhere else.                    *)
LEMMA QuietPath ==
    ASSUME NEW base \in Copies, NEW q \in Seq(Messages), \A i \in DOMAIN q : q[i].kind \notin AboutDoc
    PROVE  Reaches(base, q, base)
  <1> DEFINE n == Len(q)  f == [i \in 0..n |-> base]
  <1>1. n \in Nat /\ DOMAIN q = 1..n
    OBVIOUS
  <1> HIDE DEF n
  <1>2. f \in [0..n -> Copies] /\ f[0] = base /\ f[n] = base
    BY <1>1
  <1>3. ASSUME NEW i \in 1..n PROVE Legal(f[i - 1], q[i], f[i])
    <2>1. f[i - 1] = base /\ f[i] = base /\ q[i].kind \notin AboutDoc
      BY <1>1
    <2> HIDE DEF f
    <2>2. Legal(base, q[i], base)
      BY <2>1 DEF Legal, AboutDoc
    <2> QED BY <2>1, <2>2
  <1> HIDE DEF f
  <1> QED BY <1>1, <1>2, <1>3 DEF Reaches, n

(* The steps of the browser.                                                *)
LEMMA BrowserPath ==
    ASSUME TypeInv, Belief, Path,
           \/ \E d \in Docs : DocAction(d)
           \/ SendAsk \/ Activate \/ Deactivate \/ Receive
    PROVE  Path'
  <1>1. UNCHANGED backend
    <2>1. CASE \E d \in Docs : DocAction(d)
      BY <2>1, DocActionKeeps DEF DocStep
    <2>2. CASE SendAsk
      BY <2>2, SendAskKeeps DEF AskStep
    <2>3. CASE Activate \/ Deactivate
      BY <2>3 DEF Activate, Deactivate
    <2>4. CASE Receive
      BY <2>4 DEF Receive
    <2> QED BY <2>1, <2>2, <2>3, <2>4
  <1>2. UNCHANGED <<server, copy>>
    BY <1>1 DEF backend
  <1>3. CASE server # "ready"
    BY <1>2, <1>3 DEF Path
  <1>4. CASE server = "ready"
    <2>1. PICK c \in Copies : Reaches(copy, toServer, c) /\ Current(c)
      BY <1>4 DEF Path
    <2>2. ASSUME Advances(c) PROVE Path'
      BY <1>2, <1>4, <2>1, <2>2, AdvancesReaches
    <2>3. ASSUME NEW d \in Docs, DocAction(d) PROVE Advances(c)
      <3>1. CASE OpenDocument(d)
        BY <2>1, <3>1, OpenAdvances
      <3>2. CASE ChangeDocument(d) \/ ReplaceDocument(d)
        BY <2>1, <3>2, ChangeAdvances
      <3>3. CASE CloseDocument(d)
        BY <2>1, <3>3, CloseAdvances
      <3>4. CASE DebounceFires(d)
        BY <2>1, <3>4, DebounceAdvances
      <3>5. CASE \E k \in {"complete", "format", "organize"} : BeginAsk(d, k)
        BY <2>1, <3>5, BeginAskAdvances
      <3>6. CASE BeginReformat(d)
        BY <2>1, <3>6, BeginReformatAdvances
      <3> QED BY <2>3, <3>1, <3>2, <3>3, <3>4, <3>5, <3>6 DEF DocAction
    <2>4. CASE SendAsk
      BY <2>1, <2>2, <2>4, SendAskAdvances
    <2>5. CASE Activate \/ Deactivate
      <3>1. \E k \in {"fetch", "quit"} : Speaks(<<Event(k)>>) /\ Event(k).kind = k
        BY <2>5, ActivateKeeps
      <3>2. UNCHANGED <<editor, known, ask>>
        BY <2>5 DEF Activate, Deactivate
      <3> QED BY <2>1, <2>2, <3>1, <3>2, CallAdvances
    <2>6. CASE Receive
      <3> DEFINE e == Head(toBrowser)
      <3>1. ReceiveStep(e) /\ e = toBrowser[1] /\ 1 \in DOMAIN toBrowser
        BY <2>6, ReceiveForm
      <3>2. CASE e.kind = "ready" /\ StateStep("ready")
        BY <1>2, <1>4, <2>1, <3>2, ReadyAdvances
      <3>3. CASE e.kind = "down" /\ StateStep("down")
        <4>1. ~Ready
          BY <1>4, <3>1, <3>3 DEF Belief, UpBelief
        <4> QED BY <2>1, <2>2, <3>3, <4>1, DownAdvances
      <3>4. CASE ApplyStep /\ UNCHANGED known
        BY <2>1, <2>2, <3>4, ApplyAdvances
      <3>5. CASE /\ UNCHANGED <<editor, known, ask>>
                 /\ \/ UNCHANGED toServer
                    \/ \E k \in {"start", "stop"} : Speaks(<<Event(k)>>) /\ Event(k).kind = k
        BY <2>1, <2>2, <3>5, CallAdvances
      <3> QED BY <3>1, <3>2, <3>3, <3>4, <3>5 DEF ReceiveStep
    <2> QED BY <2>2, <2>3, <2>4, <2>5, <2>6
  <1> QED BY <1>3, <1>4

(* A legal notification takes the copies where the path goes.               *)
LEMMA NotifyLegal ==
    ASSUME TypeOK, server = "ready", NEW m \in Messages, m.kind \in Notifications,
           m.kind = "change" => m.edits # <<>>,
           NotifyStep(m), NEW b, Legal(copy, m, b)
    PROVE  copy' = b
  <1>1. CASE m.kind = "open"
    BY <1>1 DEF NotifyStep, Legal
  <1>2. CASE m.kind = "change"
    <2>1. copy[m.doc] # 0 /\ Applied(copy[m.doc], m.edits) = Last(m.edits)
          /\ b = [copy EXCEPT ![m.doc] = Last(m.edits)]
      BY <1>2, MessageKinds, AppliedForm DEF Legal, AboutDoc
    <2> QED BY <1>2, <2>1 DEF NotifyStep
  <1>3. CASE m.kind = "close"
    BY <1>3 DEF NotifyStep, Legal, Writes
  <1> QED BY <1>1, <1>2, <1>3 DEF Notifications

(* Delivering a message.                                                    *)
LEMMA DeliverPath ==
    ASSUME TypeInv, Path, Deliver
    PROVE  Path'
  <1> DEFINE m == Head(toServer)
  <1>1. /\ toServer # <<>> /\ toServer' = Tail(toServer) /\ UNCHANGED Browser /\ m \in Messages
        /\ m.kind = "change" => m.edits # <<>>
        /\ DeliverStep(m)
    BY DeliverForm
  <1> HIDE DEF m
  <1>2. CASE server # "ready"
    <2>1. server' # "ready" /\ (UNCHANGED copy \/ NoCopies)
      BY <1>1, <1>2 DEF DeliverStep, NotifyStep, backend
    <2> QED BY <1>2, <2>1 DEF Path, NoCopies
  <1>3. CASE server' = "down" /\ NoCopies
    BY <1>3 DEF Path, NoCopies
  <1>4. CASE server = "ready" /\ ~(server' = "down" /\ NoCopies)
    <2>1. PICK c \in Copies : Reaches(copy, toServer, c) /\ Current(c)
      BY <1>4 DEF Path
    <2>2. PICK b \in Copies : Legal(copy, m, b) /\ Reaches(b, Tail(toServer), c)
      BY <1>1, <2>1, PathShifts DEF TypeInv, TypeOK, m
    <2>3. copy' = b /\ server' = "ready"
      <3>1. CASE m.kind \in Notifications
        <4>1. NotifyStep(m)
          BY <1>1, <3>1 DEF DeliverStep, Notifications, Requests
        <4>2. copy' = b
          BY <1>1, <1>4, <2>2, <3>1, <4>1, NotifyLegal DEF TypeInv
        <4> QED BY <1>4, <4>1, <4>2 DEF NotifyStep
      <3>2. CASE m.kind \notin Notifications
        <4>1. b = copy
          BY <2>2, <3>2 DEF Legal
        <4>2. UNCHANGED <<server, copy>>
          BY <1>1, <1>4, <3>2 DEF DeliverStep, backend
        <4> QED BY <1>4, <4>1, <4>2
      <3> QED BY <3>1, <3>2
    <2>4. Current(c)'
      BY <1>1, <2>1, CurrentStays DEF Browser, editor, SameAsk
    <2> QED BY <1>1, <2>2, <2>3, <2>4 DEF Path
  <1> QED BY <1>2, <1>3, <1>4

(* Every step.                                                              *)
LEMMA PathStep ==
    ASSUME TypeInv, Belief, Path, [Next]_vars
    PROVE  Path'
  <1>1. CASE \/ \E d \in Docs : DocAction(d)
             \/ SendAsk \/ Activate \/ Deactivate \/ Receive
    BY <1>1, BrowserPath
  <1>2. CASE Deliver
    BY <1>2, DeliverPath
  <1>3. CASE ServerReady
    <2>1. /\ server = "starting" /\ server' = "ready" /\ UNCHANGED <<copy, toServer>>
          /\ UNCHANGED <<open, text, pending, known, ask>>
      BY <1>3 DEF ServerReady, editor
    <2>2. /\ ~Ready /\ \A i \in DOMAIN toServer : toServer[i].kind \notin AboutDoc
          /\ \A d \in Docs : copy[d] = 0
      BY <2>1 DEF Belief, StartingBelief, Path
    <2>3. copy \in Copies
      BY <2>2, BoundsAreNat DEF TypeInv, TypeOK, Copies
    <2>4. Reaches(copy, toServer, copy)
      BY <2>2, <2>3, QuietPath DEF TypeInv, TypeOK
    <2>5. Current(copy)
      <3>1. \A d \in Docs : CopyCurrent(copy, d)
        BY <2>2 DEF CopyCurrent
      <3>2. AskCurrent(copy)
        <4>1. ask # NoAsk => ask.doc \in Docs
          BY AskKinds DEF TypeInv
        <4> QED BY <2>2, <4>1 DEF AskCurrent
      <3> QED BY <3>1, <3>2 DEF Current
    <2>6. PICK c \in Copies : c = copy
      BY <2>3
    <2>7. Current(c)'
      BY <2>1, <2>5, <2>6, CurrentStays DEF SameAsk
    <2>8. Reaches(copy', toServer', c)
      BY <2>1, <2>4, <2>6
    <2> QED BY <2>1, <2>7, <2>8 DEF Path
  <1>4. CASE ServerCrash
    <2>1. server' = "down" /\ NoCopies
      BY <1>4 DEF ServerCrash
    <2> QED BY <2>1 DEF Path, NoCopies
  <1>5. CASE UNCHANGED vars
    <2>1. UNCHANGED <<server, copy, toServer, open, text, pending, known, ask>>
      BY <1>5 DEF vars
    <2>2. CASE server # "ready"
      BY <2>1, <2>2 DEF Path
    <2>3. CASE server = "ready"
      <3>1. PICK c \in Copies : Reaches(copy, toServer, c) /\ Current(c)
        BY <2>3 DEF Path
      <3>2. Current(c)'
        BY <2>1, <3>1, CurrentStays DEF SameAsk
      <3> QED BY <2>1, <2>3, <3>1, <3>2 DEF Path
    <2> QED BY <2>2, <2>3
  <1> QED BY <1>1, <1>2, <1>3, <1>4, <1>5 DEF Next, DocAction

(* What a message that writes a copy makes of it is a text of the document. *)
LEMMA ResultIsText ==
    ASSUME TypeOK, ChangesCarryEdits, NEW i \in DOMAIN toServer, Writes(toServer[i])
    PROVE  toServer[i].doc \in Docs /\ Result(toServer[i]) \in Nat /\ Result(toServer[i]) \in Texts
  <1> DEFINE m == toServer[i]
  <1>1. m \in Messages
    BY DEF TypeOK
  <1>2. /\ m.kind \in {"open", "change"} /\ m.doc \in Docs
        /\ m.kind = "open" => m.text \in Texts
        /\ m.kind = "change" => m.edits \in Seq(Edits) /\ m.edits # <<>>
    BY <1>1, MessageKinds DEF Writes, AboutDoc, ChangesCarryEdits
  <1>3. Result(m) \in Texts
    BY <1>2, AppliedForm DEF Result
  <1> QED BY <1>2, <1>3 DEF Texts

(* What the browser says is newer than all that was said before.            *)
LEMMA GrowthSpoken ==
    ASSUME TypeInv, TypeOK', Growth, NEW ms, Speaks(ms), \A d \in Docs : text[d] <= text'[d],
           UNCHANGED shown
    PROVE  Growth'
  <1>0. /\ text \in [Docs -> Nat] /\ shown \in [Docs -> Nat] /\ text' \in [Docs -> Nat]
    BY BoundsAreNat DEF TypeInv, TypeOK, Torn
  <1>1. /\ \A i \in DOMAIN toServer' : i \in DOMAIN toServer => toServer'[i] = toServer[i]
        /\ \A i \in DOMAIN toServer' : i \notin DOMAIN toServer =>
              i - Len(toServer) \in DOMAIN ms /\ toServer'[i] = ms[i - Len(toServer)]
    BY Added DEF TypeInv, TypeOK, Speaks
  <1>2. ASSUME NEW i \in DOMAIN toServer', Writes(toServer'[i])
        PROVE  /\ toServer'[i].doc \in Docs /\ Result(toServer'[i]) \in Nat
               /\ i \in DOMAIN toServer => /\ Writes(toServer[i])
                                           /\ shown[toServer[i].doc] <= Result(toServer[i])
                                           /\ Result(toServer[i]) <= text[toServer[i].doc]
               /\ i \notin DOMAIN toServer => Result(toServer'[i]) = text'[toServer'[i].doc]
    <2>1. CASE i \in DOMAIN toServer
      <3>1. toServer'[i] = toServer[i]
        BY <1>1, <2>1
      <3> QED BY <1>2, <2>1, <3>1, ResultIsText DEF TypeInv, Growth
    <2>2. CASE i \notin DOMAIN toServer
      <3>1. toServer'[i] \in Messages
        BY <1>2 DEF TypeOK
      <3>2. toServer'[i].doc \in Docs
        BY <1>2, <3>1, MessageKinds DEF Writes, AboutDoc
      <3>3. Result(toServer'[i]) = text'[toServer'[i].doc]
        BY <1>1, <1>2, <2>2 DEF Speaks
      <3> QED BY <1>0, <2>2, <3>2, <3>3
    <2> QED BY <2>1, <2>2
  <1>3. ASSUME NEW d \in Docs PROVE shown'[d] <= text'[d]
    <2>1. shown[d] <= text[d] /\ text[d] <= text'[d]
      BY DEF Growth
    <2> QED BY <1>0, <2>1
  <1>4. ASSUME NEW i \in DOMAIN toServer', Writes(toServer'[i])
        PROVE  /\ shown'[toServer'[i].doc] <= Result(toServer'[i])
               /\ Result(toServer'[i]) <= text'[toServer'[i].doc]
    <2> DEFINE d == toServer'[i].doc  n == Result(toServer'[i])
    <2>1. d \in Docs /\ n \in Nat
      BY <1>2, <1>4
    <2>2. CASE i \in DOMAIN toServer
      <3>1. shown[d] <= n /\ n <= text[d]
        BY <1>1, <1>2, <1>4, <2>2
      <3>2. text[d] <= text'[d]
        BY <2>1
      <3> QED BY <1>0, <2>1, <3>1, <3>2
    <2>3. CASE i \notin DOMAIN toServer
      <3>1. n = text'[d]
        BY <1>2, <1>4, <2>3
      <3>2. shown'[d] <= text'[d]
        BY <1>3, <2>1
      <3> QED BY <1>0, <2>1, <3>1, <3>2
    <2> QED BY <2>2, <2>3
  <1>5. ASSUME NEW i \in DOMAIN toServer', NEW j \in DOMAIN toServer', i < j,
               Writes(toServer'[i]), Writes(toServer'[j]), toServer'[i].doc = toServer'[j].doc
        PROVE  Result(toServer'[i]) <= Result(toServer'[j])
    <2>1. CASE j \in DOMAIN toServer
      <3>1. i \in DOMAIN toServer
        BY <1>5, <2>1 DEF TypeInv, TypeOK
      <3> QED BY <1>1, <1>5, <2>1, <3>1 DEF Growth
    <2>2. CASE j \notin DOMAIN toServer
      <3>1. Result(toServer'[j]) = text'[toServer'[j].doc]
        BY <1>2, <1>5, <2>2
      <3>2. Result(toServer'[i]) <= text'[toServer'[i].doc]
        BY <1>4, <1>5
      <3> QED BY <1>5, <3>1, <3>2
    <2> QED BY <2>1, <2>2
  <1> QED BY <1>3, <1>4, <1>5 DEF Growth

(* What is still under way after a delivery is newer than what was          *)
(* delivered.                                                               *)
LEMMA GrowthDelivered ==
    ASSUME TypeInv, Growth, toServer # <<>>, toServer' = Tail(toServer), UNCHANGED text,
           \/ UNCHANGED shown
           \/ /\ Writes(Head(toServer))
              /\ shown' = [shown EXCEPT ![Head(toServer).doc] = Result(Head(toServer))]
    PROVE  Growth'
  <1>0. /\ text \in [Docs -> Nat] /\ shown \in [Docs -> Nat]
    BY BoundsAreNat DEF TypeInv, TypeOK, Torn
  <1>1. /\ Head(toServer) = toServer[1] /\ 1 \in DOMAIN toServer
        /\ \A i \in DOMAIN toServer' : /\ i \in Nat \ {0} /\ i + 1 \in DOMAIN toServer
                                       /\ 1 < i + 1 /\ toServer'[i] = toServer[i + 1]
    <2>1. \A i \in DOMAIN Tail(toServer) : i \in Nat \ {0}
      BY DEF TypeInv, TypeOK
    <2> QED BY <2>1, Tailed DEF TypeInv, TypeOK
  <1> DEFINE m == toServer[1]
  <1>2. Writes(m) => m.doc \in Docs /\ Result(m) \in Nat /\ Result(m) <= text[m.doc]
    BY <1>1, ResultIsText DEF TypeInv, Growth
  <1>3. ASSUME NEW d \in Docs
        PROVE  shown'[d] = shown[d] \/ (Writes(m) /\ d = m.doc /\ shown'[d] = Result(m))
    BY <1>0, <1>1
  <1>4. ASSUME NEW d \in Docs PROVE shown'[d] <= text'[d]
    BY <1>2, <1>3 DEF Growth
  <1>5. ASSUME NEW i \in DOMAIN toServer', Writes(toServer'[i])
        PROVE  /\ shown'[toServer'[i].doc] <= Result(toServer'[i])
               /\ Result(toServer'[i]) <= text'[toServer'[i].doc]
    <2>1. i + 1 \in DOMAIN toServer /\ 1 < i + 1 /\ toServer'[i] = toServer[i + 1] /\ 1 \in DOMAIN toServer
      BY <1>1
    <2> DEFINE k == i + 1  d == toServer[k].doc
    <2>2. d \in Docs /\ shown[d] <= Result(toServer[k]) /\ Result(toServer[k]) <= text[d]
      BY <1>5, <2>1, ResultIsText DEF TypeInv, Growth
    <2>3. Writes(m) /\ d = m.doc => Result(m) <= Result(toServer[k])
      BY <1>5, <2>1 DEF Growth
    <2> QED BY <1>3, <2>1, <2>2, <2>3
  <1>6. ASSUME NEW i \in DOMAIN toServer', NEW j \in DOMAIN toServer', i < j,
               Writes(toServer'[i]), Writes(toServer'[j]), toServer'[i].doc = toServer'[j].doc
        PROVE  Result(toServer'[i]) <= Result(toServer'[j])
    <2>1. /\ i + 1 \in DOMAIN toServer /\ toServer'[i] = toServer[i + 1]
          /\ j + 1 \in DOMAIN toServer /\ toServer'[j] = toServer[j + 1] /\ i + 1 < j + 1
      BY <1>1, <1>6
    <2> QED BY <1>6, <2>1 DEF Growth
  <1> QED BY <1>4, <1>5, <1>6 DEF Growth

(* What a delivery has the server show: nothing new, or what the message    *)
(* carries.                                                                 *)
LEMMA DeliverShows ==
    ASSUME TypeInv, Path, Deliver
    PROVE  \/ UNCHANGED shown /\ (UNCHANGED copy \/ NoCopies
                                  \/ \E d \in Docs : copy' = [copy EXCEPT ![d] = 0])
           \/ LET m == Head(toServer) IN
              /\ Writes(m)
              /\ copy' = [copy EXCEPT ![m.doc] = Result(m)]
              /\ shown' = [shown EXCEPT ![m.doc] = Result(m)]
  <1> DEFINE m == Head(toServer)
  <1>1. /\ toServer # <<>> /\ m \in Messages
        /\ m.kind = "change" => m.edits # <<>>
        /\ DeliverStep(m)
    BY DeliverForm
  <1> HIDE DEF m
  <1>2. CASE m.kind \in Notifications
    <2>0. m.doc \in Docs
      BY <1>1, <1>2, MessageKinds DEF Notifications, AboutDoc
    <2>1. NotifyStep(m) /\ m.doc \in Docs
      BY <1>1, <1>2, <2>0 DEF DeliverStep, Notifications, Requests
    <2>2. CASE server = "ready" /\ Writes(m)
      <3>1. PICK c \in Copies : Reaches(copy, toServer, c)
        BY <2>2 DEF Path
      <3>2. PICK b \in Copies : Legal(copy, m, b) /\ Reaches(b, Tail(toServer), c)
        BY <1>1, <3>1, PathShifts DEF TypeInv, TypeOK, m
      <3> DEFINE n == IF m.kind = "open" THEN m.text ELSE Applied(copy[m.doc], m.edits)
      <3>3. n = Result(m)
        <4>1. CASE m.kind = "open"
          BY <4>1 DEF Result
        <4>2. CASE m.kind = "change"
          <5>1. m.edits \in Seq(Edits) /\ m.edits # <<>> /\ Fits(copy[m.doc], m.edits)
            BY <1>1, <3>2, <4>2, MessageKinds DEF Legal, AboutDoc
          <5> QED BY <4>2, <5>1, AppliedForm DEF Result
        <4> QED BY <2>2, <4>1, <4>2 DEF Writes
      <3>4. ~(m.kind = "change" /\ copy[m.doc] = 0)
        BY <3>2 DEF Legal
      <3>5. m.kind # "close"
        BY <2>2 DEF Writes
      <3>6. copy' = [copy EXCEPT ![m.doc] = n] /\ shown' = [shown EXCEPT ![m.doc] = n]
        BY <2>1, <2>2, <3>4, <3>5 DEF NotifyStep
      <3> QED BY <2>2, <3>3, <3>6 DEF m
    <2>3. CASE ~(server = "ready" /\ Writes(m))
      BY <2>1, <2>3 DEF NotifyStep
    <2> QED BY <2>2, <2>3
  <1>3. CASE m.kind \notin Notifications
    BY <1>1, <1>3 DEF DeliverStep, backend
  <1> QED BY <1>2, <1>3

(* The step of the mirror that a step of the system shows as.               *)
Moves == [Mirror!Next]_<<text, copy, shown>>

(* Every step of the browser shows as a text typed, or as nothing.          *)
LEMMA BrowserMoves ==
    ASSUME TypeInv,
           \/ \E d \in Docs : DocAction(d)
           \/ SendAsk \/ Activate \/ Deactivate \/ Receive
    PROVE  Moves
  <1>1. UNCHANGED <<copy, shown>>
    BY DocActionKeeps, SendAskKeeps
       DEF DocStep, AskStep, Activate, Deactivate, Receive, backend
  <1>2. \/ UNCHANGED text
        \/ \E d \in Docs : text[d] < MaxText /\ text' = [text EXCEPT ![d] = text[d] + 1]
    <2>1. CASE \E d \in Docs : DocAction(d)
      BY <2>1 DEF DocAction, OpenDocument, ChangeDocument, ReplaceDocument, CloseDocument,
                  DebounceFires, BeginAsk, BeginReformat, editor
    <2>2. CASE SendAsk \/ Activate \/ Deactivate
      BY <2>2 DEF SendAsk, Activate, Deactivate, editor
    <2>3. CASE Receive
      <3>1. ReceiveStep(Head(toBrowser))
        BY <2>3, ReceiveForm
      <3>2. CASE ApplyStep
        <4>1. CASE UNCHANGED <<editor, toServer>>
          BY <4>1 DEF editor
        <4>2. CASE ask.doc \in Docs /\ text[ask.doc] + 1 \in Texts
                   /\ ApplyChange(ask.doc, text[ask.doc] + 1)
          <5>1. text' = [text EXCEPT ![ask.doc] = text[ask.doc] + 1]
            BY <4>2 DEF ApplyChange
          <5>2. text[ask.doc] < MaxText
            BY <4>2, BoundsAreNat DEF Texts, TypeInv, TypeOK
          <5> QED BY <4>2, <5>1, <5>2
        <4> QED BY <3>2, <4>1, <4>2 DEF ApplyStep
      <3>3. CASE ~ApplyStep
        BY <3>1, <3>3 DEF ReceiveStep, StateStep, editor
      <3> QED BY <3>2, <3>3
    <2> QED BY <2>1, <2>2, <2>3
  <1>3. CASE UNCHANGED text
    BY <1>1, <1>3 DEF Moves
  <1>4. ASSUME NEW d \in Docs, text[d] < MaxText, text' = [text EXCEPT ![d] = text[d] + 1]
        PROVE  Mirror!Type(d)
    BY <1>1, <1>4 DEF Mirror!Type
  <1> QED BY <1>2, <1>3, <1>4 DEF Moves, Mirror!Next

(* A delivery shows as a copy that catches up, as copies dropped, or as     *)
(* nothing, and leaves the order of what is under way.                      *)
LEMMA DeliverMoves ==
    ASSUME TypeInv, Path, Growth, Deliver
    PROVE  Moves /\ Growth'
  <1> DEFINE m == toServer[1]
  <1>1. /\ toServer # <<>> /\ toServer' = Tail(toServer) /\ UNCHANGED text
        /\ Head(toServer) = m /\ 1 \in DOMAIN toServer
    BY DeliverForm DEF Browser, editor
  <1>2. \/ UNCHANGED shown /\ (UNCHANGED copy \/ NoCopies
                               \/ \E d \in Docs : copy' = [copy EXCEPT ![d] = 0])
        \/ /\ Writes(m)
           /\ copy' = [copy EXCEPT ![m.doc] = Result(m)]
           /\ shown' = [shown EXCEPT ![m.doc] = Result(m)]
    BY <1>1, DeliverShows
  <1>3. Growth'
    BY <1>1, <1>2, GrowthDelivered
  <1>4. CASE UNCHANGED shown /\ UNCHANGED copy
    BY <1>1, <1>3, <1>4 DEF Moves
  <1>5. CASE UNCHANGED shown /\ NoCopies
    <2>1. copy' = [d \in Docs |-> IF d \in Docs THEN 0 ELSE copy[d]]
      BY <1>5 DEF NoCopies
    <2>2. Mirror!Drop(Docs)
      BY <1>1, <1>5, <2>1 DEF Mirror!Drop
    <2> QED BY <1>3, <2>2 DEF Moves, Mirror!Next
  <1>6. ASSUME UNCHANGED shown, NEW d \in Docs, copy' = [copy EXCEPT ![d] = 0]
        PROVE  Moves
    <2>1. copy' = [e \in Docs |-> IF e \in {d} THEN 0 ELSE copy[e]]
      BY <1>6 DEF TypeInv, TypeOK
    <2>2. Mirror!Drop({d})
      BY <1>1, <1>6, <2>1 DEF Mirror!Drop
    <2> QED BY <2>2 DEF Moves, Mirror!Next
  <1>7. CASE /\ Writes(m)
             /\ copy' = [copy EXCEPT ![m.doc] = Result(m)]
             /\ shown' = [shown EXCEPT ![m.doc] = Result(m)]
    <2>1. m.doc \in Docs /\ Result(m) \in Texts /\ Result(m) \in Nat
      BY <1>1, <1>7, ResultIsText DEF TypeInv
    <2>2. shown[m.doc] <= Result(m) /\ Result(m) <= text[m.doc]
      BY <1>1, <1>7 DEF Growth
    <2>3. Result(m) \in 1..text[m.doc] /\ Result(m) >= shown[m.doc]
      BY <2>1, <2>2, BoundsAreNat DEF Texts, TypeInv, TypeOK, Torn
    <2>4. Mirror!CatchUp(m.doc)
      BY <1>1, <1>7, <2>3 DEF Mirror!CatchUp
    <2> QED BY <1>3, <2>1, <2>4 DEF Moves, Mirror!Next
  <1> QED BY <1>2, <1>3, <1>4, <1>5, <1>6, <1>7

(* Every step.                                                              *)
LEMMA GrowthStep ==
    ASSUME TypeInv, Path, Growth, [Next]_vars
    PROVE  Moves /\ Growth'
  <1>t. TypeOK'
    BY TypeStep DEF TypeInv
  <1>0. ASSUME UNCHANGED <<text, toServer, shown>> PROVE Growth'
    BY <1>0 DEF Growth
  <1>1. CASE \/ \E d \in Docs : DocAction(d)
             \/ SendAsk \/ Activate \/ Deactivate \/ Receive
    <2>1. Moves
      BY <1>1, BrowserMoves
    <2>2. \A d \in Docs : text[d] <= text[d]
      BY DEF TypeInv, TypeOK
    <2>3. /\ UNCHANGED shown /\ \A d \in Docs : text[d] <= text'[d]
          /\ \E ms : Speaks(ms)
      <3>1. CASE \E d \in Docs : DocAction(d)
        BY <3>1, DocActionKeeps DEF DocStep, backend
      <3>2. CASE SendAsk
        <4>1. AskStep
          BY <3>2, SendAskKeeps
        <4>2. \E ms : Speaks(ms)
          BY <4>1, Silent DEF AskStep, TypeInv
        <4> QED BY <2>2, <4>1, <4>2 DEF AskStep, editor, backend
      <3>3. CASE Activate \/ Deactivate
        <4>1. \E ms : Speaks(ms)
          BY <3>3, ActivateKeeps
        <4> QED BY <2>2, <3>3, <4>1 DEF Activate, Deactivate, editor, backend
      <3>4. CASE Receive
        BY <3>4, ReceiveForm DEF backend
      <3> QED BY <1>1, <3>1, <3>2, <3>3, <3>4
    <2> QED BY <1>t, <2>1, <2>3, GrowthSpoken
  <1>2. CASE Deliver
    BY <1>2, DeliverMoves
  <1>3. CASE ServerReady
    <2>1. UNCHANGED <<text, copy, shown, toServer>>
      BY <1>3 DEF ServerReady, editor
    <2> QED BY <1>0, <2>1 DEF Moves
  <1>4. CASE ServerCrash
    <2>1. UNCHANGED <<text, shown, toServer>> /\ NoCopies
      BY <1>4 DEF ServerCrash, editor
    <2>2. copy' = [d \in Docs |-> IF d \in Docs THEN 0 ELSE copy[d]]
      BY <2>1 DEF NoCopies
    <2>3. Mirror!Drop(Docs)
      BY <2>1, <2>2 DEF Mirror!Drop
    <2> QED BY <1>0, <2>1, <2>3 DEF Moves, Mirror!Next
  <1>5. CASE UNCHANGED vars
    BY <1>0, <1>5 DEF Moves, vars
  <1> QED BY <1>1, <1>2, <1>3, <1>4, <1>5 DEF Next, DocAction

-----------------------------------------------------------------------------
(* The inductive invariant and what follows from it.                        *)
SyncInv == TypeInv /\ OneCall /\ Belief /\ Path /\ Growth

(* It holds at first.                                                       *)
LEMMA SyncInit == Init => SyncInv
  <1> SUFFICES ASSUME Init PROVE SyncInv
    OBVIOUS
  <1>1. TypeInv
    BY TypeInit
  <1>2. OneCall
    BY DEF Init, OneCall
  <1>3. Belief
    BY DEF Init, Belief, StartingBelief, StartBelief, DownSaid, UpBelief, DownBelief, Ready, NoReadyAhead
  <1>4. Path
    BY DEF Init, Path
  <1>5. Growth
    BY DEF Init, Growth
  <1> QED BY <1>1, <1>2, <1>3, <1>4, <1>5 DEF SyncInv

(* Every step keeps it.                                                     *)
LEMMA SyncStep ==
    ASSUME SyncInv, [Next]_vars
    PROVE  SyncInv'
  BY TypeStep, OneCallStep, BeliefStep, PathStep, GrowthStep DEF SyncInv

(* It is an invariant.                                                      *)
LEMMA SyncAlways == Spec => []SyncInv
  BY SyncInit, SyncStep, PTL DEF Spec

(* The path starts at the copies as they are.                               *)
LEMMA PathHead ==
    ASSUME SyncInv, server = "ready"
    PROVE  /\ copy \in Copies
           /\ toServer # <<>> => \E b \in Copies : Legal(copy, Head(toServer), b)
  <1>1. PICK c \in Copies : Reaches(copy, toServer, c) /\ Current(c)
    BY DEF SyncInv, Path
  <1>2. copy \in Copies
    <2>1. Len(toServer) \in Nat
      BY DEF SyncInv, TypeInv, TypeOK
    <2>2. 0 \in 0..Len(toServer)
      BY <2>1
    <2> QED BY <1>1, <2>2 DEF Reaches
  <1>3. ASSUME toServer # <<>> PROVE \E b \in Copies : Legal(copy, Head(toServer), b)
    <2>1. PICK b \in Copies : Legal(copy, Head(toServer), b) /\ Reaches(b, Tail(toServer), c)
      BY <1>1, <1>3, PathShifts DEF SyncInv, TypeInv, TypeOK
    <2> QED BY <2>1
  <1> QED BY <1>2, <1>3

(* No range of a didChange is ever applied to another text than the one the *)
(* edit was made on: batches, drops, crashes and restarts included          *)
(* (flushChange, didChange).                                                *)
THEOREM CopiesStayWhole == Spec => []NoTornCopy
  <1>1. SyncInv => NoTornCopy
    <2>1. ASSUME SyncInv, server = "ready" PROVE NoTornCopy
      BY <2>1, PathHead, BoundsAreNat DEF NoTornCopy, Copies, Torn
    <2>2. ASSUME SyncInv, server # "ready" PROVE NoTornCopy
      BY <2>2, BoundsAreNat DEF SyncInv, Path, NoTornCopy, Torn
    <2> QED BY <2>1, <2>2
  <1> QED BY <1>1, SyncAlways, PTL

(* The notifications reach a server in the order of the protocol: no        *)
(* document is opened twice, and none is changed or closed that is not open *)
(* there (openSent, handleStateChange).                                     *)
THEOREM ProtocolKept == Spec => []InTurn
  <1>1. SyncInv => InTurn
    BY PathHead DEF InTurn, Legal
  <1> QED BY <1>1, SyncAlways, PTL

(* No completion and no format of a save is answered from a copy older than *)
(* the text on the screen when it was asked for (flushPending in            *)
(* provideCompletionItems and runSaveActions; the explicit format, which    *)
(* does not flush, has no part in it).                                      *)
THEOREM FreshWhenAsked == Spec => []AnswerIsFresh
  <1>1. SyncInv => AnswerIsFresh
    BY PathHead DEF AnswerIsFresh, Legal
  <1> QED BY <1>1, SyncAlways, PTL

(* Seen from the editor the server's copies mirror the documents: they lag, *)
(* they go with the process, and they never go back to an older text, not   *)
(* even after a restart (didOpen, didChange, handleStateChange).            *)
THEOREM MirrorsTheEditor == Spec => ImplementsMirror
  <1>1. Init => Mirror!Init
    BY DEF Init, Mirror!Init
  <1>2. SyncInv /\ [Next]_vars => [Mirror!Next]_<<text, copy, shown>>
    BY GrowthStep DEF SyncInv, Moves
  <1>3. Mirror!vars = <<text, copy, shown>>
    BY DEF Mirror!vars
  <1> QED BY <1>1, <1>2, SyncAlways, PTL DEF Spec, ImplementsMirror, Mirror!Spec, Mirror!vars
=============================================================================
