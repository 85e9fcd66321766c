----------------------------- MODULE DocumentSync -----------------------------
(***************************************************************************)
(* Keeping the Java language server's copies of the open documents equal   *)
(* to the editor's (src/packages/java-extension): the browser-side sync    *)
(* core (java-document-sync-core.ts) fed by the Monaco models              *)
(* (java-document-sync.ts), the part of the lifecycle that starts and      *)
(* stops the server (java-ls-lifecycle.ts), the requests that flush first  *)
(* (completion, and the format and organize-imports edits on save of       *)
(* java-save-actions.ts), the Format Document and Format Selection         *)
(* providers, which do not (java-monaco-registration.ts), and the          *)
(* backend's guard on what reaches the server (jdt-ls-manager.ts).  The    *)
(* browser and the backend exchange messages over one JSON-RPC connection, *)
(* in order in each direction.                                             *)
(*                                                                         *)
(* The texts a document goes through are numbered: an edit, and the text a *)
(* document is opened with, is number text[d].  A ranged edit only makes   *)
(* sense on the text just before its own.                                  *)
(***************************************************************************)
EXTENDS Naturals, Sequences, FiniteSets

CONSTANTS
    Docs,       \* uris of Java documents
    MaxText,    \* bound: texts per document
    MaxStarts,  \* bound: processes the backend starts
    MaxQueue    \* bound: messages under way when the user does something new

ASSUME DocsFinite == IsFiniteSet(Docs)
ASSUME BoundsAreNat == MaxText \in Nat /\ MaxStarts \in Nat /\ MaxQueue \in Nat

VARIABLES
    \* the editor and the sync core, in the browser
    open,       \* document -> a Java model of it exists, so the core tracks it
    text,       \* document -> number of its newest text (also the shadow text)
    pending,    \* document -> TrackedDocument.pendingChanges
    openSent,   \* document -> TrackedDocument.openSent
    timer,      \* document -> the debounce timer is armed
    known,      \* currentState: "none" before the first event, "ready" or "down"
    \* the requests about a document, and the lifecycle
    ask,        \* the completion, save action or explicit format under way
    session,    \* what the lifecycle's transition chain awaits
    \* the connection
    toServer,   \* calls on their way to the backend
    toBrowser,  \* state events and answers on their way back
    \* the backend
    server,     \* "down", "starting" or "ready"
    starts,     \* processes started so far
    copy,       \* document -> text of the server's copy, 0 when not open there
    shown       \* history: document -> newest text the server has ever had

editor == <<open, text, pending, openSent, timer>>
backend == <<server, starts, copy, shown>>
vars == <<open, text, pending, openSent, timer, known, ask, session,
          toServer, toBrowser, server, starts, copy, shown>>

(* What a copy becomes when ranges are applied to another text than theirs *)
Torn == MaxText + 1

Texts == 1..MaxText
Edits == [full : BOOLEAN, text : Texts]

Ranged(n) == [full |-> FALSE, text |-> n]
Whole(n) == [full |-> TRUE, text |-> n]

(* "format" and "organize" are save actions, "reformat" is the explicit    *)
(* Format Document or Format Selection.                                    *)
RequestKinds == {"complete", "format", "organize", "reformat"}

DocMessages == [kind : {"open"}, doc : Docs, text : Texts]
          \cup [kind : {"change"}, doc : Docs, edits : Seq(Edits)]
          \cup [kind : {"close"}, doc : Docs]
Messages == DocMessages
       \cup [kind : RequestKinds, doc : Docs, text : Texts]
       \cup [kind : {"fetch", "start", "stop", "quit"}]

Events == [kind : {"ready", "down", "started", "stopped"}]
     \cup [kind : {"state"}, running : BOOLEAN]
     \cup [kind : {"edits"}, text : 0..Torn]

NoAsk == [kind |-> "none"]
Asks == {NoAsk} \cup [kind : RequestKinds, doc : Docs, text : Texts,
                      sent : BOOLEAN, live : BOOLEAN]

TypeOK ==
    /\ open \in [Docs -> BOOLEAN]
    /\ text \in [Docs -> 0..MaxText]
    /\ pending \in [Docs -> Seq(Edits)]
    /\ openSent \in [Docs -> BOOLEAN]
    /\ timer \in [Docs -> BOOLEAN]
    /\ known \in {"none", "ready", "down"}
    /\ ask \in Asks
    /\ session \in {"idle", "fetching", "stopping", "starting", "dropped"}
    /\ toServer \in Seq(Messages)
    /\ toBrowser \in Seq(Events)
    /\ server \in {"down", "starting", "ready"}
    /\ starts \in 0..MaxStarts
    /\ copy \in [Docs -> 0..Torn]
    /\ shown \in [Docs -> 0..Torn]

Init ==
    /\ open = [d \in Docs |-> FALSE]
    /\ text = [d \in Docs |-> 0]
    /\ pending = [d \in Docs |-> <<>>]
    /\ openSent = [d \in Docs |-> FALSE]
    /\ timer = [d \in Docs |-> FALSE]
    /\ known = "none"
    /\ ask = NoAsk
    /\ session = "idle"
    /\ toServer = <<>>
    /\ toBrowser = <<>>
    /\ server = "down"
    /\ starts = 0
    /\ copy = [d \in Docs |-> 0]
    /\ shown = [d \in Docs |-> 0]

Room == Len(toServer) < MaxQueue

Send(messages) == toServer' = toServer \o messages
Event(kind) == [kind |-> kind]

-----------------------------------------------------------------------------
(* The sync core                                                           *)

OpenMessage(d, n) == [kind |-> "open", doc |-> d, text |-> n]
ChangeMessage(d, edits) == [kind |-> "change", doc |-> d, edits |-> edits]

(* flushOpen and flushChange for document d at text n with pending edits.  *)
FlushMessages(d, n, edits) ==
    IF known # "ready" THEN <<>>
    ELSE IF ~openSent[d] THEN <<OpenMessage(d, n)>>
    ELSE <<ChangeMessage(d, IF edits = <<>> THEN <<Whole(n)>> ELSE edits)>>

(* A flush that sends something leaves nothing pending.                    *)
AfterFlushBug(edits) == edits  \* sent edits stay pending
AfterFlush(edits) == IF known = "ready" THEN <<>> ELSE edits

OpenedAfterFlush(d) == openSent[d] \/ known = "ready"

(* attachModel / openDocument: a Java model appears, with a text of its    *)
(* own.  Its didOpen goes out only to a server known to be ready.          *)
OpenDocument(d) ==
    /\ Room /\ ~open[d] /\ text[d] < MaxText
    /\ open' = [open EXCEPT ![d] = TRUE]
    /\ text' = [text EXCEPT ![d] = @ + 1]
    /\ pending' = [pending EXCEPT ![d] = <<>>]
    /\ timer' = [timer EXCEPT ![d] = FALSE]
    /\ openSent' = [openSent EXCEPT ![d] = known = "ready"]
    /\ IF known = "ready" THEN Send(<<OpenMessage(d, text[d] + 1)>>) ELSE UNCHANGED toServer
    /\ UNCHANGED <<known, ask, session, toBrowser, backend>>

(* changeDocumentIncremental: the edit joins the pending ones and arms the *)
(* debounce timer again.                                                   *)
ChangeDocument(d) ==
    /\ Room /\ open[d] /\ text[d] < MaxText
    /\ text' = [text EXCEPT ![d] = @ + 1]
    /\ pending' = [pending EXCEPT ![d] = Append(@, Ranged(text[d] + 1))]
    /\ timer' = [timer EXCEPT ![d] = TRUE]
    /\ UNCHANGED <<open, openSent, known, ask, session, toServer, toBrowser, backend>>

(* changeDocument, the full-text path: replaces what is pending.           *)
ReplaceDocument(d) ==
    /\ Room /\ open[d] /\ text[d] < MaxText
    /\ text' = [text EXCEPT ![d] = @ + 1]
    /\ pending' = [pending EXCEPT ![d] = <<Whole(text[d] + 1)>>]
    /\ timer' = [timer EXCEPT ![d] = TRUE]
    /\ UNCHANGED <<open, openSent, known, ask, session, toServer, toBrowser, backend>>

(* closeDocument: only a document whose didOpen went out is closed, and    *)
(* only at a server known to be ready.  An action under way on the         *)
(* document loses its editor.                                              *)
CloseDocument(d) ==
    /\ Room /\ open[d]
    /\ open' = [open EXCEPT ![d] = FALSE]
    /\ pending' = [pending EXCEPT ![d] = <<>>]
    /\ timer' = [timer EXCEPT ![d] = FALSE]
    /\ openSent' = [openSent EXCEPT ![d] = FALSE]
    /\ IF openSent[d] /\ known = "ready"
       THEN Send(<<[kind |-> "close", doc |-> d]>>)
       ELSE UNCHANGED toServer
    /\ ask' = IF ask # NoAsk /\ ask.doc = d THEN [ask EXCEPT !.live = FALSE] ELSE ask
    /\ UNCHANGED <<text, known, session, toBrowser, backend>>

(* scheduleFlush's timer.                                                  *)
DebounceFires(d) ==
    /\ timer[d]
    /\ timer' = [timer EXCEPT ![d] = FALSE]
    /\ Send(FlushMessages(d, text[d], pending[d]))
    /\ pending' = [pending EXCEPT ![d] = AfterFlush(@)]
    /\ openSent' = [openSent EXCEPT ![d] = OpenedAfterFlush(d)]
    /\ UNCHANGED <<open, text, known, ask, session, toBrowser, backend>>

(* flushPending: the same at once, when the timer is armed.                *)
FlushPendingBug(d) == UNCHANGED <<timer, pending, openSent, toServer>>  \* a no-op
FlushPending(d) ==
    IF timer[d]
    THEN /\ timer' = [timer EXCEPT ![d] = FALSE]
         /\ Send(FlushMessages(d, text[d], pending[d]))
         /\ pending' = [pending EXCEPT ![d] = AfterFlush(@)]
         /\ openSent' = [openSent EXCEPT ![d] = OpenedAfterFlush(d)]
    ELSE UNCHANGED <<timer, pending, openSent, toServer>>

-----------------------------------------------------------------------------
(* Requests about a document                                               *)

(* provideCompletionItems, runSaveActions: flush, then probe the server's  *)
(* state (fetchStateQuick, whenReady) before the request itself is sent.   *)
BeginAsk(d, kind) ==
    /\ Room /\ open[d] /\ ask = NoAsk
    /\ FlushPending(d)
    /\ ask' = [kind |-> kind, doc |-> d, text |-> text[d], sent |-> FALSE, live |-> TRUE]
    /\ UNCHANGED <<open, text, known, session, toBrowser, backend>>

(* provideDocumentFormattingEdits, provideDocumentRangeFormattingEdits: no *)
(* flush, so the server may compute the edits from an older copy.          *)
BeginReformat(d) ==
    /\ Room /\ open[d] /\ ask = NoAsk
    /\ ask' = [kind |-> "reformat", doc |-> d, text |-> text[d], sent |-> FALSE, live |-> TRUE]
    /\ UNCHANGED <<editor, known, session, toServer, toBrowser, backend>>

(* The save action that follows a format, unless it is switched off.       *)
AfterFormat(d, n) ==
    \/ ask' = NoAsk
    \/ ask' = [kind |-> "organize", doc |-> d, text |-> n, sent |-> FALSE, live |-> ask.live]

(* The probe has answered.  Its answer follows the state events before it, *)
(* so it says what the browser already knows.                              *)
SendAsk ==
    /\ ask # NoAsk /\ ~ask.sent
    /\ \/ /\ known = "ready"
          /\ Send(<<[kind |-> ask.kind, doc |-> ask.doc, text |-> ask.text]>>)
          /\ ask' = IF ask.kind = "complete" THEN NoAsk ELSE [ask EXCEPT !.sent = TRUE]
       \/ /\ known # "ready"
          /\ IF ask.kind = "format" THEN AfterFormat(ask.doc, ask.text) ELSE ask' = NoAsk
          /\ UNCHANGED toServer
    /\ UNCHANGED <<editor, known, session, toBrowser, backend>>

(* applyEdits on save: the answer's edits go into the buffer as it is now. *)
(* After a format the result is flushed for organize imports to see; the   *)
(* edits of organize imports wait for the timer.  Those of an explicit     *)
(* format do too, and are dropped when the token was cancelled: Monaco     *)
(* cancels it when the model changes or goes.                              *)
ApplyEdits(edits) ==
    LET d == ask.doc
        n == text[d] + 1
        edited == Append(pending[d], Ranged(n))
        cancelled == ask.kind = "reformat" /\ text[d] # ask.text
    IN IF edits.text # 0 /\ ask.live /\ ~cancelled /\ text[d] < MaxText
       THEN /\ text' = [text EXCEPT ![d] = n]
            /\ IF ask.kind = "format"
               THEN /\ Send(FlushMessages(d, n, edited))
                    /\ pending' = [pending EXCEPT ![d] = AfterFlush(edited)]
                    /\ openSent' = [openSent EXCEPT ![d] = OpenedAfterFlush(d)]
                    /\ timer' = [timer EXCEPT ![d] = FALSE]
                    /\ AfterFormat(d, n)
               ELSE /\ pending' = [pending EXCEPT ![d] = edited]
                    /\ timer' = [timer EXCEPT ![d] = TRUE]
                    /\ ask' = NoAsk
                    /\ UNCHANGED <<openSent, toServer>>
            /\ UNCHANGED open
       ELSE /\ IF ask.kind = "format" THEN AfterFormat(d, ask.text) ELSE ask' = NoAsk
            /\ UNCHANGED <<editor, toServer>>

-----------------------------------------------------------------------------
(* The lifecycle, as far as it decides when a server starts or stops       *)

(* startLanguageClientNow, on a project change or a scheduled restart: the *)
(* transition chain lets one run at a time, and it looks before it acts.   *)
Activate ==
    /\ Room /\ session = "idle"
    /\ session' = "fetching"
    /\ Send(<<Event("fetch")>>)
    /\ UNCHANGED <<editor, known, ask, toBrowser, backend>>

(* deactivate, outside the chain: a run that has not sent its start yet    *)
(* finds its activation token outdated and gives up.                       *)
Deactivate ==
    /\ Room
    /\ session' = IF session \in {"fetching", "stopping"} THEN "dropped" ELSE session
    /\ Send(<<Event("quit")>>)
    /\ UNCHANGED <<editor, known, ask, toBrowser, backend>>

(* The chain's next step on an answer of the backend.                      *)
Continue(next, call) ==
    /\ session' = next
    /\ Send(<<Event(call)>>)

-----------------------------------------------------------------------------
(* Messages to the browser                                                 *)

Orders(S) == {o \in [1..Cardinality(S) -> S] : \A i, j \in DOMAIN o : o[i] = o[j] => i = j}

Unsent == {d \in Docs : open[d] /\ ~openSent[d]}

(* handleStateChange: on ready, didOpen for every document not yet open    *)
(* there; on anything else no document counts as open any more.            *)
StateEventBug(kind) ==  \* didOpen on ready leaves the pending edits
    /\ known' = kind
    /\ IF kind = "ready"
       THEN /\ \E o \in Orders(Unsent) :
                  Send([i \in DOMAIN o |-> OpenMessage(o[i], text[o[i]])])
            /\ openSent' = [d \in Docs |-> open[d]]
       ELSE /\ openSent' = [d \in Docs |-> FALSE]
            /\ UNCHANGED toServer
    /\ UNCHANGED <<open, text, timer, ask, session, pending>>
StateEventForgets(kind) ==  \* documents stay marked as open when the server goes
    /\ known' = kind
    /\ IF kind = "ready"
       THEN /\ \E o \in Orders(Unsent) :
                  Send([i \in DOMAIN o |-> OpenMessage(o[i], text[o[i]])])
            /\ openSent' = [d \in Docs |-> open[d]]
            /\ pending' = [d \in Docs |-> IF d \in Unsent THEN <<>> ELSE pending[d]]
       ELSE UNCHANGED <<toServer, pending, openSent>>
    /\ UNCHANGED <<open, text, timer, ask, session>>
StateEvent(kind) ==
    /\ known' = kind
    /\ IF kind = "ready"
       THEN /\ \E o \in Orders(Unsent) :
                  Send([i \in DOMAIN o |-> OpenMessage(o[i], text[o[i]])])
            /\ openSent' = [d \in Docs |-> open[d]]
            /\ pending' = [d \in Docs |-> IF d \in Unsent THEN <<>> ELSE pending[d]]
       ELSE /\ openSent' = [d \in Docs |-> FALSE]
            /\ UNCHANGED <<toServer, pending>>
    /\ UNCHANGED <<open, text, timer, ask, session>>

Answer(e) ==
    \/ /\ e.kind = "state" /\ session = "fetching"
       /\ IF e.running THEN Continue("stopping", "stop") \/ (session' = "idle" /\ UNCHANGED toServer)
          ELSE Continue("starting", "start")
    \/ /\ e.kind = "stopped" /\ session = "stopping"
       /\ Continue("starting", "start")
    \/ /\ \/ e.kind \in {"state", "stopped"} /\ session = "dropped"
          \/ e.kind = "started"
       /\ session' = "idle"
       /\ UNCHANGED toServer

Receive ==
    /\ toBrowser # <<>>
    /\ toBrowser' = Tail(toBrowser)
    /\ LET e == Head(toBrowser) IN
          \/ e.kind \in {"ready", "down"} /\ StateEvent(e.kind)
          \/ e.kind = "edits" /\ ApplyEdits(e) /\ UNCHANGED <<known, session>>
          \/ e.kind \in {"state", "stopped", "started"} /\ Answer(e)
             /\ UNCHANGED <<editor, known, ask>>
    /\ UNCHANGED backend

-----------------------------------------------------------------------------
(* The backend                                                             *)

NoCopies == copy' = [d \in Docs |-> 0]

Fits(base, edits) ==
    \A i \in DOMAIN edits :
        edits[i].full \/ edits[i].text = (IF i = 1 THEN base ELSE edits[i - 1].text) + 1

Applied(base, edits) == IF Fits(base, edits) THEN edits[Len(edits)].text ELSE Torn

HasNow(d, n) == /\ copy' = [copy EXCEPT ![d] = n]
                /\ shown' = [shown EXCEPT ![d] = n]
                /\ UNCHANGED <<server, starts, toBrowser>>

(* didOpen, didChange, didClose of the manager: dropped unless ready.  The *)
(* server itself ignores a change of a document it does not have.          *)
DidOpen(m) == HasNow(m.doc, m.text)
DidChange(m) == IF copy[m.doc] = 0 THEN UNCHANGED <<backend, toBrowser>>
                ELSE HasNow(m.doc, Applied(copy[m.doc], m.edits))
DidClose(m) == /\ copy' = [copy EXCEPT ![m.doc] = 0]
               /\ UNCHANGED <<server, starts, shown, toBrowser>>

Notify(m) ==
    \/ /\ server = "ready"
       /\ \/ m.kind = "open" /\ DidOpen(m)
          \/ m.kind = "change" /\ DidChange(m)
          \/ m.kind = "close" /\ DidClose(m)
    \/ /\ server # "ready"
       /\ UNCHANGED <<backend, toBrowser>>

(* A request: answered from the copy, with no edits when there is nothing  *)
(* to do or the document is not open, rejected unless ready.               *)
Serve(m) ==
    /\ IF m.kind = "complete" THEN UNCHANGED toBrowser
       ELSE \E n \in (IF server = "ready" THEN {0, copy[m.doc]} ELSE {0}) :
               toBrowser' = Append(toBrowser, [kind |-> "edits", text |-> n])
    /\ UNCHANGED backend

StopServer(answer) ==
    /\ \/ /\ server = "starting"  \* the install is still being resolved: not seen
          /\ toBrowser' = toBrowser \o answer
          /\ UNCHANGED <<server, copy>>
       \/ /\ server # "down"
          /\ server' = "down"
          /\ NoCopies
          /\ toBrowser' = toBrowser \o <<Event("down")>>
                \o (IF server = "starting" THEN <<Event("started")>> ELSE <<>>) \o answer
       \/ /\ server = "down"
          /\ toBrowser' = toBrowser \o answer
          /\ UNCHANGED <<server, copy>>
    /\ UNCHANGED <<starts, shown>>

StartServer ==
    /\ \/ /\ server # "down"
          /\ toBrowser' = Append(toBrowser, Event("started"))
          /\ UNCHANGED <<server, starts>>
       \/ /\ server = "down" /\ starts < MaxStarts
          /\ server' = "starting"
          /\ starts' = starts + 1
          /\ toBrowser' = Append(toBrowser, Event("down"))
       \/ /\ server = "down"  \* no installation found
          /\ toBrowser' = toBrowser \o <<Event("down"), Event("started")>>
          /\ UNCHANGED <<server, starts>>
    /\ UNCHANGED <<copy, shown>>

FetchState ==
    /\ toBrowser' = Append(toBrowser, [kind |-> "state", running |-> server # "down"])
    /\ UNCHANGED backend

Deliver ==
    /\ toServer # <<>>
    /\ toServer' = Tail(toServer)
    /\ LET m == Head(toServer) IN
          \/ m.kind \in {"open", "change", "close"} /\ Notify(m)
          \/ m.kind \in RequestKinds /\ Serve(m)
          \/ m.kind = "fetch" /\ FetchState
          \/ m.kind = "start" /\ StartServer
          \/ m.kind = "stop" /\ StopServer(<<Event("stopped")>>)
          \/ m.kind = "quit" /\ StopServer(<<>>)
    /\ UNCHANGED <<editor, known, ask, session>>

(* initialize succeeds: the state event, the same once more for the        *)
(* initialized event, then the answer to start.                            *)
ServerReady ==
    /\ server = "starting"
    /\ server' = "ready"
    /\ toBrowser' = toBrowser \o <<Event("ready"), Event("ready"), Event("started")>>
    /\ UNCHANGED <<editor, known, ask, session, toServer, starts, copy, shown>>

(* The process exits by itself, or initialize fails or times out.          *)
ServerCrash ==
    /\ server # "down"
    /\ server' = "down"
    /\ NoCopies
    /\ toBrowser' = toBrowser \o <<Event("down")>>
          \o (IF server = "starting" THEN <<Event("started")>> ELSE <<>>)
    /\ UNCHANGED <<editor, known, ask, session, toServer, starts, shown>>

-----------------------------------------------------------------------------
Next ==
    \/ \E d \in Docs :
          \/ OpenDocument(d) \/ ChangeDocument(d) \/ ReplaceDocument(d)
          \/ CloseDocument(d) \/ DebounceFires(d) \/ BeginReformat(d)
          \/ \E kind \in {"complete", "format", "organize"} : BeginAsk(d, kind)
    \/ SendAsk \/ Activate \/ Deactivate
    \/ Receive \/ Deliver
    \/ ServerReady \/ ServerCrash

Spec == Init /\ [][Next]_vars

(* The connection delivers, the timers fire, the probe is answered and     *)
(* initialize ends, one way or the other.  The user owes nothing.          *)
FairSync ==
    /\ Spec
    /\ WF_vars(Deliver) /\ WF_vars(Receive) /\ WF_vars(SendAsk)
    /\ WF_vars(server = "starting" /\ (ServerReady \/ ServerCrash))
    /\ \A d \in Docs : WF_vars(DebounceFires(d))

-----------------------------------------------------------------------------
(* Properties                                                              *)

(* No range of a didChange is ever applied to another text than the one    *)
(* the edit was made on, although changes are batched behind a timer, sent *)
(* to a server that may have crashed or been restarted meanwhile, and      *)
(* dropped by a backend that is not ready (flushChange, didChange).        *)
NoTornCopy == \A d \in Docs : copy[d] # Torn

(* didOpen, didChange and didClose reach a server in protocol order: none  *)
(* opens a document the server has open, none changes or closes one it     *)
(* has not, whichever state events are still under way (openSent).         *)
InTurn ==
    server = "ready" /\ toServer # <<>> =>
        LET m == Head(toServer) IN
        /\ m.kind = "open" => copy[m.doc] = 0
        /\ m.kind \in {"change", "close"} => copy[m.doc] # 0

(* A completion or a save's format is never answered from a copy older     *)
(* than the text on the screen when it was asked for: what flushPending in *)
(* provideCompletionItems and runSaveActions is for.  Nothing of the kind  *)
(* holds of the explicit format ("reformat"), which does not flush, nor of *)
(* organize imports after a format whose edits came too late.              *)
AnswerIsFresh ==
    server = "ready" /\ toServer # <<>> =>
        LET m == Head(toServer) IN
        m.kind \in {"complete", "format"} => copy[m.doc] = 0 \/ copy[m.doc] >= m.text

(* Seen from the editor the server's copies are a mirror of the documents  *)
(* that lags but never goes back, not even across a restart.               *)
Mirror == INSTANCE DocumentMirror WITH mirror <- copy
ImplementsMirror == Mirror!Spec

(* Once the user is done and the server stays up, its copies are the       *)
(* documents: the same texts of the same open documents (handleStateChange *)
(* sends again what a crash or an early edit lost).                        *)
Agrees == server = "ready" => \A d \in Docs : copy[d] = IF open[d] THEN text[d] ELSE 0
Converges == <>[]Agrees
=============================================================================
