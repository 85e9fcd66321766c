---------------------------- MODULE DocumentMirror ----------------------------
(***************************************************************************)
(* What the editor may rely on about the copies the language server keeps  *)
(* of the open Java documents: a copy is always some text the document     *)
(* really had, and no copy is ever older than one the server has shown     *)
(* before, not even across a close and a reopen or across a restart of     *)
(* the server, which takes every copy with it.  Batching, buffering,       *)
(* crashes and the two channels in between do not show.                    *)
(***************************************************************************)
EXTENDS Naturals

CONSTANTS
    Docs,     \* document uris
    MaxText   \* a document has texts 1..MaxText, numbered as they arise

VARIABLES
    text,     \* document -> number of its newest text
    mirror,   \* document -> text of the server's copy, 0 when it has none
    shown     \* document -> newest text the server has ever had

vars == <<text, mirror, shown>>

Init == /\ text = [d \in Docs |-> 0]
        /\ mirror = [d \in Docs |-> 0]
        /\ shown = [d \in Docs |-> 0]

(* The user opens the document, or changes it.                             *)
Type(d) == /\ text[d] < MaxText
           /\ text' = [text EXCEPT ![d] = @ + 1]
           /\ UNCHANGED <<mirror, shown>>

(* A copy appears, or moves on by any number of texts.                     *)
CatchUp(d) == \E t \in 1..text[d] :
                 /\ t >= shown[d]
                 /\ mirror' = [mirror EXCEPT ![d] = t]
                 /\ shown' = [shown EXCEPT ![d] = t]
                 /\ UNCHANGED text

Drop(gone) == /\ mirror' = [d \in Docs |-> IF d \in gone THEN 0 ELSE mirror[d]]
              /\ UNCHANGED <<text, shown>>

Next == \/ \E d \in Docs : Type(d) \/ CatchUp(d)
        \/ \E gone \in SUBSET Docs : Drop(gone)

Spec == Init /\ [][Next]_vars
=============================================================================
