----------------------------- MODULE BuildLedger -----------------------------
(***************************************************************************)
(* What the build engine promises the readers of its list of builds        *)
(* (api.BuildEngine, Get and List): a build only ever moves forward, from  *)
(* queued over running to one final state, the list stays bounded, and a   *)
(* build leaves it only to make room for a newer one.  Neither the         *)
(* interleaving of requests nor a restart of the agent shows.              *)
(***************************************************************************)
EXTENDS Integers, FiniteSets

CONSTANTS
    Builds,  \* build ids
    Keep     \* most builds in the list

VARIABLE seen  \* build -> what a reader finds under its id

Final == {"success", "failure", "cancelled"}
Listable == {"queued", "running"} \cup Final

Listed(f) == {b \in Builds : f[b] \in Listable}

Init == seen = [b \in Builds |-> "unknown"]

Follows(from, to) == \/ from = "unknown" /\ to = "queued"
                     \/ from = "queued" /\ to = "running"
                     \/ from = "running" /\ to \in Final

(* One build moves; if that makes the list too long, others drop out of it *)
(* (or the new one itself does).                                           *)
Move(b, to, gone) ==
    /\ Follows(seen[b], to)
    /\ gone \subseteq Listed(seen) \cup {b}
    /\ gone # {} => seen[b] = "unknown" /\ Cardinality(Listed(seen) \cup {b}) > Keep
    /\ seen' = [x \in Builds |->
                  IF x \in gone THEN "forgotten" ELSE IF x = b THEN to ELSE seen[x]]
    /\ Cardinality(Listed(seen')) <= Keep

Next == \E b \in Builds, to \in Listable, gone \in SUBSET Builds : Move(b, to, gone)

Spec == Init /\ [][Next]_seen
=============================================================================
