----------------------------- MODULE MCEventHub -----------------------------
(* Instances of EventHub for TLC.  Publishers are interchangeable, and so   *)
(* are connections and workspaces; the sets are symmetric in runs that      *)
(* check no liveness.                                                       *)
EXTENDS EventHub, TLC

HubSymmetry == Permutations(Publishers) \cup Permutations(Subs)
=============================================================================
