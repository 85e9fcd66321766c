---------------------------- MODULE MCBuildEngine ----------------------------
(* Instances of BuildEngine for TLC.                                        *)
EXTENDS BuildEngine, TLC

EngineSymmetry == Permutations(Builds) \cup Permutations(Cancellers)
=============================================================================
