-------------------------- MODULE MCServerRunner --------------------------
(* Instances of ServerRunner for TLC.                                       *)
EXTENDS ServerRunner, TLC

RunnerSymmetry == Permutations(Servers) \cup Permutations(Ops)
                  \cup Permutations(Ports)
=============================================================================
