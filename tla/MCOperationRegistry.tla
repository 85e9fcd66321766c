------------------------ MODULE MCOperationRegistry ------------------------
(* Instances of OperationRegistry for TLC.                                  *)
EXTENDS OperationRegistry, TLC

RegistrySymmetry == Permutations(Requests) \cup Permutations(Keys) \cup Permutations(Payloads)
=============================================================================
