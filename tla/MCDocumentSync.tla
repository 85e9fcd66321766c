---------------------------- MODULE MCDocumentSync ----------------------------
(* Instances of DocumentSync for TLC.                                       *)
EXTENDS DocumentSync
=============================================================================
