--------------------------- MODULE MCLanguageServer ---------------------------
(* Instances of LanguageServer for TLC.                                     *)
EXTENDS LanguageServer
=============================================================================
