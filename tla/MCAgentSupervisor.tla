--------------------------- MODULE MCAgentSupervisor ---------------------------
(* Instances of AgentSupervisor for TLC.                                    *)
EXTENDS AgentSupervisor
=============================================================================
