----------------------------- MODULE MCAgentEvents -----------------------------
(* Instances of AgentEvents for TLC.                                        *)
EXTENDS AgentEvents
=============================================================================
