----------------------------- MODULE MCAgentRun -----------------------------
(* Instances of AgentRun: every part enabled, with and without the cycle   *)
(* on start.                                                               *)
EXTENDS AgentRun
=============================================================================
