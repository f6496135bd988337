---------------------------- MODULE MCAgentCache ----------------------------
(* An instance of AgentCache for TLC. *)
EXTENDS AgentCache

CONSTANTS c1, c2, h1, h2

TwoCallers == {c1, c2}
TwoThreads == {h1, h2}
=============================================================================
