--------------------------- MODULE MCAgentSession ---------------------------
(* Instances of AgentSession for TLC. *)
EXTENDS AgentSession, TLC

CONSTANTS r1, r2

Symmetric == Permutations(Requests)

=============================================================================
