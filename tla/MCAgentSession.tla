--------------------------- MODULE MCAgentSession ---------------------------
(* Small instances of AgentSession for TLC.                                *)
EXTENDS AgentSession, TLC

Symmetry == Permutations(Calls) \cup Permutations(Workers)
=============================================================================
