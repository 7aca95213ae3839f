--------------------------- MODULE MCAgentStorage ---------------------------
(* AgentStorage on small instances: calls are interchangeable. *)
EXTENDS AgentStorage, TLC

CallSymmetry == Permutations(Calls)
=============================================================================
