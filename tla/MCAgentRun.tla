----------------------------- MODULE MCAgentRun ------------------------------
(* Small instances of AgentRun for TLC. *)
EXTENDS AgentRun, TLC

Symmetry == Permutations(Runs) \cup Permutations(Users)
=============================================================================
