-------------------------- MODULE MCClientSession --------------------------
(* Clients, sockets, messages and session objects are interchangeable.       *)
EXTENDS ClientSession, TLC

Symmetry == Permutations(Sockets) \cup Permutations(Messages) \cup Permutations(Sessions)
=============================================================================
