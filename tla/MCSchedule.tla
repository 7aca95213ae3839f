----------------------------- MODULE MCSchedule -----------------------------
(* Calls of the timer are interchangeable.                                  *)
EXTENDS Schedule, TLC

Symmetry == Permutations(Ticks)
=============================================================================
