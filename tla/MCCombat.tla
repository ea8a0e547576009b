------------------------------ MODULE MCCombat ------------------------------
(* Model checking of Combat. *)
EXTENDS Combat, TLC

Symmetry == Permutations(Statuses)
=============================================================================
