------------------------------ MODULE MCLifetimes -----------------------------
(***************************************************************************)
(* A pool of eight slots behind bitmap words of two bits, with so few salts *)
(* that slots come round to a salt they had before.                         *)
(***************************************************************************)
EXTENDS Lifetimes
=============================================================================
