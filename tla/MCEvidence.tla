------------------------------ MODULE MCEvidence ------------------------------
(* Instances of Evidence for TLC. *)
EXTENDS Evidence, TLC

Symmetry == Permutations(Call)
===============================================================================
