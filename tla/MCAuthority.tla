------------------------------ MODULE MCAuthority ------------------------------
(* Instances of Authority for TLC. *)
EXTENDS Authority, TLC

Symmetry == Permutations(Call)
===============================================================================
