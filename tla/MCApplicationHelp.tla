--------------------------- MODULE MCApplicationHelp ---------------------------
(* Instances of ApplicationHelp for TLC. *)
EXTENDS ApplicationHelp, TLC

Symmetry == Permutations(Call) \cup Permutations(Resp)
===============================================================================
