-------------------------- MODULE MCPeopleResolution --------------------------
(* Small instances of PeopleResolution: one need with one row.  Calls and  *)
(* resources are interchangeable.                                          *)
EXTENDS PeopleResolution, TLC

Symmetry == Permutations(Call) \cup Permutations(Resource)
===============================================================================
