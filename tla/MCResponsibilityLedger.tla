------------------------ MODULE MCResponsibilityLedger ------------------------
(* A small instance of ResponsibilityLedger for TLC.  Rows and calls are   *)
(* interchangeable, so TLC may permute them where no property is temporal  *)
(* with fairness.                                                          *)
EXTENDS ResponsibilityLedger, TLC

Symmetry == Permutations(Call) \cup Permutations(Resp)
===============================================================================
