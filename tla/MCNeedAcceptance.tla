--------------------------- MODULE MCNeedAcceptance ---------------------------
(* Small instances of NeedAcceptance: calls, rows and needs are            *)
(* interchangeable.                                                        *)
EXTENDS NeedAcceptance, TLC

Symmetry == Permutations(Call) \cup Permutations(Resp) \cup Permutations(Need)
===============================================================================
