----------------------- MODULE MCBusinessCommunications -----------------------
(* Small instances of BusinessCommunications.  Calls, users, rows and keys *)
(* are interchangeable.                                                    *)
EXTENDS BusinessCommunications, TLC

Symmetry == Permutations(Call) \cup Permutations(User) \cup
            Permutations(Resp) \cup Permutations(Key)
===============================================================================
