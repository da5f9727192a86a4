------------------------ MODULE MCOrganizationMembers ------------------------
(* Small instances of OrganizationMembers: calls are interchangeable, and  *)
(* so are the users who neither founded the organization nor moderate.     *)
EXTENDS OrganizationMembers, TLC

Symmetry == Permutations(Call) \cup Permutations(User \ ({Founder} \cup Moderator))
===============================================================================
