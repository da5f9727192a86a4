---------------------- MODULE MCOrganizationInvitations ----------------------
(* Small instances of OrganizationInvitations: calls are interchangeable.  *)
EXTENDS OrganizationInvitations, TLC

Symmetry == Permutations(Call)
===============================================================================
