\* A pending write meets a transfer.
SPECIFICATION Spec
CONSTANTS
  Call = {c1, c2}
  User = {founder, u1, steward}
  Founder = founder
  Moderator = {steward}
  RoleInUse = {"OWNER", "ADMIN", "MEMBER"}
  MaxTrail = 2
SYMMETRY Symmetry
INVARIANTS
  OwnerRemains
