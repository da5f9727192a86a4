\* Two concurrent requests over the founder, a user and a moderator.
SPECIFICATION Spec
CONSTANTS
  Call = {c1, c2}
  User = {founder, u1, steward}
  Founder = founder
  Moderator = {steward}
  RoleInUse = {"OWNER", "ADMIN", "MEMBER"}
  MaxTrail = 2
SYMMETRY Symmetry
INVARIANTS
  OwnerIsTitled
  TitlePassesOn
