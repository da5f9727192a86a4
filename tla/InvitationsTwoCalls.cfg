\* Two concurrent requests over the founder and one invited user.
SPECIFICATION Spec
CONSTANTS
  Call = {c1, c2}
  User = {founder, invitee}
  Invitee = {invitee}
  Founder = founder
  Moderator = {}
  RoleInUse = {"ADMIN", "MEMBER"}
  MaxInvitations = 2
SYMMETRY Symmetry
INVARIANTS
  OnlyNewestPends
  AuditAgrees
