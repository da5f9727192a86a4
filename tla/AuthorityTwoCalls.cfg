\* Two concurrent requests about a permission of the organization and one of a person.
SPECIFICATION Spec
CONSTANTS
  Call = {c1, c2}
  Person = {m, u}
  Subject = m
  Permission = {own, business}
  OrganizationOwned = {business}
  NoOwner = NoOwner
  Never = Never
  Expiry = {Never, 1}
  MaxRequests = 2
  MaxTime = 1
SYMMETRY Symmetry
INVARIANTS
  DecisionsAreRecorded
PROPERTIES
  ApprovalIsCurrent
  RevokedIsGone
  ImplementsGate
