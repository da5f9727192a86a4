\* Two concurrent requests of the member and of another, each of whom may be an
\* administrator, a steward, both or neither from one request to the next.
SPECIFICATION Spec
CONSTANTS
  Call = {c1, c2}
  Person = {m, s}
  Subject = m
  Steward = {m, s}
  Admin = {m, s}
  Never = Never
  Validity = {0}
  Requirement = {q}
  MaxItems = 2
  MaxVerdicts = 1
  MaxTime = 1
SYMMETRY Symmetry
INVARIANTS
  LedgerTellsEvidence
  SufficiencyIsEarned
PROPERTIES
  ClosedIsFinal
