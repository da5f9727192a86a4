\* Two concurrent requests of the member.
SPECIFICATION Spec
CONSTANTS
  Call = {c1, c2}
  Resp = {r1}
  Resource = {x1}
  MaxJournal = 2
  MaxEvents = 5
SYMMETRY Symmetry
INVARIANTS
  CompletedByReport
  ExhaustedAfterConfirmation
PROPERTIES
  ImplementsLedger
