\* Two concurrent calls on two rows, over one slot of each kind.
SPECIFICATION Spec
CONSTANTS
  Call = {c1, c2}
  Resp = {r1, r2}
  Slot = {need, guidance, decision}
  NeedSlot = {need}
  GuidanceSlot = {guidance}
  Provenance = {n1}
  Record = {e1}
  NoRecord = NoRecord
  MaxEvents = 5
SYMMETRY Symmetry
INVARIANTS
  OneOpenPerSlot
  LedgerTellsStatus
  ClosedOnceWithEvidence
  PausesAlternate
  FromStatusWasHeld
PROPERTIES
  TerminalIsFinal
  ImplementsPromise
