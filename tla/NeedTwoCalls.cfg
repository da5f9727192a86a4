\* Two concurrent calls on two needs of one conversation and a decision.
SPECIFICATION NeedSpec
CONSTANTS
  Call = {c1, c2}
  Resp = {r1, r2}
  NeedConversation = {conversation}
  Need = {n1, n2}
  Decision = decision
  Record = {e1, applied}
  Decided = {applied}
  NoRecord = NoRecord
  MaxEvents = 5
SYMMETRY Symmetry
INVARIANTS
  AnsweredForItsNeed
  OnlyNewestIsOpen
PROPERTIES
  NeedImplementsLedger
