\* Two concurrent requests about one opportunity, in one conversation.
SPECIFICATION HelpSpec
CONSTANTS
  Call = {c1, c2}
  Resp = {r1, r2}
  NoResp = NoResp
  Conversation = {k1}
  StatusInUse = {"SAVED", "APPLIED"}
  MaxSessions = 2
  MaxEvents = 4
SYMMETRY Symmetry
INVARIANTS
  ConsentEndsWithSession
PROPERTIES
  PrivacyFirst
  SessionMovesItsWork
  HelpImplementsLedger
