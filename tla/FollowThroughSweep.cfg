\* A member, a steward and the sweep over one obligation.
SPECIFICATION Spec
CONSTANTS
  MemberCall = {m1}
  StaffCall = {s1}
  Row = {r1}
  Due = {0, 1}
  NextAttempt = {1}
  NoDate = NoDate
  Batch = 1
  Soon = 1
  MaxTime = 1
  MaxRevision = 3
  MaxDisturbances = 2
CHECK_DEADLOCK FALSE
INVARIANTS
  TypeOK
  OneStory
  NoticeIsFounded
PROPERTIES
  VerifiedTruthStands
  EndedIsFinal
  OverdueIsAnnounced
