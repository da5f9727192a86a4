\* One request at a time moves from a resource or steward to another route.
SPECIFICATION Spec
CONSTANTS
  Call = {c1}
  Resp = {r1}
  Resource = {x1}
  MaxJournal = 4
  MaxEvents = 5
SYMMETRY Symmetry
INVARIANTS
  RouteChangesAreRecorded
