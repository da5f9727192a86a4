\* Two concurrent requests of two users, whose roles change, on one request
\* key, with the news they send.
SPECIFICATION NewsSpec
CONSTANTS
  Call = {c1, c2}
  User = {u1, u2}
  Resp = {r1, r2}
  Key = {k1}
  RoleInUse = {"ADMIN", "OPERATOR"}
  MaxEvents = 4
  MaxNotices = 1
SYMMETRY Symmetry
INVARIANTS
  OnePromisePerKey
  LedgerIsChain
  NewsIsTrue
  NotifiedOnce
PROPERTIES
  AuthorityAtCommit
  ImplementsPromise
