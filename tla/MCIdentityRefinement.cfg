SPECIFICATION Spec
CONSTANTS
  NULL = NULL
  SeedSecret = SeedSecret
  Users = {1, 2}
  Admins = {1}
  Requests = {r1, r2}
  MaxSessions = 4
  RefreshTTL = 1
  MaxTime = 1
  SeedOwner <- OneSessionEach
  SeedStatus <- AnyStanding
  Ops = {"login", "refresh", "logout", "me", "public", "update", "delete", "status"}
  Orders = {"active", "muted", "frozen", "banned"}
  MayFail = TRUE
SYMMETRY Symmetry
INVARIANTS StoreChecks
PROPERTIES ImplementsPolicy AuthorityAtCommit
