SPECIFICATION Spec
CONSTANTS
  NULL = NULL
  SeedSecret = SeedSecret
  Users = {1, 2}
  Admins = {1}
  Requests = {r1, r2, r3}
  MaxSessions = 5
  RefreshTTL = 1
  MaxTime = 1
  SeedOwner <- OneSessionEach
  SeedStatus <- OpenOrBanned
  Ops = {"login", "refresh", "logout", "delete", "status"}
  Orders = {"active", "banned"}
  MayFail = FALSE
SYMMETRY Symmetry
INVARIANTS TypeOK ClosedAccountsSignedOut SecretUsedOnce NoDeadlock
PROPERTIES SessionHistory
