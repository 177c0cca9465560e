SPECIFICATION PoolFairSpec
CONSTANTS
  NULL = NULL
  SeedSecret = SeedSecret
  Users = {1, 2}
  Admins = {1}
  Requests = {r1, r2}
  MaxSessions = 4
  RefreshTTL = 1
  MaxTime = 1
  SeedOwner <- OneSessionEach
  SeedStatus <- AllActive
  Ops = {"login", "delete"}
  Orders = {"banned"}
  MayFail = TRUE
  MaxOpenConns = 2
  Stalled = {r1}
PROPERTIES LockWaitsBounded
