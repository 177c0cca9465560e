SPECIFICATION PoolFairSpec
CONSTANTS
  NULL = NULL
  SeedSecret = SeedSecret
  Users = {1, 2}
  Admins = {1}
  Requests = {r1, r2, r3}
  MaxSessions = 1
  RefreshTTL = 1
  MaxTime = 0
  SeedOwner <- OneSession
  SeedStatus <- AllActive
  Ops = {"logout", "delete", "refresh", "status"}
  Orders = {"banned"}
  MayFail = TRUE
  MaxOpenConns = 2
  Stalled = {}
INVARIANTS PoolTypeOK PoolNotWedged
PROPERTIES QueuedAnswered
