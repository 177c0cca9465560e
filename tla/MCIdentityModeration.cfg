SPECIFICATION Spec
CONSTANTS
  NULL = NULL
  SeedSecret = SeedSecret
  Users = {1, 2}
  Admins = {1}
  Requests = {r1, r2, r3}
  MaxSessions = 2
  RefreshTTL = 3
  MaxTime = 2
  SeedOwner <- OneSessionEach
  SeedStatus <- PendingOrMuted
  Ops = {"public", "status"}
  Orders = {"active", "muted"}
  MayFail = FALSE
SYMMETRY Symmetry
PROPERTIES EveryChangeAudited UpdatedAtMonotone ImplementsPolicy
