SPECIFICATION Spec
CONSTANTS
  NULL = NULL
  Servers = {i1, i2}
  Requests = {r1, r2, r3}
  MaxSessions = 4
  Offsets <- AtTheLeeway
  TicksPerSecond = 2
  AccessTTL = 1
  RefreshTTL = 2
  Leeway = 1
  MaxTime = 5
  Ops = {"login", "refresh", "logout", "ban"}
  ClocksSet = FALSE
  MayFail = FALSE
SYMMETRY Symmetry
INVARIANTS TypeOK RevokedTokensExpire
PROPERTIES UnauthorizedHasCause
