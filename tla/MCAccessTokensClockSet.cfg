SPECIFICATION Spec
CONSTANTS
  NULL = NULL
  Servers = {i1}
  Requests = {r1, r2, r3}
  MaxSessions = 4
  Offsets <- BeyondTheLeeway
  TicksPerSecond = 2
  AccessTTL = 2
  RefreshTTL = 3
  Leeway = 1
  MaxTime = 2
  Ops = {"login", "refresh", "logout", "me", "delete"}
  ClocksSet = TRUE
  MayFail = TRUE
SYMMETRY RequestSymmetry
INVARIANTS TokensWithinSession RevokedTokensPowerless LogoutEndsSession
