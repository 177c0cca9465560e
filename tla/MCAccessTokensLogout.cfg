SPECIFICATION Spec
CONSTANTS
  NULL = NULL
  Servers = {i1, i2}
  Requests = {r1, r2, r3}
  MaxSessions = 4
  Offsets <- AtTheLeeway
  TicksPerSecond = 2
  AccessTTL = 1
  RefreshTTL = 2
  Leeway = 1
  MaxTime = 4
  Ops = {"login", "logout"}
  ClocksSet = FALSE
  MayFail = FALSE
SYMMETRY Symmetry
INVARIANTS AdmittedLogoutSucceeds
