SPECIFICATION FairSpec
CONSTANTS
  Probes = {p1}
  Timeout <- DefaultTimeouts
  Grace <- DriverGraces
INVARIANTS TypeOK VerdictEarned WaitsForTheLonger
PROPERTIES ProbeAnswered
