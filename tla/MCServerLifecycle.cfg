SPECIFICATION FairSpec
CONSTANTS
  Conns = {c1, c2, c3}
INVARIANTS TypeOK CleanExit StoppedBeforeClose NothingLeftOpen
PROPERTIES Stops
