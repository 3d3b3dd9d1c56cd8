SPECIFICATION FairSpec
CONSTANTS
  child = child
  byhand = byhand
  Child = child
  Others = {byhand}
  Restarters = {"daily", "manual"}
  None = None
  MaxFaults = 3
  MaxAsks = 3
INVARIANTS OneBot StopsOnce
PROPERTIES ComesBack
CHECK_DEADLOCK FALSE
