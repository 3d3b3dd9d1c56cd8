SPECIFICATION FairSpec
CONSTANTS
  x1 = x1
  x2 = x2
  x3 = x3
  m1 = m1
  m2 = m2
  m3 = m3
  j1 = j1
  j2 = j2
  j3 = j3
  j4 = j4
  None = None
  Tracks = {x1, x2, x3}
  Media = {m1, m2, m3}
  MediaOf <- Own
  Setups <- EveryWay
  Jobs = {j1, j2, j3, j4}
  Depth = 2
  MaxRetries = 2
  MaxFloods = 1
PROPERTIES GivesUpWhenOver TurnEnds
CHECK_DEADLOCK FALSE
