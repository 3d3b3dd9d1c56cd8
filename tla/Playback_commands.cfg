SPECIFICATION Spec
CONSTANTS
  x1 = x1
  x2 = x2
  x3 = x3
  dj = dj
  t1 = t1
  t2 = t2
  t3 = t3
  m1 = m1
  m2 = m2
  None = None
  Requests = {x1, x2}
  Recommended = {dj}
  Media = {m1, m2}
  MediaOf <- OneMedia
  Tasks <- TwoTasks
  MaxDepth = 1
  MaxCommands = 1
  Commands = {"skip", "stop", "force", "again", "cancel"}
  Sources = {"proved"}
  Updates = {1}
  Apart = TRUE
  Faults = {"unplayable", "gives up", "raises", "refused"}
SYMMETRY Symmetric
PROPERTIES KeepsManualFirst
CHECK_DEADLOCK FALSE
