SPECIFICATION FairSpec
CONSTANTS
  x1 = x1
  x2 = x2
  x3 = x3
  dj = dj
  t1 = t1
  t2 = t2
  t3 = t3
  m1 = m1
  m2 = m2
  None = None
  Requests = {x1, x2, x3}
  Recommended = {}
  Media = {m1, m2}
  MediaOf <- Repeated
  Tasks <- TwoTasks
  MaxDepth = 1
  MaxCommands = 1
  Commands = {"loop"}
  Sources = {"detached"}
  Updates = {1, 2}
  Apart = TRUE
  Faults = {"dies early", "unplayable", "no voice chat"}
PROPERTIES EndIsAnswered NoTrackSkipped EndsAdvanceOnce
CHECK_DEADLOCK FALSE
