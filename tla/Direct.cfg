SPECIFICATION Spec
CONSTANTS
  audio = audio
  normal = normal
  untiered = untiered
  t1 = t1
  t2 = t2
  t3 = t3
  u1 = u1
  u2 = u2
  Audio = audio
  Tiers = {normal, untiered}
  Untiered = untiered
  Tasks = {t1, t2, t3}
  Urls = {u1, u2}
  Lanes = {"full"}
  None = None
  CookieFree = FALSE
  MayCancel = TRUE
  MaxCalls = 3
INVARIANTS OneFlight DeadIsDropped NobodyWaitsInVain
SYMMETRY Symmetric
CHECK_DEADLOCK FALSE
