SPECIFICATION AllFairSpec
CONSTANTS
  p1 = p1 p2 = p2 c1 = c1 c2 = c2 c3 = c3
  Processes <- TwoBots
  Callers <- Three
  Home <- HomeOfThree
  Results = {"ok", "failed"}
  MayFail = TRUE
  MayCrash = TRUE
  MayTimeout = TRUE
  Writers = {w1, w2}
  Locks = {l1, l2}
  CardFaults = {"refused", "unread", "late", "busy"}
  Ops = {"send", "reply", "photo", "text", "caption", "callback", "media", "markup"}
  MaxAttempts = 3
  MaxFloods = 2
  Actors = {a1, a2}
  Keys = {k1}
  Texts = {t1, t2}
  ReplyOps = {"observe", "tell", "forget", "use", "sweep", "switch", "all"}
  MaxEntries = 1
  MaxKeys = 1
  MaxAsks = 3
  Media = {i1}
  Groups = {g1}
  Players = {q1, q2}
  Fills = {s1}
  MaxDownloads = 2
  Fetchers = {d1, d2, d3}
  Listeners = {r1}
  Attempts = 2
  x1 = x1 x2 = x2 m1 = m1 m2 = m2
  Tracks = {x1, x2}
  Clips = {m1, m2}
  MediaOf <- Own
  Setups <- Early
  Jobs = {j1, j2, j3}
  Depth = 2
  MaxRetries = 2
  MaxPauses = 1
INVARIANTS OneOwner ConfirmedTwice OneWriter MarkIsBacked EarlySettled
PROPERTIES LockKept EveryCallerReturns FinalWriter LimitIsFinal
CHECK_DEADLOCK FALSE
