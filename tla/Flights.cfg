SPECIFICATION FairSpec
CONSTANTS
  c1 = c1
  c2 = c2
  k1 = k1
  k2 = k2
  Callers <- TwoCallers
  Keys <- TwoKeys
  MaxFlights = 2
  MayCancel = TRUE
INVARIANTS OneFactory QuietAfterShutdown
PROPERTIES ImplementsSharedJob EveryCallerAnswered
