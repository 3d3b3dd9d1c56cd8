SPECIFICATION HistorySpec
CONSTANTS
  f1 = f1 f2 = f2 b1 = b1 b2 = b2 video = video downloads = downloads
  Tasks <- FourTasks
  Background <- BackgroundTasks
  Lanes <- TwoLanes
  Route <- VideoRoute
  Fixed <- Ones
  Floor <- Ones
  Ceiling <- Twos
  Reserve = 1
  Cancellable <- OfEach
  Abandoning <- FourTasks
  MayFail = TRUE
  MaxStale = 1
  MaxCancels = 1
INVARIANTS PermitAccounting BoundedAlways
PROPERTIES ForegroundFirst
