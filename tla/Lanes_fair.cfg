SPECIFICATION FairSpec
CONSTANTS
  f1 = f1 f2 = f2 b1 = b1 b2 = b2 video = video downloads = downloads
  Tasks <- ThreeTasks
  Background <- OneBackground
  Lanes <- TwoLanes
  Route <- OneVideo
  Fixed <- Ones
  Floor <- Ones
  Ceiling <- VideoOfOne
  Reserve = 1
  Cancellable <- ThreeTasks
  Abandoning <- OnlyVideo
  MayFail = TRUE
  MaxStale = 1
INVARIANTS ForegroundCount NobodyStranded
PROPERTIES ForegroundServed
