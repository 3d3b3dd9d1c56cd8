SPECIFICATION FairSpec
CONSTANTS
  audio = audio
  video = video
  song = song
  clip = clip
  opus = opus
  webm = webm
  MaxJobs = 2
  Media <- TwoMedia
  Keys <- SongAndClip
  MediaOf <- MediaOfSongAndClip
  Exts <- TwoExts
  MaxQueue = 1
  MayPost = TRUE
  MayCancel = TRUE
INVARIANTS InOnePlace EndedIsWoken
PROPERTIES QueueDrains
CHECK_DEADLOCK FALSE
