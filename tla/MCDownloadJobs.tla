--------------------------- MODULE MCDownloadJobs ---------------------------
(* Instances of DownloadJobs for TLC.                                        *)
EXTENDS DownloadJobs

CONSTANTS audio, video, song, clip, opus, webm

TwoMedia == {audio, video}
Audio == {audio}
OneSong == {song}
SongAndClip == {song, clip}
MediaOfSong == [k \in OneSong |-> audio]
MediaOfSongAndClip == [k \in SongAndClip |-> IF k = song THEN audio ELSE video]
OneExt == {opus}
TwoExts == {opus, webm}
=============================================================================
