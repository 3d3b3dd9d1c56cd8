-------------------------- MODULE MCCapacityLanes --------------------------
(* Small instances of CapacityLanes for TLC.  Two lanes, as a video download *)
(* takes them: the video lane outside, the download lane inside.             *)
EXTENDS CapacityLanes

CONSTANTS f1, f2, b1, b2, video, downloads

FourTasks == {f1, f2, b1, b2}
ThreeTasks == {f1, f2, b1}
BackgroundTasks == {b1, b2}
OneBackground == {b1}
TwoLanes == {video, downloads}
OneLane == {downloads}

\* Everybody needs only the download lane.
FlatRoute == [t \in Tasks |-> <<downloads>>]

\* Two video downloads, one of them background, and one audio download.
VideoRoute ==
  [t \in Tasks |-> IF t \in {f1, b1} THEN <<video, downloads>> ELSE <<downloads>>]

\* One foreground video download among audio downloads: nobody else wants video.
OneVideo == [t \in Tasks |-> IF t = f1 THEN <<video, downloads>> ELSE <<downloads>>]

Ones == [l \in Lanes |-> 1]
Twos == [l \in Lanes |-> 2]
VideoOfOne == [l \in Lanes |-> IF l = video THEN 1 ELSE 2]
Nobody == {}
OnlyVideo == {f1}

\* The foreground video download and the background audio download.
OfEach == {f1, b2}
=============================================================================
