----------------------------- MODULE MCPlayMedia -----------------------------
(* Instances of PlayMedia for TLC.                                            *)
EXTENDS PlayMedia

CONSTANTS x1, x2, x3, m1, m2, m3, j1, j2, j3, j4

Own        == [t \in Tracks |-> IF t = x1 THEN m1 ELSE IF t = x2 THEN m2 ELSE m3]
Setup(s1, s2, videos, options, faults) ==
    [wanted |-> {x1, x2}, service |-> [t \in Tracks |-> IF t = x1 THEN s1 ELSE s2], videos |-> videos,
     options |-> options, faults |-> faults]

TwoSongs   == Setup("youtube", "youtube", {}, {"direct", "cdn", "early"},
                    {"no file", "cut", "no url", "direct fails", "dies", "early fails",
                     "refused", "no audio", "force"})
SongsOnly  == Setup("youtube", "youtube", {}, {"direct", "direct only"},
                    {"no file", "direct fails", "dies", "busy"})
VideoFirst == Setup("youtube", "youtube", {x1}, {"direct", "early"},
                    {"no file", "no url", "build raises", "direct fails", "no audio",
                     "unreachable", "refused", "forgets"})
TikTok     == Setup("tiktok", "youtube", {}, {"direct", "remote direct", "cdn"},
                    {"no file", "direct fails", "unreachable", "no audio", "no call",
                     "breaks", "flood"})
Facebook   == Setup("facebook", "facebook", {}, {"remote direct", "remote only"},
                    {"no file", "direct fails", "unreachable", "no audio", "refused"})
SoundCloud == Setup("soundcloud", "telegram", {}, {"remote direct"},
                    {"no file", "direct fails", "unreachable", "no audio", "no call",
                     "breaks", "flood", "unsupported", "refused"})
Others     == Setup("facebook", "soundcloud", {x2}, {"cdn"},
                    {"no file", "unreachable", "no audio"})

ThreeClips == [Setup("youtube", "youtube", Tracks, {}, {"no file", "force", "forgets"})
               EXCEPT !.wanted = {x1, x2, x3}]

JoinCuts == {Setup("youtube", "youtube", {}, {"direct"}, {"direct fails", "no file", "cut"})}
PlayNow  == {Setup("youtube", "youtube", {}, {"direct"}, {"direct fails", "no file", "force"})}
Busy     == {Setup("youtube", "youtube", {}, {}, {"busy", "no file"})}
Failing  == {Setup("youtube", "youtube", {}, {}, {"no file"})}
Clips    == {Setup("facebook", "youtube", {}, {"remote direct"}, {"direct fails", "no audio"})}
Decoder  == {Setup("youtube", "youtube", {x1}, {"direct", "early"}, {"build raises"})}
EveryWay == {TwoSongs, SongsOnly, VideoFirst, TikTok, Facebook, SoundCloud, Others,
             ThreeClips}
=============================================================================
