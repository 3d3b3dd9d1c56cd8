----------------------------- MODULE MCMachines -----------------------------
(* Instances of Machines for TLC: the bots of MCRedisSingleFlight, and turns    *)
(* that connect to the voice chat ahead of their source; the other machines    *)
(* get their members from the configuration.                                   *)
EXTENDS Machines, MCRedisSingleFlight

CONSTANTS x1, x2, m1, m2

Own == [t \in Tracks |-> IF t = x1 THEN m1 ELSE m2]

\* Two tracks of YouTube, a song or a video first.
Connects(videos, faults) ==
    [wanted |-> Tracks, service |-> [t \in Tracks |-> "youtube"], videos |-> videos,
     options |-> {"direct", "early"}, faults |-> faults]

Early == {Connects({}, {"no url", "early fails", "build raises", "direct fails", "dies",
                        "refused", "no file"}),
          Connects({x1}, {"no url", "build raises", "direct fails", "refused", "no audio",
                          "unreachable", "no file"})}
=============================================================================
