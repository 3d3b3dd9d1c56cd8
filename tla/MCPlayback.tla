----------------------------- MODULE MCPlayback -----------------------------
(* Instances of Playback for TLC.                                             *)
EXTENDS Playback

CONSTANTS x1, x2, x3, dj, t1, t2, t3, m1, m2

OneMedia   == [i \in Tracks |-> m1]
Repeated   == [i \in Tracks |-> IF i \in {x1, x2} THEN m1 ELSE m2]
TwoTasks   == {t1, t2}
ThreeTasks == {t1, t2, t3}
Symmetric  == Permutations(Requests) \cup Permutations(Tasks)
=============================================================================
