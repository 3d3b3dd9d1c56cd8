--------------------------- MODULE MCDirectSource ---------------------------
(* Instances of DirectSource for TLC.                                         *)
EXTENDS DirectSource, TLC

CONSTANTS audio, normal, untiered, t1, t2, t3, u1, u2

Symmetric == Permutations(Tasks) \cup Permutations(Urls)
=============================================================================
