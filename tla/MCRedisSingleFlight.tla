------------------------- MODULE MCRedisSingleFlight -------------------------
(* Instances of RedisSingleFlight for TLC: bots p1 and p2.                  *)
EXTENDS RedisSingleFlight, TLC

CONSTANTS p1, p2, c1, c2, c3

TwoBots == {p1, p2}
Three == {c1, c2, c3}
HomeOfThree == c1 :> p1 @@ c2 :> p1 @@ c3 :> p2
=============================================================================
