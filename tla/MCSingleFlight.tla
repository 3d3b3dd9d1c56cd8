--------------------------- MODULE MCSingleFlight ---------------------------
(* The instance of SingleFlight for TLC.                                    *)
EXTENDS SingleFlight

CONSTANTS c1, c2, k1, k2

TwoCallers == {c1, c2}
TwoKeys == {k1, k2}
=============================================================================
