---------------------------- MODULE MCMediaCache ----------------------------
(* Instances of MediaCache for TLC.                                           *)
EXTENDS MediaCache, TLC

CONSTANTS c1, c2

SwapChats == Permutations({c1, c2})
=============================================================================
