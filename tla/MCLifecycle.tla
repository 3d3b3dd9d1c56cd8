---------------------------- MODULE MCLifecycle ----------------------------
(* Instances of Lifecycle for TLC.                                            *)
EXTENDS Lifecycle

CONSTANTS child, byhand
=============================================================================
