--------------------------- MODULE MCLaneHistory ---------------------------
(* The instances of MCCapacityLanes for LaneHistory.                       *)
EXTENDS MCCapacityLanes, LaneHistory
=============================================================================
