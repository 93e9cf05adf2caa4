--------------------------- MODULE MCIDGenerator ---------------------------
(* Small instance of IDGenerator: the width of T is one value above the    *)
(* capacity that MaxLive and Threshold need.                               *)
EXTENDS IDGenerator

ASSUME CapacityAssumption == Capacity
=============================================================================
