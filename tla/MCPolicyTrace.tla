---------------------------- MODULE MCPolicyTrace ----------------------------
(* Values of PolicyTrace's constants for TLC: every level around the three   *)
(* thresholds with every status, and rates on both sides of the bounds.      *)
EXTENDS PolicyTrace

MCSamples == [capacity : {-1, 0, 2, 3, 5, 6, 7, 9, 10, 100, 101}, status : Statuses]
MCRates == {-1, 0, 1, 2, 3, 7, 10, 11}
=============================================================================
