-------------------------- MODULE MCMonitorHistory --------------------------
(* Bounds for MonitorHistory: three slots, so that the ring wraps and the  *)
(* oldest sample is neither first nor last; intervals of 1, 2 (the         *)
(* default) and 3 seconds next to numbers the dialog refuses; and a clock  *)
(* that can reach the longest of them.                                      *)
EXTENDS MonitorHistory

MCValues == {7}
MCEntered == {-1, 0, 1, 3, 61}
=============================================================================
