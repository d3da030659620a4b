------------------------------- MODULE MCCycle -------------------------------
(* Values of Cycle's constants for TLC. *)
EXTENDS Cycle, TLC

\* Unreadable, critical, charging between the two thresholds (adequate, or
\* charging-recovery after a low one) and adequate.
Reading(c, s) == [capacity |-> c, status |-> s]
MCSamples ==
  {Reading(-1, "unknown"), Reading(4, "discharging"), Reading(25, "charging"),
   Reading(80, "discharging")}

AllFaults == FaultKinds

\* For liveness: the calls of every path may fail, but the process is not
\* killed.  Critical and low readings enter the two battery paths, an adequate
\* one the normal path.
LiveSamples ==
  {Reading(4, "discharging"), Reading(15, "discharging"), Reading(80, "discharging")}
LiveFaults ==
  {"network", "fetch", "draw", "rtc", "timer", "log", "save", "suspend", "shutdown"}

\* Boot ids are only ever compared.
BootSymmetry == Permutations(BootIds)
=============================================================================
