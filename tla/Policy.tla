------------------------------- MODULE Policy -------------------------------
(***************************************************************************)
(* The pure decisions of the appliance: what a battery reading means, how  *)
(* long to sleep, how far to back off, when to use a full refresh and      *)
(* which runtime mode the machine is in.  Nothing here has state; Cycle    *)
(* calls these operators at the points where cycle.Run calls the           *)
(* functions.  Durations are in minutes.                                   *)
(***************************************************************************)
EXTENDS Integers

CONSTANTS
  LowPercent,        \* battery_low_percent: protection starts at or below it
  RecoveryPercent,   \* battery_recovery_percent: protection ends at or above it
  CriticalPercent,   \* battery_critical_percent
  CriticalShutdown,  \* critical_battery_shutdown: is poweroff enabled?
  CheckInterval,     \* battery_check_seconds
  RefreshFallback,   \* refresh_fallback_seconds
  RefreshMin,        \* refresh_min_seconds
  RefreshMax,        \* refresh_max_seconds
  FailureThreshold,  \* failure_threshold
  FullRefreshEvery   \* full_refresh_every

(***************************************************************************)
(* What validateConfig accepts; runOnce never reaches cycle.Run otherwise. *)
(***************************************************************************)
ASSUME ThresholdAssumption ==
  /\ LowPercent \in Int /\ RecoveryPercent \in Int /\ CriticalPercent \in Int
  /\ 1 <= CriticalPercent
  /\ CriticalPercent < LowPercent
  /\ LowPercent < RecoveryPercent
  /\ RecoveryPercent <= 100
  /\ CriticalShutdown \in BOOLEAN

ASSUME IntervalAssumption ==
  /\ CheckInterval \in 5 .. 1440
  /\ RefreshFallback \in Nat /\ RefreshMin \in Nat /\ RefreshMax \in Nat
  /\ 0 < RefreshMin
  /\ RefreshMin <= RefreshFallback
  /\ RefreshFallback <= RefreshMax

ASSUME CadenceAssumption ==
  /\ FailureThreshold \in Nat \ {0}
  /\ FullRefreshEvery \in Nat \ {0}

(***************************************************************************)
(* A battery reading.  A sample that is missing, or whose capacity is not  *)
(* a number, has capacity -1.                                              *)
(***************************************************************************)
Statuses == {"charging", "full", "discharging", "unknown"}
Readings == [capacity : Int, status : Statuses]

Reasons ==
  {"battery-unavailable", "critical-battery", "charging-recovery",
   "low-battery", "battery-adequate"}

Decisions ==
  [low : BOOLEAN, shutdown : BOOLEAN, external : BOOLEAN, valid : BOOLEAN,
   reason : Reasons]

Legible(reading) == reading.capacity \in 0 .. 100
External(reading) ==
  Legible(reading) /\ reading.status \in {"charging", "full"}
Usable(reading) ==
  Legible(reading) /\ reading.status \in {"charging", "full", "discharging"}

\* Protection kept until the battery is above the low threshold only.
LowToLow(reading, wasLow) ==
  ~Usable(reading) \/ reading.capacity <= LowPercent

\* An unusable reading is treated as low: less activity, never a shutdown.
IsLow(reading, wasLow) ==
  \/ ~Usable(reading)
  \/ IF wasLow THEN reading.capacity < RecoveryPercent
               ELSE reading.capacity <= LowPercent

ShutdownOnLevel(reading, wasLow) ==
  /\ Usable(reading)
  /\ IsLow(reading, wasLow)
  /\ reading.capacity <= CriticalPercent
  /\ CriticalShutdown

WantsShutdown(reading, wasLow) ==
  /\ Usable(reading)
  /\ IsLow(reading, wasLow)
  /\ ~External(reading)
  /\ reading.capacity <= CriticalPercent
  /\ CriticalShutdown

Reason(reading, wasLow) ==
  CASE ~Usable(reading)                             -> "battery-unavailable"
    [] WantsShutdown(reading, wasLow)               -> "critical-battery"
    [] Usable(reading) /\ IsLow(reading, wasLow)
         /\ External(reading)                       -> "charging-recovery"
    [] Usable(reading) /\ IsLow(reading, wasLow)
         /\ ~External(reading)
         /\ ~WantsShutdown(reading, wasLow)         -> "low-battery"
    [] OTHER                                        -> "battery-adequate"

Decide(reading, wasLow) ==
  [low      |-> IsLow(reading, wasLow),
   shutdown |-> WantsShutdown(reading, wasLow),
   external |-> External(reading),
   valid    |-> Usable(reading),
   reason   |-> Reason(reading, wasLow)]

(***************************************************************************)
(* Sleep and retry intervals.                                              *)
(***************************************************************************)
AtLeast(low, x) == IF x < low THEN low ELSE x
AtMost(high, x) == IF x > high THEN high ELSE x

ServerRate(rate) ==
  AtMost(RefreshMax, AtLeast(RefreshMin, rate))

\* The server's rate, or the fallback, clamped by min and then by max.
RefreshInterval(rate) ==
  AtMost(RefreshMax,
         AtLeast(RefreshMin, IF rate > 0 THEN rate ELSE RefreshFallback))

\* The doubling loop of retryInterval, unrolled: 80 minutes is capped at 60.
RetrySteps == <<5, 10, 20, 40, 60>>
RetryFromZero(failures) == RetrySteps[AtMost(5, failures + 1)]
RetryInterval(failures) == RetrySteps[AtMost(5, AtLeast(1, failures))]

\* A critical shutdown leaves this retry deadline behind.
CriticalRetry == 5

(***************************************************************************)
(* Every FullRefreshEvery-th rendered update is a full one.  Only the      *)
(* remainder of the counter matters, so the model keeps that.              *)
(***************************************************************************)
FullAfterCadence(renderedUpdates) ==
  renderedUpdates % FullRefreshEvery = 0

ShouldUseFullRefresh(renderedUpdates) ==
  (renderedUpdates + 1) % FullRefreshEvery = 0

(***************************************************************************)
(* The runtime mode.  serviced: the sentinel file exists or the USB        *)
(* network is up; inGrace: uptime is below boot_grace_seconds.             *)
(***************************************************************************)
DetermineMode(serviced, inGrace, failures) ==
  CASE serviced -> "maintenance"
    [] ~serviced /\ inGrace -> "boot-grace"
    [] ~serviced /\ ~inGrace /\ failures >= FailureThreshold -> "recovery"
    [] OTHER -> "appliance"

ModeSuspends(mode) == mode = "appliance"
=============================================================================
