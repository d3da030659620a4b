---------------------------- MODULE PolicyProofs ----------------------------
(***************************************************************************)
(* Facts about the operators of Policy, for every value of the thresholds  *)
(* and bounds that validateConfig accepts, and about what it accepts.     *)
(***************************************************************************)
EXTENDS Policy, Config, TLAPS

\* A decision is one of the records that BatteryDecision can hold.
LEMMA DecideType ==
  ASSUME NEW reading \in Readings, NEW wasLow \in BOOLEAN
  PROVE  Decide(reading, wasLow) \in Decisions
<1>1. IsLow(reading, wasLow) \in BOOLEAN
  BY DEF IsLow, Usable, Legible, Readings
<1>2. WantsShutdown(reading, wasLow) \in BOOLEAN
  BY DEF WantsShutdown
<1>3. External(reading) \in BOOLEAN /\ Usable(reading) \in BOOLEAN
  BY DEF External, Usable
<1>4. Reason(reading, wasLow) \in Reasons
  BY DEF Reason, Reasons
<1> QED BY <1>1, <1>2, <1>3, <1>4 DEF Decide, Decisions

\* Decide never asks for a poweroff unless the sample is readable, the battery
\* is discharging at or below the critical level, the owner enabled it, and
\* protection is on: a missing or strange sample only reduces activity.
THEOREM ShutdownOnlyWhenCritical ==
  ASSUME NEW reading \in Readings, NEW wasLow \in BOOLEAN,
         Decide(reading, wasLow).shutdown
  PROVE  /\ CriticalShutdown
         /\ Decide(reading, wasLow).low /\ Decide(reading, wasLow).valid
         /\ reading.status = "discharging"
         /\ reading.capacity \in 0 .. CriticalPercent
<1>1. WantsShutdown(reading, wasLow)
  BY DEF Decide
<1>2. Usable(reading) /\ ~External(reading) /\ IsLow(reading, wasLow)
  BY <1>1 DEF WantsShutdown
<1>3. reading.capacity \in 0 .. 100 /\ reading.status = "discharging"
  BY <1>2 DEF Usable, External, Legible
<1> QED
  BY <1>1, <1>2, <1>3, ThresholdAssumption
     DEF WantsShutdown, Decide, Readings

\* A critical level is a low level whatever protection was before, so a
\* shutdown cannot be suppressed by the hysteresis.
THEOREM CriticalIsAlwaysLow ==
  ASSUME NEW reading \in Readings, NEW wasLow \in BOOLEAN,
         Usable(reading), reading.capacity <= CriticalPercent
  PROVE  Decide(reading, wasLow).low
<1>1. reading.capacity \in Int
  BY DEF Readings
<1>2. reading.capacity < RecoveryPercent /\ reading.capacity <= LowPercent
  BY <1>1, ThresholdAssumption
<1> QED BY <1>2 DEF Decide, IsLow

\* Protection ends only on a readable sample at the recovery level, and starts
\* only on an unreadable one or at the low level: between the two it cannot
\* flap.
THEOREM ProtectionLatches ==
  ASSUME NEW reading \in Readings
  PROVE  /\ ~Decide(reading, TRUE).low
              => Usable(reading) /\ reading.capacity >= RecoveryPercent
         /\ Decide(reading, FALSE).low
              => ~Usable(reading) \/ reading.capacity <= LowPercent
<1>1. reading.capacity \in Int
  BY DEF Readings
<1>2. ~IsLow(reading, TRUE) => Usable(reading) /\ reading.capacity >= RecoveryPercent
  BY <1>1, ThresholdAssumption DEF IsLow
<1>3. IsLow(reading, FALSE) => ~Usable(reading) \/ reading.capacity <= LowPercent
  BY <1>1 DEF IsLow
<1> QED BY <1>2, <1>3 DEF Decide

\* Whatever refresh_rate a server sends, the interval stays within the bounds,
\* and a rate within them is used as it is.
THEOREM IntervalBounded ==
  ASSUME NEW rate \in Int
  PROVE  /\ RefreshInterval(rate) \in RefreshMin .. RefreshMax
         /\ rate \in RefreshMin .. RefreshMax => RefreshInterval(rate) = rate
<1> DEFINE wished == IF rate > 0 THEN rate ELSE RefreshFallback
           raised == AtLeast(RefreshMin, wished)
<1>1. wished \in Int
  BY IntervalAssumption
<1>2. raised \in Int /\ raised >= RefreshMin
  BY <1>1, IntervalAssumption DEF AtLeast
<1>3. RefreshInterval(rate) = AtMost(RefreshMax, raised)
  BY DEF RefreshInterval
<1>4. AtMost(RefreshMax, raised) \in RefreshMin .. RefreshMax
  BY <1>2, IntervalAssumption DEF AtMost
<1>5. ASSUME rate \in RefreshMin .. RefreshMax
      PROVE  AtMost(RefreshMax, raised) = rate
  BY <1>5, IntervalAssumption DEF AtMost, AtLeast
<1> QED BY <1>3, <1>4, <1>5

\* The retry interval lies between five minutes and an hour and never shrinks
\* as failures accumulate.
THEOREM BackoffBounded ==
  ASSUME NEW failures \in Nat
  PROVE  /\ RetryInterval(failures) \in 5 .. 60
         /\ RetryInterval(failures) <= RetryInterval(failures + 1)
<1> DEFINE index(n) == AtMost(5, AtLeast(1, n))
<1>1. ASSUME NEW n \in Nat PROVE index(n) \in 1 .. 5 /\ index(n) <= index(n + 1)
  BY <1>1 DEF AtMost, AtLeast
<1>2. \A i \in 1 .. 5 : RetrySteps[i] \in 5 .. 60
  BY DEF RetrySteps
<1>3. \A i, j \in 1 .. 5 : i <= j => RetrySteps[i] <= RetrySteps[j]
  BY DEF RetrySteps
<1>4. index(failures) \in 1 .. 5 /\ index(failures + 1) \in 1 .. 5
      /\ index(failures) <= index(failures + 1)
  BY <1>1
<1> HIDE DEF index
<1>5. RetryInterval(failures) = RetrySteps[index(failures)]
      /\ RetryInterval(failures + 1) = RetrySteps[index(failures + 1)]
  BY DEF RetryInterval, index
<1> QED BY <1>2, <1>3, <1>4, <1>5

(***************************************************************************)
(* Config.                                                                 *)
(***************************************************************************)

\* Every effective number is an integer, and positive outside the battery.
LEMMA EffectiveType ==
  ASSUME NEW config \in Configs, NEW n \in Numbers
  PROVE  /\ Effective(config, n) \in Int
         /\ n \notin BatteryNumbers => Effective(config, n) > 0
<1>1. config.number[n] \in Int /\ config.number["display_power.full_refresh_every"] \in Int
  BY DEF Configs, Numbers
<1>2. Default[n] \in Int /\ Default[n] > 0
  BY DEF Default
<1> QED BY <1>1, <1>2 DEF Effective, Positive, BatteryDefault

\* A configuration that a cycle runs with satisfies what Policy assumes of the
\* thresholds, the check interval, the bounds and the cadence, in seconds.
THEOREM AcceptedSuitsPolicy ==
  ASSUME NEW config \in Configs, Runs(config)
  PROVE  /\ 1 <= Effective(config, "battery_critical_percent")
         /\ Effective(config, "battery_critical_percent") < Effective(config, "battery_low_percent")
         /\ Effective(config, "battery_low_percent") < Effective(config, "battery_recovery_percent")
         /\ Effective(config, "battery_recovery_percent") <= 100
         /\ Effective(config, "battery_check_seconds") \in CheckSeconds
         /\ 0 < Effective(config, "refresh_min_seconds")
         /\ Effective(config, "refresh_min_seconds") <= Effective(config, "refresh_fallback_seconds")
         /\ Effective(config, "refresh_fallback_seconds") <= Effective(config, "refresh_max_seconds")
         /\ Effective(config, "failure_threshold") \in Nat \ {0}
         /\ Effective(config, "full_refresh_every") \in Nat \ {0}
<1>1. PICK c \in Configs : c = [config EXCEPT !.id = TRUE]
  BY DEF Configs
<1>2. \A n \in Numbers : Effective(c, n) = Effective(config, n)
  BY <1>1 DEF Configs, Effective, Positive, BatteryDefault
<1>3. /\ ~BatteryProblem(c)
      /\ ~(Effective(c, "refresh_fallback_seconds") < Effective(c, "refresh_min_seconds"))
      /\ ~(Effective(c, "refresh_fallback_seconds") > Effective(c, "refresh_max_seconds"))
  BY <1>1 DEF Runs, Problems
<1>4. BatteryValid(Effective(config, "battery_low_percent"),
                   Effective(config, "battery_recovery_percent"),
                   Effective(config, "battery_critical_percent"),
                   Effective(config, "battery_check_seconds"))
  BY <1>2, <1>3 DEF BatteryProblem, Numbers
<1>5. \A n \in {"refresh_min_seconds", "refresh_fallback_seconds", "refresh_max_seconds",
               "failure_threshold", "full_refresh_every"} :
        Effective(config, n) \in Int /\ Effective(config, n) > 0
  BY EffectiveType DEF Numbers, BatteryNumbers
<1>6. /\ ~(Effective(config, "refresh_fallback_seconds") < Effective(config, "refresh_min_seconds"))
      /\ ~(Effective(config, "refresh_fallback_seconds") > Effective(config, "refresh_max_seconds"))
  BY <1>2, <1>3 DEF Numbers
<1>7. /\ Effective(config, "refresh_min_seconds") \in Int
      /\ Effective(config, "refresh_fallback_seconds") \in Int
      /\ Effective(config, "refresh_max_seconds") \in Int
      /\ Effective(config, "failure_threshold") \in Int
      /\ Effective(config, "full_refresh_every") \in Int
      /\ 0 < Effective(config, "refresh_min_seconds")
      /\ 0 < Effective(config, "failure_threshold")
      /\ 0 < Effective(config, "full_refresh_every")
  BY <1>5
<1>8. /\ Effective(config, "refresh_min_seconds") <= Effective(config, "refresh_fallback_seconds")
      /\ Effective(config, "refresh_fallback_seconds") <= Effective(config, "refresh_max_seconds")
  BY <1>6, <1>7
<1>9. Effective(config, "failure_threshold") \in Nat \ {0} /\ Effective(config, "full_refresh_every") \in Nat \ {0}
  BY <1>7
<1> QED BY <1>4, <1>7, <1>8, <1>9 DEF BatteryValid

\* A configuration that "validate" accepted is never the reason that a cycle
\* does not run, whether the radio is on or off by then.
THEOREM ValidatedRuns ==
  ASSUME NEW config \in Configs, NEW wireless \in BOOLEAN, Validates(config, wireless)
  PROVE  Runs(config)
<1> DEFINE c == [config EXCEPT !.id = TRUE]
<1>1. c.id /\ c.url = config.url /\ c.number = config.number
  BY DEF Configs
<1>2. \A n \in Numbers : Effective(c, n) = Effective(config, n)
  BY <1>1 DEF Effective, Positive, BatteryDefault
<1> HIDE DEF c
<1>3. BatteryProblem(c) = BatteryProblem(config)
  <2>1. /\ Effective(c, "battery_critical_percent") = Effective(config, "battery_critical_percent")
        /\ Effective(c, "battery_low_percent") = Effective(config, "battery_low_percent")
        /\ Effective(c, "battery_recovery_percent") = Effective(config, "battery_recovery_percent")
        /\ Effective(c, "battery_check_seconds") = Effective(config, "battery_check_seconds")
    BY <1>2 DEF Numbers
  <2> QED BY <2>1 DEF BatteryProblem
<1>4. Problems(c, FALSE) \subseteq Problems(config, wireless)
  BY <1>1, <1>2, <1>3 DEF Problems, MustBePositive, Numbers
<1> QED BY <1>4 DEF Runs, Validates, c

\* The checks that a number is greater than zero never report anything: the
\* effective values are positive whatever the file says.
THEOREM PositiveAlready ==
  ASSUME NEW config \in Configs, NEW wireless \in BOOLEAN
  PROVE  Problems(config, wireless) \cap MustBePositive = {}
<1>1. \A n \in MustBePositive : n \in Numbers /\ n \notin BatteryNumbers
  BY DEF MustBePositive, Numbers, BatteryNumbers
<1>2. \A n \in MustBePositive : Effective(config, n) \in Int /\ Effective(config, n) > 0
  BY <1>1, EffectiveType
<1>3. \A n \in MustBePositive : ~(Effective(config, n) <= 0)
  BY <1>2
<1> QED BY <1>3 DEF Problems, MustBePositive
=============================================================================
