-------------------------------- MODULE Config --------------------------------
(***************************************************************************)
(* config.json: the effective values of its optional numbers, and what     *)
(* validateConfig says of them.  Policy assumes what is accepted here.     *)
(* Durations are in seconds; a number that is absent is 0.                 *)
(***************************************************************************)
EXTENDS Integers

Numbers ==
  {"battery_low_percent", "battery_recovery_percent", "battery_critical_percent",
   "battery_check_seconds", "refresh_fallback_seconds", "refresh_min_seconds",
   "refresh_max_seconds", "wifi_timeout_seconds", "full_refresh_every",
   "display_power.full_refresh_every", "boot_grace_seconds", "failure_threshold",
   "display_width", "display_height", "fbink_bit_depth"}

\* A decoded configuration: its numbers, whether base_url is an absolute URL,
\* and whether it gives a device_id.
Configs == [number : [Numbers -> Int], url : BOOLEAN, id : BOOLEAN]

(***************************************************************************)
(* Effective values.  Only the battery takes negative values as they are.  *)
(***************************************************************************)
Default ==
  [n \in Numbers |->
     CASE n = "battery_low_percent"      -> 20
       [] n = "battery_recovery_percent" -> 30
       [] n = "battery_critical_percent" -> 5
       [] n = "battery_check_seconds"    -> 1800
       [] n = "refresh_fallback_seconds" -> 1800
       [] n = "refresh_min_seconds"      -> 300
       [] n = "refresh_max_seconds"      -> 86400
       [] n = "wifi_timeout_seconds"     -> 45
       [] n = "boot_grace_seconds"       -> 600
       [] n = "failure_threshold"        -> 3
       [] n = "display_width"            -> 1872
       [] n = "display_height"           -> 1404
       [] n = "fbink_bit_depth"          -> 8
       [] OTHER                          -> 6]

BatteryNumbers ==
  {"battery_low_percent", "battery_recovery_percent", "battery_critical_percent",
   "battery_check_seconds"}

\* BatteryPolicy.Defaults, which the cycle applies again to what it is given.
BatteryDefault(value, n) == IF value = 0 THEN Default[n] ELSE value

Positive(config, n) == IF config.number[n] > 0 THEN config.number[n] ELSE Default[n]

\* The nested full_refresh_every takes precedence.
Effective(config, n) ==
  CASE n \in BatteryNumbers -> BatteryDefault(config.number[n], n)
    [] n = "full_refresh_every" /\ config.number["display_power.full_refresh_every"] > 0
         -> config.number["display_power.full_refresh_every"]
    [] OTHER -> Positive(config, n)

(***************************************************************************)
(* validateConfig.  wireless: is a wireless address readable now?          *)
(***************************************************************************)
CheckSeconds == 300 .. 86400

BatteryValid(low, recovery, critical, check) ==
  /\ 1 <= critical /\ critical < low /\ low < recovery /\ recovery <= 100
  /\ check \in CheckSeconds

BatteryProblem(config) ==
  ~BatteryValid(Effective(config, "battery_low_percent"),
                Effective(config, "battery_recovery_percent"),
                Effective(config, "battery_critical_percent"),
                Effective(config, "battery_check_seconds"))

MustBePositive ==
  {"refresh_fallback_seconds", "refresh_min_seconds", "refresh_max_seconds",
   "wifi_timeout_seconds", "full_refresh_every", "display_width", "display_height",
   "fbink_bit_depth"}

Problems(config, wireless) ==
  LET e(n) == Effective(config, n) IN
  {n \in MustBePositive : e(n) <= 0}
  \cup {p \in {"battery"} : BatteryProblem(config)}
  \cup {p \in {"base_url"} : ~config.url}
  \cup {p \in {"bounds"} : e("refresh_min_seconds") > e("refresh_max_seconds")}
  \cup {p \in {"fallback"} :
          \/ e("refresh_fallback_seconds") < e("refresh_min_seconds")
          \/ e("refresh_fallback_seconds") > e("refresh_max_seconds")}
  \cup {p \in {"device_id"} : ~config.id /\ ~wireless}

Validates(config, wireless) == Problems(config, wireless) = {}

\* runOnce resolves the identity later: with the radio off none may be readable.
Runs(config) == Problems([config EXCEPT !.id = TRUE], FALSE) = {}
=============================================================================
