--------------------------- MODULE DurableRegister ---------------------------
(***************************************************************************)
(* What internal/storage promises the programs that keep a JSON document   *)
(* with SaveJSON and LoadRecoverableJSON: one register.  A save moves it   *)
(* to the value being saved and nowhere else; a save that was acknowledged *)
(* is not undone by a crash; damage to a file can bring back another       *)
(* version, but only one that was saved; a load changes nothing.           *)
(***************************************************************************)
EXTENDS Integers

CONSTANT MaxSaves   \* bound: the number of saves; version 0 is the absent document

VARIABLES
  value,     \* what a load would find
  possible,  \* what it would find if the machine crashed now
  begun,     \* the number of saves so far
  saving,    \* the version being saved, or 0
  acked      \* the last version whose save was acknowledged

vars == <<value, possible, begun, saving, acked>>

Init ==
  /\ value = 0 /\ possible = {0}
  /\ begun = 0 /\ saving = 0 /\ acked = 0

Begin ==
  /\ saving = 0 /\ begun < MaxSaves
  /\ begun' = begun + 1 /\ saving' = begun'
  /\ UNCHANGED <<value, possible, acked>>

\* The new version shows, but a crash may still undo it.
Put ==
  /\ saving # 0
  /\ value' = saving /\ possible' \subseteq possible \cup {saving}
  /\ saving \in possible'
  /\ UNCHANGED <<begun, saving, acked>>

\* Some of what a crash could bring back is gone for good.
Settle ==
  /\ possible' \subseteq possible /\ value \in possible'
  /\ UNCHANGED <<value, begun, saving, acked>>

Acknowledge ==
  /\ saving # 0 /\ value = saving
  /\ possible' = {value} /\ acked' = saving /\ saving' = 0
  /\ UNCHANGED <<value, begun>>

GiveUp == saving' = 0 /\ UNCHANGED <<value, possible, begun, acked>>

Crash ==
  /\ value' \in possible /\ possible' = {value'}
  /\ saving' = 0
  /\ UNCHANGED <<begun, acked>>

\* Damage: another version takes over; a load that finds it may make it the
\* current one.
Degrade ==
  /\ saving = 0
  /\ value' \in possible' /\ possible' \subseteq 0 .. begun
  /\ UNCHANGED <<begun, saving, acked>>
Adopt ==
  /\ value <= acked /\ acked' = value
  /\ possible' \subseteq possible /\ value \in possible'
  /\ UNCHANGED <<value, begun, saving>>

Next ==
  \/ Begin \/ Put \/ Settle \/ Acknowledge \/ GiveUp \/ Crash \/ Degrade \/ Adopt

Spec == Init /\ [][Next]_vars
=============================================================================
