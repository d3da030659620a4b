---------------------------- MODULE ApplianceTurns ----------------------------
(***************************************************************************)
(* What the cycle lock and the restore marker promise together: the panel, *)
(* the radio and the decision to sleep belong to one cycle at a time, or   *)
(* to restore; while they are barred no cycle begins, and restore takes    *)
(* them over only then, from no one.                                       *)
(***************************************************************************)
CONSTANT Procs   \* the processes that run cycles; neither "none" nor "restore"

VARIABLES
  turn,    \* whose they are: a process's, restore's, or no one's
  barred   \* is a new cycle turned away?

vars == <<turn, barred>>

Init == turn = "none" /\ barred = FALSE

Begin(p) == turn = "none" /\ ~barred /\ turn' = p /\ UNCHANGED barred

\* A cycle ends by itself, by a kill or with the machine.
End == turn \in Procs /\ turn' = "none" /\ UNCHANGED barred

\* Restore announces itself, also while a cycle runs.
Bar == barred' = TRUE /\ UNCHANGED turn
TakeOver == turn = "none" /\ barred /\ turn' = "restore" /\ UNCHANGED barred
HandBack == turn = "restore" /\ turn' = "none" /\ UNCHANGED barred

\* A restore that succeeded, or an installation, lets cycles in again.
Lift == turn # "restore" /\ barred' = FALSE /\ UNCHANGED turn

Next == (\E p \in Procs : Begin(p)) \/ End \/ Bar \/ TakeOver \/ HandBack \/ Lift

Spec == Init /\ [][Next]_vars
=============================================================================
