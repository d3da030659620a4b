-------------------------------- MODULE Radio ---------------------------------
(***************************************************************************)
(* BringUp and BringDown, command by command: what Cycle takes as one step *)
(* that raises the radio, fails, or lowers it.  Each call is a relation    *)
(* between the radio before it and after it; ok says whether it returned   *)
(* no error.  A command that fails may have had its effect.                *)
(***************************************************************************)
CONSTANTS
  Supported,   \* is there an SDIO driver directory?
  HasRfkill,   \* is rfkill installed?
  CustomUp,    \* does the configuration give its own commands?
  CustomDown

\* present: the driver is bound, so that the interface exists.
Radios ==
  {r \in [present : BOOLEAN, blocked : BOOLEAN, link : BOOLEAN, wpa : BOOLEAN] :
     r.link => r.present}

\* Nothing transmits and, where the driver can be unbound, nothing is powered.
Off(r) == ~r.link /\ (Supported => ~r.present)

-----------------------------------------------------------------------------
(* Raising. *)

\* ensure waits for the interface and goes on without it.
Ensure(r, s) ==
  IF r.present \/ ~Supported
  THEN s = r
  ELSE \E bound \in BOOLEAN : s = [r EXCEPT !.present = bound]

Unblock(r, s, ok) ==
  IF Supported /\ HasRfkill
  THEN \/ ok /\ s = [r EXCEPT !.blocked = FALSE]
       \/ ~ok /\ \E b \in {FALSE, r.blocked} : s = [r EXCEPT !.blocked = b]
  ELSE ok /\ s = r

\* ip, ifconfig, ifup or ifdown: the first that succeeds ends the search.
SetLink(r, s, up, ok) ==
  \/ ok /\ r.present /\ s = [r EXCEPT !.link = up]
  \/ ~ok /\ \E l \in {r.link, r.present /\ up} : s = [r EXCEPT !.link = l]

\* Asking for the supplicant is best effort.
AfterUp(r, s) ==
  \E w \in {r.wpa, TRUE} : s = IF Supported THEN [r EXCEPT !.wpa = w] ELSE r

RaiseLink(r, s, ok) ==
  \E t \in Radios : SetLink(r, t, TRUE, ok) /\ (IF ok THEN AfterUp(t, s) ELSE s = t)

BringUp(r, s, ok) ==
  IF CustomUp
  THEN s \in Radios
  ELSE \E t, u \in Radios :
         /\ Ensure(r, t)
         /\ \/ Unblock(t, s, FALSE) /\ ~ok
            \/ Unblock(t, u, TRUE) /\ RaiseLink(u, s, ok)

-----------------------------------------------------------------------------
(* Lowering. *)

\* Without the driver there is no interface.
Unbind(r, s) ==
  \/ s = [r EXCEPT !.present = FALSE, !.link = FALSE]
  \/ s = r

\* Each command of Stop is best effort.
Stop(r, s) ==
  IF Supported
  THEN \E w \in {FALSE, r.wpa}, b \in {TRUE, r.blocked} :
         Unbind([r EXCEPT !.wpa = w, !.blocked = IF HasRfkill THEN b ELSE @], s)
  ELSE s = r

\* Stop runs whether or not the link went down, and only the link's error is
\* returned.
LowerLink(r, t, ok) == SetLink(r, t, FALSE, ok)

BringDown(r, s, ok) ==
  IF CustomDown
  THEN s \in Radios
  ELSE \E t \in Radios : LowerLink(r, t, ok) /\ Stop(t, s)
=============================================================================
