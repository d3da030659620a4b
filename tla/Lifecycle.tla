------------------------------ MODULE Lifecycle ------------------------------
(***************************************************************************)
(* install-appliance and restore-stock over the stock services: install    *)
(* records which services were enabled and then disables and masks them,   *)
(* restore brings them back.  A command may fail at any call or be killed  *)
(* between two, and is then run again; a file of the snapshot may be found *)
(* damaged.  A query of systemd that fails does not fail the command: the  *)
(* unit is taken to be absent, or disabled.                                *)
(*                                                                         *)
(* The choices of the owner are a record: known is the set of services     *)
(* whose enablement was noted, on those that were enabled.  The stock UI   *)
(* has a flag only, so it can be in on without being in known.             *)
(***************************************************************************)
EXTENDS Naturals, FiniteSets

CONSTANTS
  Noise,     \* stockNoiseUnits
  Arrivals,  \* the stock services a firmware update may bring
  Faults     \* the kinds of failure the environment may inject

ASSUME LifecycleAssumption ==
  /\ Noise \cap {"xochitl", "sync", "missing", "damaged"} = {}
  /\ Arrivals \subseteq Noise \cup {"sync"}
  /\ Faults \subseteq {"command", "query", "write", "kill", "damage"}

Units == {"xochitl", "sync"} \cup Noise
Files == {"primary", "backup"}

VARIABLES
  (* systemd *)
  present,   \* the stock services that exist
  enabled, masked,
  original,  \* those that were enabled before the appliance came
  (* durable files *)
  snap,      \* install-state.json and its backup
  legacy,    \* the choices that state.json holds
  (* the running command *)
  op, pc,
  mem,       \* the choices it works with
  detected,  \* did this install find a stock sync unit?
  todo,      \* the noise services it has still to handle
  errs,      \* has restore collected an error?
  (* history, for the properties only *)
  misread,   \* the services whose query failed when install noted their choice
  outcome,   \* of the last command
  fault      \* has a call of it failed, or was it killed?

systemd == <<present, enabled, masked>>
owner   == <<original, misread>>
files   == <<snap, legacy>>
memory  == <<mem, detected, todo, errs>>
vars ==
  <<systemd, owner, files, op, pc, memory, outcome, fault>>

Choices ==
  {c \in [known : SUBSET (Units \ {"xochitl"}), on : SUBSET Units] :
     c.on \subseteq c.known \cup {"xochitl"}}
NoChoices == [known |-> {}, on |-> {}]

\* What one snapshot file holds; no choices look like the last two.
Missing == [known |-> {"missing"}, on |-> {}]
Damaged == [known |-> {"damaged"}, on |-> {}]
Contents == Choices \cup {Missing, Damaged}

TypeOK ==
  /\ present \in SUBSET Units /\ enabled \in SUBSET present
  /\ masked \in SUBSET Units
  /\ original \in SUBSET Units /\ misread \in SUBSET Units
  /\ snap \in [Files -> Contents] /\ legacy \in Choices
  /\ op \in {"none", "install", "restore"}
  /\ pc \in {"idle", "load", "migrate", "migrateBackup", "detect", "record",
             "recordBackup", "state", "reload", "ui", "sync", "noise", "start",
             "quiesce"}
  /\ mem \in Choices /\ detected \in BOOLEAN
  /\ todo \in SUBSET Noise /\ errs \in BOOLEAN
  /\ outcome \in {"none", "installed", "restored", "failed"}
  /\ fault \in BOOLEAN

\* A stock device, or one where a binary that only kept the legacy fields of
\* state.json has masked the UI and the sync unit.
Init ==
  /\ present \in {p \in SUBSET Units : "xochitl" \in p}
  /\ original \in SUBSET present
  /\ \/ enabled = original /\ masked = {} /\ legacy = NoChoices
     \/ LET took == present \cap {"xochitl", "sync"} IN
          /\ masked = took /\ enabled = original \ took
          /\ legacy = [known |-> took \ {"xochitl"}, on |-> original \cap took]
  /\ snap = [name \in Files |-> Missing]
  /\ op = "none" /\ pc = "idle"
  /\ mem = NoChoices /\ detected = FALSE /\ todo = {} /\ errs = FALSE
  /\ misread = {} /\ outcome = "none" /\ fault = FALSE

-----------------------------------------------------------------------------
(* The snapshot file, a DurableStore in strict mode. *)

Decodes(name) == snap[name] \in Choices

PrimaryFound == Decodes("primary")
Found == \E name \in Files : Decodes(name)
Unreadable == ~Found /\ \E name \in Files : snap[name] = Damaged
Snapshot == IF Decodes("primary") THEN snap["primary"] ELSE snap["backup"]

\* A load restores the primary from the backup.
Repaired ==
  IF Found THEN [snap EXCEPT !["primary"] = Snapshot] ELSE snap

\* SaveJSON after such a load: the backup first, then the primary.
BackedUp(new) ==
  [Repaired EXCEPT !["backup"] = IF Found THEN Snapshot ELSE new]
Written(new) == [BackedUp(new) EXCEPT !["primary"] = new]

-----------------------------------------------------------------------------
(* Control. *)

Goto(step) == pc' = step /\ op' = op

Return(how) ==
  /\ op' = "none" /\ pc' = "idle" /\ outcome' = how
  /\ mem' = NoChoices /\ detected' = FALSE /\ todo' = {} /\ errs' = FALSE

\* A call fails that the command does not survive.
Abort(kind) ==
  /\ kind \in Faults
  /\ fault' = TRUE
  /\ Return("failed")

Begin(command) ==
  /\ pc = "idle"
  /\ op' = command /\ pc' = "load"
  /\ outcome' = "none" /\ fault' = FALSE
  /\ UNCHANGED <<systemd, owner, files, memory>>

-----------------------------------------------------------------------------
(* loadState, which reconciles state.json with the snapshot. *)

\* The snapshot overrules state.json; without one, the legacy fields count.
Unmigrated == IF Found THEN Snapshot ELSE NoChoices
Reconciled == IF Found THEN Snapshot ELSE legacy

AfterLoad == IF op = "install" THEN "detect" ELSE "quiesce"

LoadState ==
  /\ pc = "load"
  /\ \/ /\ Found
        /\ mem' = Reconciled /\ snap' = Repaired
        /\ Goto(AfterLoad)
        /\ UNCHANGED <<detected, todo, errs, outcome, fault>>
     \/ /\ ~Found /\ ~Unreadable
        /\ mem' = Reconciled
        /\ Goto(IF Reconciled = NoChoices THEN AfterLoad ELSE "migrate")
        /\ UNCHANGED <<snap, detected, todo, errs, outcome, fault>>
     \/ /\ Unreadable
        /\ Return("failed")
        /\ UNCHANGED <<snap, fault>>
     \/ Abort("write") /\ UNCHANGED snap
  /\ UNCHANGED <<systemd, owner, legacy>>

\* One SaveJSON of the snapshot; a failed one may have got as far as the backup.
SaveSnapshot(new, next) ==
  \/ /\ snap' = Written(new)
     /\ Goto(next)
     /\ UNCHANGED <<memory, outcome, fault>>
  \/ /\ Abort("write")
     /\ snap' \in {snap, Repaired, BackedUp(new), Written(new)}

\* A known service keeps its recorded choice; a service the snapshot does not
\* know yet is added with the one just read.
FlagOnly(base, seen) ==
  LET fresh == (seen.known \cap Noise) \ base.known IN
    [known |-> base.known, on |-> base.on \cup (seen.on \cap fresh)]
Merged(base, seen) ==
  LET fresh == (seen.known \cap Noise) \ base.known IN
    [known |-> base.known \cup fresh, on |-> base.on \cup (seen.on \cap fresh)]

Recorded == IF Found THEN Merged(Snapshot, mem) ELSE mem

\* The snapshot is saved twice, so that its backup knows every service too; an
\* unchanged one once.
SavedOnce(changed) == TRUE
LastSave(changed) == ~changed

Migrate ==
  /\ \/ pc = "migrate"
        /\ SaveSnapshot(legacy, IF LastSave(TRUE) THEN AfterLoad ELSE "migrateBackup")
     \/ pc = "migrateBackup" /\ SaveSnapshot(legacy, AfterLoad)
  /\ UNCHANGED <<systemd, owner, legacy>>

-----------------------------------------------------------------------------
(* install-appliance *)

Enabled(unit) == unit \in enabled \ masked

\* The UI and sync flags are only read when nothing was ever recorded.
Unrecorded ==
  ~Found /\ "sync" \notin mem.known /\ mem.known \cap Noise = {} /\ "xochitl" \notin mem.on

\* Any of the queries about these units may fail.
Unanswered(units) == IF "query" \in Faults THEN SUBSET units ELSE {{}}

Detect ==
  /\ pc = "detect"
  /\ \/ \E unseen \in Unanswered(present \ {"xochitl"}),
           unread \in Unanswered({u \in present : Enabled(u)}) :
          LET found == present \ unseen
              on    == {u \in found : Enabled(u)} \ unread
              stock == found \cap {"sync"}
              base  == IF Unrecorded
                       THEN [known |-> stock, on |-> on \cap (stock \cup {"xochitl"})]
                       ELSE mem
              fresh == (found \cap Noise) \ base.known
              noted == fresh \cup (IF Unrecorded THEN present \cap {"sync"} ELSE {})
          IN /\ detected' = (stock # {})
             /\ mem' = [known |-> base.known \cup fresh, on |-> base.on \cup (on \cap fresh)]
             /\ misread' = misread \cup (noted \cap (unseen \cup unread))
             /\ Goto("record")
             /\ UNCHANGED <<todo, errs, outcome, fault>>
     \/ Abort("write") /\ UNCHANGED misread
  /\ UNCHANGED <<systemd, original, files>>

Record ==
  /\ \/ pc = "record"
        /\ SaveSnapshot(Recorded,
             IF LastSave(~Found \/ Recorded # Snapshot) THEN "state" ELSE "recordBackup")
     \/ pc = "recordBackup" /\ SaveSnapshot(Recorded, "state")
  /\ UNCHANGED <<systemd, owner, legacy>>

\* saveState reconciles once more before it writes state.json.
SaveState ==
  /\ pc = "state"
  /\ \/ /\ legacy' = Snapshot /\ snap' = Repaired
        /\ todo' = mem.known \cap Noise
        /\ Goto("reload")
        /\ UNCHANGED <<mem, detected, errs, outcome, fault>>
     \/ /\ Abort("write")
        /\ legacy' \in {legacy, Snapshot} /\ snap' \in {snap, Repaired}
  /\ UNCHANGED <<systemd, owner>>

Reload ==
  /\ pc = "reload"
  /\ \/ Goto("ui") /\ UNCHANGED <<memory, outcome, fault>>
     \/ Abort("command")
  /\ UNCHANGED <<systemd, owner, files>>

\* Disable tries stop, disable and mask whatever the others do.
Disabled(unit) ==
  /\ enabled' = enabled \ {unit} /\ masked' = masked \cup {unit}
  /\ UNCHANGED present
HalfDisabled(unit) ==
  /\ enabled' \in {enabled, enabled \ {unit}}
  /\ masked' \in {masked, masked \cup {unit}}
  /\ UNCHANGED present

\* An error disabling the UI or the sync unit ends the command.
DisableUnit(unit, next) ==
  \/ Disabled(unit) /\ Goto(next) /\ UNCHANGED <<memory, outcome, fault>>
  \/ HalfDisabled(unit) /\ Abort("command")

DisableStock ==
  /\ op = "install"
  /\ \/ pc = "ui" /\ DisableUnit("xochitl", IF detected THEN "sync" ELSE "noise")
     \/ pc = "sync" /\ DisableUnit("sync", "noise")
  /\ UNCHANGED <<owner, files>>

\* An error disabling a noise service is only a warning.
DisableNoise ==
  /\ op = "install" /\ pc = "noise"
  /\ \/ /\ todo = {}
        /\ Goto("start")
        /\ UNCHANGED <<systemd, todo, fault>>
     \/ \E unit \in todo :
          /\ todo' = todo \ {unit}
          /\ \/ Disabled(unit) /\ UNCHANGED fault
             \/ "command" \in Faults /\ HalfDisabled(unit) /\ fault' = TRUE
          /\ UNCHANGED <<op, pc>>
  /\ UNCHANGED <<owner, files, mem, detected, errs, outcome>>

\* The appliance's own units are enabled and started.
StartService ==
  /\ pc = "start"
  /\ \/ Return("installed") /\ UNCHANGED fault
     \/ Abort("command")
  /\ UNCHANGED <<systemd, owner, files>>

-----------------------------------------------------------------------------
(* restore-stock *)

\* The appliance's units and files go, then the cycle lock is taken; a cycle
\* that holds it ends the command, other errors are collected.
Quiesce ==
  /\ pc = "quiesce"
  /\ \/ /\ \/ UNCHANGED <<errs, fault>>
           \/ "command" \in Faults /\ errs' = TRUE /\ fault' = TRUE
        /\ todo' = mem.known \cap Noise
        /\ Goto("ui")
        /\ UNCHANGED <<mem, detected, outcome>>
     \/ Abort("command")
  /\ UNCHANGED <<systemd, owner, files>>

\* Unmask, then enable and start it if it was enabled.
Reenabled(unit, on) ==
  enabled \cup IF on THEN {unit} \cap present ELSE {}

RestoreUnit(unit, on) ==
  \/ /\ masked' = masked \ {unit}
     /\ enabled' = Reenabled(unit, on)
     /\ UNCHANGED <<present, errs, fault>>
  \/ /\ "command" \in Faults
     /\ masked' \in {masked, masked \ {unit}}
     /\ enabled' \in {enabled, Reenabled(unit, on)}
     /\ errs' = TRUE /\ fault' = TRUE
     /\ UNCHANGED present

RestoreStock ==
  /\ op = "restore"
  /\ \/ /\ pc = "ui"
        /\ RestoreUnit("xochitl", TRUE)
        /\ Goto(IF "sync" \in mem.known THEN "sync" ELSE "noise")
     \/ /\ pc = "sync"
        /\ RestoreUnit("sync", "sync" \in mem.on)
        /\ Goto("noise")
  /\ UNCHANGED <<owner, files, mem, detected, todo, outcome>>

RestoreNoise ==
  /\ op = "restore" /\ pc = "noise" /\ todo # {}
  /\ \E unit \in todo :
       /\ RestoreUnit(unit, unit \in mem.on)
       /\ todo' = todo \ {unit}
  /\ UNCHANGED <<owner, files, op, pc, mem, detected, outcome>>

ErrorsDropped == "restored"
RestoreOutcome == IF errs THEN "failed" ELSE "restored"

\* The restore marker goes last.
FinishRestore ==
  /\ op = "restore" /\ pc = "noise" /\ todo = {}
  /\ \/ Return(RestoreOutcome) /\ UNCHANGED fault
     \/ Abort("write")
  /\ UNCHANGED <<systemd, owner, files>>

-----------------------------------------------------------------------------
(* The environment. *)

Kill ==
  /\ pc # "idle" /\ Abort("kill")
  /\ UNCHANGED <<systemd, owner, files>>

\* One snapshot file is lost while the other is good.
Damage(name) ==
  /\ "damage" \in Faults /\ pc = "idle"
  /\ \E other \in Files \ {name} : Decodes(other)
  /\ snap' \in {[snap EXCEPT ![name] = content] : content \in {Missing, Damaged}}
  /\ snap' # snap
  /\ UNCHANGED <<systemd, owner, legacy, op, pc, memory, outcome, fault>>

\* A firmware update brings a stock service that was not there before.
Update(unit) ==
  /\ pc = "idle"
  /\ unit \notin present /\ present' = present \cup {unit}
  /\ \/ enabled' = enabled \cup {unit} /\ original' = original \cup {unit}
     \/ UNCHANGED <<enabled, original>>
  /\ outcome' = "none"
  /\ UNCHANGED <<misread, masked, files, op, pc, memory, fault>>

Next ==
  \/ Begin("install") \/ Begin("restore")
  \/ LoadState \/ Migrate
  \/ Detect \/ Record \/ SaveState \/ Reload
  \/ DisableStock \/ DisableNoise \/ StartService
  \/ Quiesce \/ RestoreStock \/ RestoreNoise \/ FinishRestore
  \/ Kill
  \/ \E name \in Files : Damage(name)
  \/ \E unit \in Arrivals : Update(unit)

Spec == Init /\ [][Next]_vars

-----------------------------------------------------------------------------
(* Properties. *)

\* A restore that reports success has brought every stock service back to the
\* owner's choice, after any number of failed, killed and repeated commands and
\* with either snapshot file lost; except, when the query that was to note a
\* service's choice failed, that service, which is never enabled against the
\* choice, and stays masked only if it is the sync unit.
RestoreFaithful ==
  outcome = "restored" =>
    /\ masked \subseteq misread \cap {"sync"}
    /\ (original \cup {"xochitl"}) \ misread \subseteq enabled
    /\ enabled \subseteq original \cup {"xochitl"}

\* Before a service is masked, every copy of the snapshot knows what to restore
\* it to: losing one file never costs a choice.  A failed query can cost one: the
\* choice of its own service, or the sync unit's entry.
MaskedIsCovered ==
  \A unit \in masked \ {"xochitl"}, name \in Files :
    Decodes(name) =>
      /\ unit \in snap[name].known \/ unit \in misread \cap {"sync"}
      /\ unit \notin misread => (unit \in snap[name].on <=> unit \in original)

\* No copy of the snapshot ever holds the appliance's own doing as the owner's
\* choice, however often install is repeated over masked services; a failed
\* query can only turn a choice off.
ChoicesAreOriginal ==
  \A name \in Files :
    Decodes(name) =>
      /\ snap[name].on \cap snap[name].known \subseteq original
      /\ (snap[name].known \cap original) \ misread \subseteq snap[name].on

\* "This snapshot must restore every service about to be masked" (config.go:86).
MaskedIsRecorded ==
  \A unit \in masked \ {"xochitl"} :
    Found => unit \in Snapshot.known

\* A command fails only because one of its calls failed: whatever earlier
\* attempts left behind, it can be repeated.
Repeatable == outcome = "failed" => fault
=============================================================================
