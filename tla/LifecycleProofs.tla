--------------------------- MODULE LifecycleProofs ---------------------------
(***************************************************************************)
(* Install and restore, for every set of stock services, every sequence of *)
(* failed, killed and repeated commands and every loss of a snapshot file. *)
(*                                                                         *)
(* What a restore needs is not in one place: systemd stops showing the     *)
(* owner's choice of a service when install disables it, and from then on  *)
(* the choice must be on record in every copy that a later load may be     *)
(* left with.  The invariant names the services it is about and follows    *)
(* their record from the files to memory and back.  A query that fails     *)
(* while a choice is noted takes the service out of what is claimed, as    *)
(* far as the code loses it: the choice, and for the sync unit its entry.  *)
(***************************************************************************)
EXTENDS Lifecycle, TLAPS

USE DEF owner

Services == Units \ {"xochitl"}

\* The services whose choice systemd no longer shows.
Hidden == {unit \in Services : unit \in masked \/ unit \in original \ enabled}

\* The services that a snapshot has to know: the hidden ones, and a sync unit,
\* which install disables whenever there is one.  A sync unit that a firmware
\* update may bring, or that a failed query hid from the first
\* install, is not tracked: install disables it without recording it.
Tracked == {unit \in Services : unit = "sync" => "sync" \notin Arrivals \cup misread}
Owed == Tracked \cap (Hidden \cup (present \cap {"sync"}))

\* The services that a restore can bring back, and has not.
Pending ==
  {unit \in Services : \/ unit \in masked \ (misread \cap {"sync"})
                       \/ unit \in (original \ enabled) \ misread}

Honest(choices) ==
  /\ choices.known \subseteq present
  /\ choices.on \cap choices.known \subseteq original
  /\ (choices.known \cap original) \ misread \subseteq choices.on

Recording == {"record", "recordBackup", "state", "reload", "ui", "sync", "noise", "start"}
Disabling == {"state", "reload", "ui", "sync", "noise", "start"}

ControlInv ==
  /\ op = "none" <=> pc = "idle"
  /\ pc \in {"detect", "record", "recordBackup", "state", "reload", "start"} => op = "install"
  /\ pc = "quiesce" => op = "restore"
  /\ pc # "idle" => outcome = "none"
  /\ pc \in {"idle", "load"} => ~errs
  /\ errs => fault
  /\ Repeatable

SystemdInv ==
  /\ "xochitl" \in present
  /\ original \subseteq present /\ masked \subseteq present
  /\ enabled \subseteq original \cup {"xochitl"}

\* Every copy that decodes knows what is owed; before there is one, the legacy
\* fields know what is hidden.
FilesInv ==
  /\ \A name \in Files : Decodes(name) => Honest(snap[name]) /\ Owed \subseteq snap[name].known
  /\ ~Found =>
       /\ \A name \in Files : snap[name] = Missing
       /\ Hidden \subseteq legacy.known
       /\ legacy # NoChoices => Owed \subseteq legacy.known
  /\ Honest(legacy)

Loaded == IF Found THEN snap["primary"] ELSE NoChoices

\* What a command works with: the snapshot as it was loaded, then what install
\* has added to it, which both copies know before anything is disabled.
MemoryInv ==
  /\ Honest(mem)
  /\ pc = "migrate" => mem = legacy /\ legacy # NoChoices /\ ~Found
  /\ pc = "migrateBackup" => mem = legacy /\ \A name \in Files : snap[name] = legacy
  /\ pc \in {"detect", "quiesce"} =>
       /\ mem = Loaded
       /\ Found => Decodes("primary")
       /\ ~Found => legacy = NoChoices
  /\ op = "install" /\ pc \in Recording => Owed \subseteq mem.known
  /\ detected => "sync" \in present
  /\ op = "install" /\ pc = "sync" => "sync" \in present
  /\ pc = "record" /\ Found =>
       /\ Snapshot.known \subseteq mem.known
       /\ mem.known \subseteq Snapshot.known \cup Noise
  /\ pc = "recordBackup" => Decodes("primary") /\ snap["primary"].known = mem.known
  /\ op = "install" /\ pc \in Disabling =>
       \A name \in Files : Decodes(name) /\ snap[name].known = mem.known
  /\ todo \subseteq mem.known
  /\ pc \in {"idle", "load"} => todo = {}

\* What a restore without an error has still to bring back.
Remaining ==
  CASE pc = "ui"   -> mem.known
    [] pc = "sync" -> todo \cup {"sync"}
    [] OTHER       -> todo

RestoreInv ==
  /\ op = "restore" /\ pc \in {"ui", "sync"} => todo = mem.known \cap Noise
  /\ op = "restore" /\ pc = "sync" => "sync" \in mem.known
  /\ op = "restore" /\ pc \in {"sync", "noise"} /\ ~errs => "xochitl" \in enabled \ masked
  /\ "sync" \notin Arrivals =>
       /\ op = "restore" /\ pc \in {"ui", "sync", "noise"} /\ ~errs => Pending \subseteq Remaining
       /\ RestoreFaithful

Inv == TypeOK /\ ControlInv /\ SystemdInv /\ FilesInv /\ MemoryInv /\ RestoreInv

-----------------------------------------------------------------------------
(* Names and records. *)

LEMMA UnitNames ==
  /\ "missing" \notin Units /\ "damaged" \notin Units
  /\ "sync" \notin Noise /\ "xochitl" \notin Noise
  /\ Noise \subseteq Tracked /\ Tracked \subseteq Services
  /\ "sync" \notin Arrivals => Pending \subseteq Hidden \cap Tracked
BY LifecycleAssumption DEF Units, Services, Tracked, Pending, Hidden

LEMMA NotChoices == Missing \notin Choices /\ Damaged \notin Choices /\ Missing # Damaged
<1>1. \A c \in Choices : "missing" \notin c.known /\ "damaged" \notin c.known
  BY UnitNames DEF Choices
<1>2. "missing" \in Missing.known /\ "damaged" \in Damaged.known /\ "missing" \notin Damaged.known
  BY DEF Missing, Damaged
<1> QED BY <1>1, <1>2

LEMMA NothingChosen ==
  /\ NoChoices \in Choices /\ NoChoices.known = {}
  /\ Honest(NoChoices)
BY DEF NoChoices, Choices, Honest

\* A snapshot that is found has the type of one.
LEMMA SnapshotType ==
  ASSUME TypeOK, Found
  PROVE  /\ Snapshot \in Choices /\ Repaired["primary"] = Snapshot
         /\ \E name \in Files : Snapshot = snap[name] /\ Decodes(name)
BY DEF TypeOK, Found, Snapshot, Decodes, Files, Repaired

LEMMA WrittenFiles ==
  ASSUME TypeOK, NEW new \in Choices
  PROVE  /\ Written(new)["primary"] = new
         /\ Written(new)["backup"] = IF Found THEN Snapshot ELSE new
         /\ BackedUp(new)["primary"] = IF Found THEN Snapshot ELSE snap["primary"]
         /\ BackedUp(new)["backup"] = IF Found THEN Snapshot ELSE new
         /\ Repaired["primary"] = IF Found THEN Snapshot ELSE snap["primary"]
         /\ Repaired["backup"] = snap["backup"]
         /\ {Repaired, BackedUp(new), Written(new)} \subseteq [Files -> Contents]
<1>1. snap \in [Files -> Contents] /\ Files = {"primary", "backup"}
  BY DEF TypeOK, Files
<1>2. Found => Snapshot \in Contents
  BY SnapshotType DEF Contents
<1>3. new \in Contents
  BY DEF Contents
<1> QED BY <1>1, <1>2, <1>3 DEF Written, BackedUp, Repaired

-----------------------------------------------------------------------------
(* What leaves an invariant alone. *)

LEMMA Unmoved ==
  ASSUME UNCHANGED <<systemd, owner>>
  PROVE  /\ Hidden' = Hidden /\ Owed' = Owed /\ Pending' = Pending
         /\ \A choices : Honest(choices)' <=> Honest(choices)
BY DEF systemd, Hidden, Owed, Tracked, Pending, Honest

\* A query that fails only takes claims back.
LEMMA FilesGrow ==
  ASSUME FilesInv, UNCHANGED <<systemd, original, files>>, misread \subseteq misread'
  PROVE  FilesInv'
<1>1. Hidden' = Hidden /\ Owed' \subseteq Owed
  BY DEF systemd, Hidden, Owed, Tracked
<1>2. \A choices : Honest(choices) => Honest(choices)'
  BY DEF systemd, Honest
<1> QED BY <1>1, <1>2 DEF FilesInv, files, Found, Decodes, Honest

LEMMA FilesFrame ==
  ASSUME FilesInv, UNCHANGED <<systemd, owner, files>>
  PROVE  FilesInv'
BY FilesGrow

\* A save that is cut short at any point leaves files that know enough, if what
\* it was to write does.
LEMMA SaveFiles ==
  ASSUME TypeOK, FilesInv, NEW new \in Choices, Honest(new), Owed \subseteq new.known,
         snap' \in {snap, Repaired, BackedUp(new), Written(new)},
         UNCHANGED <<systemd, owner, legacy>>
  PROVE  FilesInv'
<1> DEFINE Knows(c) == Honest(c) /\ Owed \subseteq c.known
<1>1. Found => Snapshot \in Choices /\ Knows(Snapshot)
  BY SnapshotType DEF FilesInv
<1>2. \A name \in Files : snap[name] \in Choices => Knows(snap[name])
  BY DEF FilesInv, Decodes
<1>3. Knows(new)
  OBVIOUS
<1>4. Honest(legacy)' /\ (Hidden' = Hidden) /\ (Owed' = Owed)
  BY Unmoved DEF FilesInv
<1>5. ASSUME NEW name \in Files, Decodes(name)'
      PROVE  snap'[name] \in Choices /\ Knows(snap'[name])
  <2>1. snap'[name] \in Choices
    BY <1>5 DEF Decodes
  <2>2. snap'[name] = snap[name] \/ snap'[name] = new \/ (Found /\ snap'[name] = Snapshot)
    BY WrittenFiles DEF Files
  <2> QED BY <1>1, <1>2, <1>3, <2>1, <2>2
<1>6. ASSUME NEW name \in Files, Decodes(name)'
      PROVE  (Honest(snap[name]) /\ Owed \subseteq snap[name].known)'
  <2>1. Honest(snap'[name]) /\ Owed \subseteq snap'[name].known
    BY <1>5, <1>6
  <2> QED BY <1>4, <2>1 DEF Honest, systemd
<1> HIDE DEF Knows
<1>7. ASSUME ~Found'
      PROVE  ~Found /\ snap' = snap
  <2>1. snap \in [Files -> Contents] /\ Files = {"primary", "backup"}
    BY DEF TypeOK, Files
  <2>2. CASE Found
    <3>1. snap'["primary"] = Snapshot \/ snap'["backup"] = Snapshot \/ snap' = snap
      BY <2>2, WrittenFiles
    <3> QED BY <1>1, <1>7, <2>1, <2>2, <3>1 DEF Found, Decodes
  <2>3. CASE ~Found
    <3>1. Repaired = snap
      BY <2>3 DEF Repaired
    <3>2. BackedUp(new)["backup"] = new /\ Written(new)["backup"] = new
      BY <2>3, WrittenFiles
    <3>3. snap' \notin {BackedUp(new), Written(new)}
      BY <1>7, <2>1, <3>2 DEF Found, Decodes
    <3> QED BY <2>3, <3>1, <3>3
  <2> QED BY <2>2, <2>3
<1> QED BY <1>4, <1>6, <1>7 DEF FilesInv

\* A command that returns leaves no memory behind.
LEMMA ReturnInv ==
  ASSUME Inv, NEW how \in {"installed", "restored", "failed"}, Return(how),
         UNCHANGED <<present, owner>>, masked' \subseteq present,
         enabled' \subseteq original \cup {"xochitl"}, enabled' \subseteq present,
         fault' \in BOOLEAN, how = "failed" => fault',
         how = "restored" /\ "sync" \notin Arrivals =>
           /\ masked' \subseteq misread \cap {"sync"}
           /\ (original \cup {"xochitl"}) \ misread \subseteq enabled',
         snap' \in [Files -> Contents], legacy' \in Choices, FilesInv'
  PROVE  Inv'
<1>1. /\ mem' = NoChoices /\ ~detected' /\ todo' = {} /\ ~errs'
      /\ op' = "none" /\ pc' = "idle" /\ outcome' = how
  BY DEF Return
<1>2. TypeOK'
  <2>1. detected' = FALSE /\ errs' = FALSE
    BY DEF Return
  <2>2. masked' \in SUBSET Units /\ original' \in SUBSET Units /\ present' \in SUBSET Units
        /\ misread' \in SUBSET Units
        /\ enabled' \in SUBSET present'
    BY DEF Inv, TypeOK
  <2> QED BY <1>1, <2>1, <2>2, NothingChosen DEF TypeOK
<1>3. ControlInv' /\ SystemdInv'
  BY <1>1 DEF Inv, ControlInv, SystemdInv, Repeatable
<1>4. MemoryInv'
  <2>1. Honest(mem)'
    BY <1>1, NothingChosen DEF Honest
  <2> QED BY <1>1, <2>1 DEF MemoryInv
<1>5. RestoreInv'
  BY <1>1 DEF RestoreInv, RestoreFaithful
<1> QED BY <1>2, <1>3, <1>4, <1>5 DEF Inv

\* A command that fails at a call that leaves systemd alone.
LEMMA AbortInv ==
  ASSUME Inv, NEW kind, Abort(kind), UNCHANGED <<systemd, owner>>,
         snap' \in [Files -> Contents], legacy' \in Choices, FilesInv'
  PROVE  Inv'
<1>1. Return("failed") /\ fault' = TRUE
  BY DEF Abort
<1> QED BY <1>1, ReturnInv DEF systemd, Inv, TypeOK, SystemdInv

\* One that fails before it touched a file either.
LEMMA AbortFrame ==
  ASSUME Inv, NEW kind, Abort(kind), UNCHANGED <<systemd, owner, files>>
  PROVE  Inv'
<1>1. FilesInv'
  BY FilesFrame DEF Inv
<1>2. snap' \in [Files -> Contents] /\ legacy' \in Choices
  BY DEF files, Inv, TypeOK
<1> QED BY <1>1, <1>2, AbortInv

-----------------------------------------------------------------------------
(* The two commands up to the point where they touch a service. *)

LEMMA LifecycleInit == Init => Inv
<1> SUFFICES ASSUME Init PROVE Inv
  OBVIOUS
<1>1. snap \in [Files -> Contents] /\ (\A name \in Files : snap[name] = Missing) /\ ~Found
  BY NotChoices DEF Init, Contents, Found, Decodes
<1>2. CASE enabled = original /\ masked = {} /\ legacy = NoChoices
  <2>1. TypeOK
    BY <1>1, <1>2, NothingChosen DEF Init, TypeOK
  <2>2. FilesInv
    BY <1>1, <1>2, NothingChosen DEF FilesInv, Hidden, Found
  <2>3. ControlInv /\ SystemdInv /\ MemoryInv /\ RestoreInv
    BY <1>2, NothingChosen
       DEF Init, ControlInv, SystemdInv, MemoryInv, RestoreInv, Repeatable, RestoreFaithful
  <2> QED BY <2>1, <2>2, <2>3 DEF Inv
<1> DEFINE took == present \cap {"xochitl", "sync"}
<1>3. CASE /\ masked = took /\ enabled = original \ took
           /\ legacy = [known |-> took \ {"xochitl"}, on |-> original \cap took]
  <2>1. legacy \in Choices /\ legacy.known = took \ {"xochitl"}
    BY <1>3, UnitNames DEF Choices, Init, Units
  <2>2. TypeOK
    BY <1>1, <1>3, <2>1, NothingChosen DEF Init, TypeOK, Units
  <2>3. Hidden \subseteq legacy.known /\ Owed \subseteq legacy.known
    BY <1>3, <2>1 DEF Hidden, Owed, Services, Tracked, Init
  <2>4. Honest(legacy)
    BY <1>3, <2>1 DEF Honest
  <2>5. FilesInv
    BY <1>1, <2>3, <2>4 DEF FilesInv, Found
  <2>6. ControlInv /\ SystemdInv /\ MemoryInv /\ RestoreInv
    BY <1>3, NothingChosen
       DEF Init, ControlInv, SystemdInv, MemoryInv, RestoreInv, Repeatable, RestoreFaithful
  <2> QED BY <2>2, <2>5, <2>6 DEF Inv
<1> QED BY <1>2, <1>3 DEF Init

LEMMA BeginStep ==
  ASSUME Inv, NEW command \in {"install", "restore"}, Begin(command)
  PROVE  Inv'
<1>1. /\ pc = "idle" /\ pc' = "load" /\ op' = command /\ outcome' = "none" /\ fault' = FALSE
      /\ UNCHANGED <<systemd, owner, files, memory>>
  BY DEF Begin
<1>2. FilesInv'
  BY <1>1, FilesFrame DEF Inv
<1>3. TypeOK' /\ ControlInv' /\ SystemdInv'
  BY <1>1 DEF Inv, TypeOK, ControlInv, SystemdInv, Repeatable, systemd, files, memory
<1>4. MemoryInv'
  <2>1. Honest(mem)'
    BY <1>1 DEF Inv, MemoryInv, Honest, memory, systemd
  <2> QED BY <1>1, <2>1 DEF Inv, MemoryInv, Recording, Disabling, memory, systemd
<1>5. RestoreInv'
  BY <1>1 DEF RestoreInv, RestoreFaithful
<1> QED BY <1>2, <1>3, <1>4, <1>5 DEF Inv

\* A load reconciles the files with the legacy fields, and repairs the primary.
LEMMA LoadStep ==
  ASSUME Inv, LoadState
  PROVE  Inv'
<1>1. /\ pc = "load" /\ op \in {"install", "restore"} /\ ~errs /\ outcome = "none"
      /\ UNCHANGED <<systemd, owner, legacy>>
  BY DEF LoadState, Inv, ControlInv, TypeOK
<1>2. CASE Found /\ mem' = Reconciled /\ snap' = Repaired /\ Goto(AfterLoad)
           /\ UNCHANGED <<detected, todo, errs, outcome, fault>>
  <2>1. /\ Snapshot \in Choices /\ Honest(Snapshot) /\ Owed \subseteq Snapshot.known
        /\ mem' = Snapshot
    BY <1>2, SnapshotType DEF Inv, FilesInv, Reconciled
  <2>2. snap' \in [Files -> Contents] /\ snap'["primary"] = Snapshot
    BY <1>2, <2>1, WrittenFiles DEF Inv
  <2>3. FilesInv'
    BY <1>1, <1>2, <2>1, SaveFiles DEF Inv
  <2>4. op' = op /\ pc' = IF op = "install" THEN "detect" ELSE "quiesce"
    BY <1>2 DEF Goto, AfterLoad
  <2>5. TypeOK' /\ ControlInv' /\ SystemdInv' /\ RestoreInv'
    BY <1>1, <1>2, <2>1, <2>2, <2>4
       DEF Inv, TypeOK, ControlInv, SystemdInv, RestoreInv, RestoreFaithful, Repeatable, systemd
  <2>6. MemoryInv'
    <3>1. Honest(mem)'
      BY <1>1, <2>1 DEF Honest, systemd
    <3>2. Decodes("primary")' /\ Found' /\ Loaded' = mem'
      BY <2>1, <2>2 DEF Decodes, Found, Loaded, Files
    <3>3. detected' => "sync" \in present'
      BY <1>1, <1>2 DEF Inv, MemoryInv, systemd
    <3>4. todo' = {}
      BY <1>1, <1>2 DEF Inv, MemoryInv
    <3> QED BY <1>2, <2>4, <3>1, <3>2, <3>3, <3>4 DEF MemoryInv, Recording, Disabling
  <2> QED BY <2>3, <2>5, <2>6 DEF Inv
<1>3. CASE /\ ~Found /\ mem' = Reconciled
           /\ Goto(IF Reconciled = NoChoices THEN AfterLoad ELSE "migrate")
           /\ UNCHANGED <<snap, detected, todo, errs, outcome, fault>>
  <2>1. legacy \in Choices /\ Honest(legacy) /\ mem' = legacy /\ ~Found'
    BY <1>1, <1>3 DEF Inv, TypeOK, FilesInv, Reconciled, Found, Decodes
  <2>2. FilesInv'
    BY <1>1, <1>3, FilesFrame DEF Inv, files
  <2>3. /\ op' = op
        /\ pc' = IF legacy = NoChoices THEN (IF op = "install" THEN "detect" ELSE "quiesce")
                 ELSE "migrate"
    BY <1>3 DEF Goto, AfterLoad, Reconciled
  <2>4. TypeOK' /\ ControlInv' /\ SystemdInv' /\ RestoreInv'
    BY <1>1, <1>3, <2>1, <2>3
       DEF Inv, TypeOK, ControlInv, SystemdInv, RestoreInv, RestoreFaithful, Repeatable, systemd
  <2>5. MemoryInv'
    <3>1. Honest(mem)'
      BY <1>1, <2>1 DEF Honest, systemd
    <3>2. /\ detected' => "sync" \in present'
          /\ todo' = {}
      BY <1>1, <1>3 DEF Inv, MemoryInv, systemd
    <3> QED BY <1>1, <2>1, <2>3, <3>1, <3>2 DEF MemoryInv, Recording, Disabling, Loaded
  <2> QED BY <2>2, <2>4, <2>5 DEF Inv
<1>4. ~Unreadable
  BY NotChoices DEF Inv, FilesInv, Unreadable
<1>5. CASE Abort("write") /\ UNCHANGED snap
  BY <1>1, <1>5, AbortFrame DEF files
<1> QED BY <1>2, <1>3, <1>4, <1>5 DEF LoadState

\* One save of choices that are honest and complete, interrupted or not; what a
\* completed one leaves in memory is for the caller to say.
LEMMA SaveStep ==
  ASSUME Inv, NEW new \in Choices, Honest(new), Owed \subseteq new.known,
         NEW next \in {"migrateBackup", "detect", "quiesce", "recordBackup", "state"},
         SaveSnapshot(new, next), UNCHANGED <<systemd, owner, legacy>>,
         op \in {"install", "restore"}, pc \notin {"idle", "load"},
         next = "quiesce" <=> op = "restore" /\ next # "migrateBackup",
         snap' = Written(new) /\ pc' = next /\ op' = op /\ UNCHANGED memory => MemoryInv'
  PROVE  Inv'
<1>1. snap' \in {snap, Repaired, BackedUp(new), Written(new)}
  BY DEF SaveSnapshot
<1>2. snap' \in [Files -> Contents] /\ legacy' \in Choices
  BY <1>1, WrittenFiles DEF Inv, TypeOK
<1>3. FilesInv'
  BY <1>1, SaveFiles DEF Inv
<1>4. CASE Abort("write")
  BY <1>2, <1>3, <1>4, AbortInv
<1>5. CASE snap' = Written(new) /\ Goto(next) /\ UNCHANGED <<memory, outcome, fault>>
  <2>1. TypeOK' /\ ControlInv' /\ SystemdInv' /\ RestoreInv'
    BY <1>2, <1>5
       DEF Goto, Inv, TypeOK, ControlInv, SystemdInv, RestoreInv, RestoreFaithful,
           Repeatable, systemd, memory
  <2>2. MemoryInv'
    BY <1>5 DEF Goto
  <2> QED BY <1>3, <2>1, <2>2 DEF Inv
<1> QED BY <1>4, <1>5 DEF SaveSnapshot

\* The legacy fields become a snapshot, twice, so that both copies hold it.
LEMMA MigrateStep ==
  ASSUME Inv, Migrate
  PROVE  Inv'
<1>1. /\ pc \in {"migrate", "migrateBackup"} /\ op \in {"install", "restore"}
      /\ UNCHANGED <<systemd, owner, legacy>>
      /\ mem = legacy /\ legacy \in Choices /\ Honest(legacy)
  BY DEF Migrate, Inv, ControlInv, TypeOK, MemoryInv, FilesInv
<1>2. Owed \subseteq legacy.known
  <2>1. CASE pc = "migrate"
    BY <2>1 DEF Inv, MemoryInv, FilesInv
  <2>2. CASE pc = "migrateBackup"
    BY <1>1, <2>2 DEF Inv, MemoryInv, FilesInv, Files, Decodes
  <2> QED BY <1>1, <2>1, <2>2
<1>3. /\ Written(legacy)["primary"] = legacy
      /\ Written(legacy)["backup"] = legacy
  <2>1. CASE pc = "migrate"
    BY <1>1, <2>1, WrittenFiles DEF Inv, MemoryInv
  <2>2. CASE pc = "migrateBackup"
    <3>1. Found /\ Snapshot = legacy
      BY <1>1, <2>2 DEF Inv, MemoryInv, Found, Snapshot, Decodes, Files
    <3> QED BY <1>1, <3>1, WrittenFiles DEF Inv
  <2> QED BY <1>1, <2>1, <2>2
<1> DEFINE next == IF pc = "migrate" THEN "migrateBackup" ELSE AfterLoad
<1>4. SaveSnapshot(legacy, next)
  BY DEF Migrate, LastSave
<1>5. /\ next \in {"migrateBackup", "detect", "quiesce"}
      /\ next = "quiesce" <=> op = "restore" /\ next # "migrateBackup"
  BY <1>1 DEF AfterLoad
<1> HIDE DEF next
<1>6. ASSUME snap' = Written(legacy), pc' = next, UNCHANGED memory
      PROVE  MemoryInv'
  <2>1. /\ Honest(mem)' /\ mem' = legacy' /\ todo' \subseteq mem'.known
        /\ (detected' => "sync" \in present')
    BY <1>1, <1>6 DEF Honest, Inv, MemoryInv, systemd, memory
  <2>2. \A name \in Files : snap'[name] = legacy'
    BY <1>1, <1>3, <1>6 DEF Files
  <2>3. Found' /\ Decodes("primary")' /\ Loaded' = mem'
    BY <1>1, <2>1, <2>2 DEF Found, Decodes, Files, Loaded
  <2> QED BY <1>5, <1>6, <2>1, <2>2, <2>3 DEF MemoryInv, Recording, Disabling
<1>7. pc \notin {"idle", "load"}
  BY <1>1
<1> QED BY <1>1, <1>2, <1>4, <1>5, <1>6, <1>7, SaveStep

\* What install reads of a service is the owner's choice, because it reads only
\* services that nothing has hidden yet; unless the query fails.
LEMMA DetectStep ==
  ASSUME Inv, Detect
  PROVE  Inv'
<1>1. /\ pc = "detect" /\ op = "install" /\ UNCHANGED <<systemd, original, files>>
      /\ mem \in Choices /\ Honest(mem) /\ mem = Loaded
      /\ present \subseteq Units /\ enabled \subseteq original \cup {"xochitl"}
      /\ misread \subseteq Units
  BY DEF Detect, Inv, ControlInv, TypeOK, MemoryInv, SystemdInv
<1>2. CASE Abort("write") /\ UNCHANGED misread
  BY <1>1, <1>2, AbortFrame
<1>3. ASSUME NEW unseen \in Unanswered(present \ {"xochitl"}),
             NEW unread \in Unanswered({u \in present : Enabled(u)}),
             LET found == present \ unseen
                 on    == {u \in found : Enabled(u)} \ unread
                 stock == found \cap {"sync"}
                 base  == IF Unrecorded
                          THEN [known |-> stock, on |-> on \cap (stock \cup {"xochitl"})]
                          ELSE mem
                 fresh == (found \cap Noise) \ base.known
                 noted == fresh \cup (IF Unrecorded THEN present \cap {"sync"} ELSE {})
             IN /\ detected' = (stock # {})
                /\ mem' = [known |-> base.known \cup fresh, on |-> base.on \cup (on \cap fresh)]
                /\ misread' = misread \cup (noted \cap (unseen \cup unread))
                /\ Goto("record")
                /\ UNCHANGED <<todo, errs, outcome, fault>>
      PROVE  Inv'
  <2> DEFINE found == present \ unseen
             on == {u \in found : Enabled(u)} \ unread
             stock == found \cap {"sync"}
             base == IF Unrecorded
                     THEN [known |-> stock, on |-> on \cap (stock \cup {"xochitl"})]
                     ELSE mem
             fresh == (found \cap Noise) \ base.known
             noted == fresh \cup (IF Unrecorded THEN present \cap {"sync"} ELSE {})
             seen == [known |-> base.known \cup fresh, on |-> base.on \cup (on \cap fresh)]
  <2>0. /\ found = present \ unseen
        /\ on = {u \in found : Enabled(u)} \ unread
        /\ stock = found \cap {"sync"}
        /\ base = IF Unrecorded
                  THEN [known |-> stock, on |-> on \cap (stock \cup {"xochitl"})]
                  ELSE mem
        /\ fresh = (found \cap Noise) \ base.known
        /\ noted = fresh \cup (IF Unrecorded THEN present \cap {"sync"} ELSE {})
        /\ seen = [known |-> base.known \cup fresh, on |-> base.on \cup (on \cap fresh)]
        /\ detected' = (stock # {}) /\ mem' = seen
        /\ misread' = misread \cup (noted \cap (unseen \cup unread))
        /\ Goto("record") /\ UNCHANGED <<todo, errs, outcome, fault>>
    BY <1>3
  <2> HIDE DEF found, on, stock, base, fresh, noted, seen
  <2>1. \A u \in Services \ Hidden : Enabled(u) <=> u \in original
    BY <1>1 DEF Services, Hidden, Enabled
  <2>2. /\ fresh \subseteq Services /\ stock \subseteq Services /\ fresh \subseteq present
        /\ misread \subseteq misread' /\ misread' \in SUBSET Units
    BY <1>1, <2>0, UnitNames DEF Services, Units
  <2>3. Owed' \subseteq Owed /\ (misread' = misread => Owed' = Owed) /\ Hidden' = Hidden
    BY <1>1, <2>2 DEF Owed, Tracked, Hidden, systemd
  <2>4. ASSUME fresh \cap Hidden = {}
        PROVE  \A u \in fresh : /\ u \in on => u \in original
                                /\ u \in original \ misread' => u \in on
    <3> SUFFICES ASSUME NEW u \in fresh
                 PROVE  /\ u \in on => u \in original
                        /\ u \in original \ misread' => u \in on
      OBVIOUS
    <3>1. Enabled(u) <=> u \in original
      BY <2>1, <2>2, <2>4
    <3>2. u \in found /\ (u \in unread => u \in misread')
      BY <2>0
    <3> QED BY <2>0, <3>1, <3>2
  <2>5. ASSUME Found
        PROVE  /\ seen \in Choices /\ Honest(mem)' /\ Owed' \subseteq seen.known
               /\ mem.known \subseteq seen.known
               /\ Found => Snapshot.known \subseteq seen.known
                             /\ seen.known \subseteq Snapshot.known \cup Noise
    <3>1. Decodes("primary") /\ Snapshot = mem /\ Owed \subseteq mem.known
      BY <1>1, <2>5 DEF Inv, MemoryInv, FilesInv, Loaded, Snapshot, Files
    <3>2. base = mem /\ base.known = mem.known /\ base.on = mem.on
      BY <2>0, <2>5 DEF Unrecorded
    <3>3. fresh \cap Hidden = {} /\ fresh \cap mem.known = {} /\ fresh \subseteq Noise
      BY <2>0, <3>1, <3>2, UnitNames DEF Owed
    <3>4. seen.known = mem.known \cup fresh /\ seen.on = mem.on \cup (on \cap fresh)
          /\ seen = [known |-> mem.known \cup fresh, on |-> mem.on \cup (on \cap fresh)]
      BY <2>0, <3>2
    <3>5. seen \in Choices
      BY <1>1, <2>2, <3>4 DEF Choices, Services
    <3>6. mem.on \cap fresh = {}
      BY <1>1, <3>3, UnitNames DEF Choices
    <3>7. Honest(mem)'
      <4>1. /\ mem.on \cap mem.known \subseteq original
            /\ (mem.known \cap original) \ misread' \subseteq mem.on
            /\ mem.known \subseteq present
        BY <1>1, <2>2 DEF Honest
      <4>2. seen.on \cap seen.known \subseteq original
        BY <2>4, <3>3, <3>4, <3>6, <4>1
      <4>3. (seen.known \cap original) \ misread' \subseteq seen.on
        BY <2>4, <3>3, <3>4, <4>1
      <4> QED BY <1>1, <2>0, <2>2, <3>4, <4>1, <4>2, <4>3 DEF Honest, systemd
    <3>8. Owed' \subseteq seen.known /\ mem.known \subseteq seen.known
      BY <2>3, <3>1, <3>4
    <3>9. seen.known \subseteq Snapshot.known \cup Noise /\ Snapshot.known \subseteq seen.known
      BY <3>1, <3>3, <3>4
    <3> QED BY <3>5, <3>7, <3>8, <3>9
  <2>6. ASSUME ~Found
        PROVE  /\ seen \in Choices /\ Honest(mem)' /\ Owed' \subseteq seen.known
               /\ mem.known \subseteq seen.known
               /\ Found => Snapshot.known \subseteq seen.known
                             /\ seen.known \subseteq Snapshot.known \cup Noise
    <3>1. mem = NoChoices /\ legacy = NoChoices /\ Hidden = {}
      BY <1>1, <2>6, NothingChosen DEF Inv, MemoryInv, FilesInv, Loaded
    <3>2. Unrecorded
      BY <2>6, <3>1, NothingChosen DEF Unrecorded, NoChoices
    <3>3. base = [known |-> stock, on |-> on \cap (stock \cup {"xochitl"})]
      BY <2>0, <3>2
    <3>4. /\ seen.known = stock \cup fresh
          /\ seen.on = (on \cap (stock \cup {"xochitl"})) \cup (on \cap fresh)
          /\ seen = [known |-> seen.known, on |-> seen.on]
      BY <2>0, <3>3
    <3>5. seen \in Choices
      BY <2>2, <3>4 DEF Choices, Services, Units
    <3>6. "xochitl" \notin seen.known
      BY <2>2, <3>4 DEF Services
    <3>7. \A u \in stock : /\ u \in on => u \in original
                           /\ u \in original \ misread' => u \in on
      <4> SUFFICES ASSUME NEW u \in stock
                   PROVE  /\ u \in on => u \in original
                          /\ u \in original \ misread' => u \in on
        OBVIOUS
      <4>1. Enabled(u) <=> u \in original
        BY <2>1, <2>2, <3>1
      <4>2. u \in found /\ (u \in unread => u \in misread')
        BY <2>0, <3>2
      <4> QED BY <2>0, <4>1, <4>2
    <3>8. Honest(mem)'
      <4>1. stock \subseteq present
        BY <2>0
      <4>2. seen.on \cap seen.known \subseteq original
        BY <2>4, <3>1, <3>4, <3>6, <3>7
      <4>3. (seen.known \cap original) \ misread' \subseteq seen.on
        BY <2>4, <3>1, <3>4, <3>7
      <4> QED BY <1>1, <2>0, <2>2, <3>4, <4>1, <4>2, <4>3 DEF Honest, systemd
    <3>9. Owed' \subseteq seen.known
      <4>1. Owed' \subseteq Tracked' \cap (present \cap {"sync"})
        BY <1>1, <2>3, <3>1 DEF Owed, systemd
      <4>2. "sync" \in present /\ "sync" \notin stock => "sync" \in misread'
        BY <2>0, <3>2
      <4> QED BY <3>4, <4>1, <4>2 DEF Tracked
    <3> QED BY <2>6, <3>1, <3>5, <3>8, <3>9, NothingChosen
  <2>7. /\ seen \in Choices /\ Honest(mem)' /\ Owed' \subseteq seen.known
        /\ mem.known \subseteq seen.known
        /\ Found => Snapshot.known \subseteq seen.known /\ seen.known \subseteq Snapshot.known \cup Noise
    BY <2>5, <2>6
  <2>8. TypeOK' /\ ControlInv' /\ SystemdInv' /\ RestoreInv'
    BY <1>1, <2>0, <2>2, <2>7
       DEF Goto, Inv, TypeOK, ControlInv, SystemdInv, RestoreInv, RestoreFaithful,
           Repeatable, systemd, files
  <2>9. FilesInv'
    BY <1>1, <2>2, FilesGrow DEF Inv
  <2>10. MemoryInv'
    <3>1. Honest(mem)' /\ (Owed \subseteq mem.known)' /\ todo' \subseteq mem'.known
      BY <2>0, <2>7 DEF Honest, Inv, MemoryInv
    <3>2. detected' => "sync" \in present'
      BY <1>1, <2>0 DEF systemd
    <3>3. Found' = Found /\ Snapshot' = Snapshot
      BY <1>1 DEF files, Found, Snapshot, Decodes
    <3> QED BY <1>1, <2>0, <2>7, <3>1, <3>2, <3>3 DEF Goto, MemoryInv, Disabling
  <2> QED BY <2>8, <2>9, <2>10 DEF Inv
<1> QED BY <1>2, <1>3 DEF Detect

\* Merging what was read into the snapshot changes neither: memory knows the
\* snapshot's services and new noise services only.
LEMMA RecordedHonest ==
  ASSUME Inv, pc \in {"record", "recordBackup"}
  PROVE  /\ Recorded \in Choices /\ Honest(Recorded) /\ Owed \subseteq Recorded.known
         /\ Recorded.known = mem.known
<1>1. /\ op = "install" /\ mem \in Choices /\ Honest(mem) /\ Owed \subseteq mem.known
  BY DEF Inv, ControlInv, TypeOK, MemoryInv, Recording
<1>2. CASE ~Found
  BY <1>1, <1>2 DEF Recorded
<1>3. CASE Found
  <2>1. Snapshot \in Choices /\ Honest(Snapshot)
    BY <1>3, SnapshotType DEF Inv, FilesInv
  <2>2. Snapshot.known \subseteq mem.known /\ mem.known \subseteq Snapshot.known \cup Noise
    <3>1. CASE pc = "record"
      BY <1>3, <3>1 DEF Inv, MemoryInv
    <3>2. CASE pc = "recordBackup"
      BY <3>2 DEF Inv, MemoryInv, Snapshot
    <3> QED BY <3>1, <3>2
  <2> DEFINE fresh == (mem.known \cap Noise) \ Snapshot.known
             known == Snapshot.known \cup fresh
             on == Snapshot.on \cup (mem.on \cap fresh)
  <2>3. Recorded = [known |-> known, on |-> on]
    BY <1>3 DEF Recorded, Merged
  <2>4. known = mem.known
    BY <2>2
  <2>5. on \subseteq known \cup {"xochitl"}
    BY <2>1 DEF Choices
  <2>6. on \cap known \subseteq original /\ (known \cap original) \ misread \subseteq on
    <3>1. Snapshot.on \cap fresh = {}
      BY <2>1, UnitNames DEF Choices
    <3>2. /\ Snapshot.on \cap Snapshot.known \subseteq original
          /\ (Snapshot.known \cap original) \ misread \subseteq Snapshot.on
      BY <2>1 DEF Honest
    <3>3. mem.on \cap fresh \subseteq original /\ (fresh \cap original) \ misread \subseteq mem.on
      BY <1>1 DEF Honest
    <3> QED BY <3>1, <3>2, <3>3
  <2>7. known \subseteq Units \ {"xochitl"}
    BY <1>1, <2>4 DEF Choices
  <2> HIDE DEF known, on
  <2>8. Recorded.known = known /\ Recorded.on = on
    BY <2>3
  <2>9. Recorded \in Choices
    BY <2>3, <2>5, <2>7 DEF Choices, Units
  <2>10. Honest(Recorded)
    BY <1>1, <2>4, <2>6, <2>8 DEF Honest
  <2> QED BY <1>1, <2>4, <2>8, <2>9, <2>10
<1> QED BY <1>2, <1>3

LEMMA RecordStep ==
  ASSUME Inv, Record
  PROVE  Inv'
<1>1. /\ pc \in {"record", "recordBackup"} /\ op = "install"
      /\ UNCHANGED <<systemd, owner, legacy>>
  BY DEF Record, Inv, ControlInv
<1> DEFINE next == IF pc = "record" /\ ~LastSave(~Found \/ Recorded # Snapshot)
                   THEN "recordBackup" ELSE "state"
<1>2. SaveSnapshot(Recorded, next)
  BY DEF Record
<1>3. next \in {"state", "recordBackup"}
  OBVIOUS
<1>4. next = "state" => Found /\ Snapshot.known = Recorded.known
  <2>1. CASE pc = "record"
    BY <2>1 DEF LastSave
  <2>2. CASE pc = "recordBackup"
    BY <2>2, RecordedHonest DEF Inv, MemoryInv, Found, Snapshot, Files
  <2> QED BY <1>1, <2>1, <2>2
<1> HIDE DEF next
<1>5. ASSUME snap' = Written(Recorded), pc' = next, op' = op, UNCHANGED memory
      PROVE  MemoryInv'
  <2>1. /\ Honest(mem)' /\ (Owed \subseteq mem.known)' /\ todo' \subseteq mem'.known
        /\ (detected' => "sync" \in present')
    BY <1>1, <1>5, Unmoved DEF Honest, Inv, MemoryInv, systemd, memory, Recording
  <2>2. snap'["primary"] = Recorded /\ mem' = mem
    BY <1>1, <1>5, RecordedHonest, WrittenFiles DEF Inv, memory
  <2>3. Decodes("primary")' /\ snap'["primary"].known = mem'.known
    BY <1>1, <2>2, RecordedHonest DEF Decodes
  <2>4. CASE next = "recordBackup"
    BY <1>5, <2>1, <2>3, <2>4 DEF MemoryInv, Disabling
  <2>5. CASE next = "state"
    <3>1. snap'["backup"] = Snapshot /\ Snapshot \in Choices /\ Snapshot.known = mem.known
      BY <1>1, <1>4, <1>5, <2>5, RecordedHonest, WrittenFiles, SnapshotType DEF Inv
    <3>2. \A name \in Files : Decodes(name)' /\ snap'[name].known = mem'.known
      BY <2>2, <2>3, <3>1 DEF Decodes, Files
    <3> QED BY <1>5, <2>1, <2>5, <3>2 DEF MemoryInv
  <2> QED BY <1>3, <2>4, <2>5
<1>6. /\ pc \notin {"idle", "load"} /\ op \in {"install", "restore"}
      /\ next \in {"migrateBackup", "detect", "quiesce", "recordBackup", "state"}
      /\ next = "quiesce" <=> op = "restore" /\ next # "migrateBackup"
  BY <1>1, <1>3
<1> QED BY <1>1, <1>2, <1>5, <1>6, RecordedHonest, SaveStep

\* state.json takes the choices of the snapshot, which is whole by now.
LEMMA SaveStateStep ==
  ASSUME Inv, SaveState
  PROVE  Inv'
<1>1. /\ pc = "state" /\ op = "install" /\ UNCHANGED <<systemd, owner>>
      /\ \A name \in Files : Decodes(name) /\ snap[name].known = mem.known
  BY DEF SaveState, Inv, ControlInv, MemoryInv, Disabling
<1>2. /\ Found /\ Snapshot \in Choices /\ Honest(Snapshot)
      /\ Snapshot = snap["primary"]
  BY <1>1, SnapshotType DEF Inv, FilesInv, Found, Files, Snapshot
<1>3. Repaired = snap
  BY <1>2 DEF Repaired, Inv, TypeOK
<1>4. snap' = snap /\ legacy' \in {legacy, Snapshot}
  BY <1>3 DEF SaveState
<1>5. FilesInv'
  <2>1. Found' /\ Honest(legacy)'
    BY <1>1, <1>2, <1>4 DEF Inv, FilesInv, Found, Decodes, Honest, systemd
  <2>2. \A name \in Files : Decodes(name)' => (Honest(snap[name]) /\ Owed \subseteq snap[name].known)'
    BY <1>1, <1>4, Unmoved DEF Inv, FilesInv, Honest, Decodes, systemd
  <2> QED BY <2>1, <2>2 DEF FilesInv
<1>6. snap' \in [Files -> Contents] /\ legacy' \in Choices
  BY <1>2, <1>4 DEF Inv, TypeOK
<1>7. CASE Abort("write")
  BY <1>1, <1>5, <1>6, <1>7, AbortInv
<1>8. CASE /\ todo' = mem.known \cap Noise /\ Goto("reload")
           /\ UNCHANGED <<mem, detected, errs, outcome, fault>>
  <2>1. TypeOK' /\ ControlInv' /\ SystemdInv' /\ RestoreInv'
    BY <1>1, <1>6, <1>8
       DEF Goto, Inv, TypeOK, ControlInv, SystemdInv, RestoreInv, RestoreFaithful,
           Repeatable, systemd
  <2>2. MemoryInv'
    <3>1. /\ Honest(mem)' /\ (Owed \subseteq mem.known)' /\ todo' \subseteq mem'.known
          /\ (detected' => "sync" \in present')
      BY <1>1, <1>8, Unmoved DEF Honest, Inv, MemoryInv, systemd, Recording
    <3>2. \A name \in Files : Decodes(name)' /\ snap'[name].known = mem'.known
      BY <1>1, <1>4, <1>8 DEF Decodes
    <3> QED BY <1>1, <1>8, <3>1, <3>2 DEF Goto, MemoryInv
  <2> QED BY <1>5, <2>1, <2>2 DEF Inv
<1> QED BY <1>7, <1>8 DEF SaveState

LEMMA ReloadStep ==
  ASSUME Inv, Reload
  PROVE  Inv'
<1>1. /\ pc = "reload" /\ op = "install" /\ UNCHANGED <<systemd, owner, files>>
  BY DEF Reload, Inv, ControlInv
<1>2. CASE Abort("command")
  BY <1>1, <1>2, AbortFrame
<1>3. CASE Goto("ui") /\ UNCHANGED <<memory, outcome, fault>>
  <2>1. TypeOK' /\ ControlInv' /\ SystemdInv' /\ RestoreInv'
    BY <1>1, <1>3
       DEF Goto, Inv, TypeOK, ControlInv, SystemdInv, RestoreInv, RestoreFaithful,
           Repeatable, systemd, memory, files
  <2>2. FilesInv'
    BY <1>1, FilesFrame DEF Inv
  <2>3. MemoryInv'
    BY <1>1, <1>3, Unmoved
       DEF Goto, Honest, Inv, MemoryInv, systemd, memory, files, Recording, Disabling, Decodes
  <2> QED BY <2>1, <2>2, <2>3 DEF Inv
<1> QED BY <1>2, <1>3 DEF Reload

-----------------------------------------------------------------------------
(* The services. *)

\* Install hides a service only after every copy knows it.
LEMMA HideOne ==
  ASSUME Inv, op = "install", pc \in Disabling,
         NEW unit \in mem.known \cup (present \cap {"xochitl", "sync"}), HalfDisabled(unit),
         UNCHANGED <<owner, files>>
  PROVE  /\ SystemdInv' /\ FilesInv' /\ present' = present
         /\ masked' \in SUBSET Units /\ enabled' \in SUBSET present'
         /\ mem' = mem => Honest(mem)' /\ (Owed \subseteq mem.known)'
<1>1. /\ enabled' \subseteq enabled /\ masked' \subseteq masked \cup {unit} /\ present' = present
      /\ original' = original /\ snap' = snap /\ legacy' = legacy
      /\ enabled \ {unit} \subseteq enabled'
  BY DEF HalfDisabled, files
<1>2. unit \in present /\ unit \in Units
  BY DEF Inv, MemoryInv, Honest, TypeOK
<1>3. SystemdInv' /\ masked' \in SUBSET Units /\ enabled' \in SUBSET present'
  BY <1>1, <1>2 DEF Inv, SystemdInv, TypeOK
<1>4. Owed \subseteq mem.known
  BY DEF Inv, MemoryInv, Recording, Disabling
<1>5. Owed' \subseteq mem.known
  <2>1. Hidden' \subseteq Hidden \cup {unit}
    BY <1>1 DEF Hidden
  <2>2. unit \in Tracked => unit \in mem.known
    BY <1>4 DEF Owed, Tracked, Services
  <2>3. Tracked' = Tracked
    BY DEF Tracked
  <2> QED BY <1>1, <1>4, <2>1, <2>2, <2>3 DEF Owed
<1>6. \A name \in Files : Decodes(name)' /\ Honest(snap[name])' /\ (Owed \subseteq snap[name].known)'
  BY <1>1, <1>5 DEF Inv, MemoryInv, FilesInv, Disabling, Decodes, Honest
<1>7. FilesInv'
  BY <1>1, <1>6 DEF Inv, FilesInv, Found, Files, Honest
<1> QED BY <1>1, <1>3, <1>5, <1>7 DEF Inv, MemoryInv, Honest

LEMMA DisableStockStep ==
  ASSUME Inv, DisableStock
  PROVE  Inv'
<1>1. op = "install" /\ pc \in {"ui", "sync"} /\ pc \in Disabling /\ UNCHANGED <<owner, files>>
  BY DEF DisableStock, Disabling
<1> DEFINE unit == IF pc = "ui" THEN "xochitl" ELSE "sync"
<1>2. PICK next \in {"sync", "noise"} : DisableUnit(unit, next) /\ (next = "sync" => detected)
  BY DEF DisableStock
<1>3. unit \in present
  BY <1>1 DEF Inv, SystemdInv, MemoryInv
<1>4. (next = "sync" => "sync" \in present) /\ outcome = "none" /\ next \in Disabling
  BY <1>1, <1>2 DEF Inv, MemoryInv, ControlInv, Disabling
<1>5. unit \in mem.known \cup (present \cap {"xochitl", "sync"})
  BY <1>3
<1> HIDE DEF unit
<1>6. CASE Disabled(unit) /\ Goto(next) /\ UNCHANGED <<memory, outcome, fault>>
  <2>1. HalfDisabled(unit) /\ UNCHANGED mem
    BY <1>6 DEF Disabled, HalfDisabled, memory
  <2>2. /\ SystemdInv' /\ FilesInv' /\ Honest(mem)' /\ (Owed \subseteq mem.known)'
        /\ masked' \in SUBSET Units /\ enabled' \in SUBSET present' /\ present' = present
    BY <1>1, <1>5, <2>1, HideOne
  <2>3. TypeOK' /\ ControlInv' /\ RestoreInv'
    BY <1>1, <1>4, <1>6, <2>2
       DEF Goto, Inv, TypeOK, ControlInv, RestoreInv, RestoreFaithful, Repeatable, memory, files
  <2>4. MemoryInv'
    BY <1>1, <1>4, <1>6, <2>2
       DEF Goto, Inv, MemoryInv, memory, files, Disabling, Decodes
  <2> QED BY <2>2, <2>3, <2>4 DEF Inv
<1>7. CASE HalfDisabled(unit) /\ Abort("command")
  <2>1. Return("failed") /\ fault' = TRUE
    BY <1>7 DEF Abort
  <2>2. SystemdInv' /\ FilesInv' /\ enabled' \in SUBSET present' /\ present' = present
    BY <1>1, <1>5, <1>7, HideOne
  <2> QED BY <1>1, <2>1, <2>2, ReturnInv DEF SystemdInv, Inv, TypeOK, files
<1> QED BY <1>2, <1>6, <1>7 DEF DisableUnit

LEMMA DisableNoiseStep ==
  ASSUME Inv, DisableNoise
  PROVE  Inv'
<1>1. /\ op = "install" /\ pc = "noise" /\ pc \in Disabling /\ outcome = "none"
      /\ UNCHANGED <<owner, files, mem, detected, errs, outcome>>
  BY DEF DisableNoise, Disabling, Inv, ControlInv
<1>2. CASE todo = {} /\ Goto("start") /\ UNCHANGED <<systemd, todo, fault>>
  <2>1. FilesInv'
    BY <1>1, <1>2, FilesFrame DEF Inv
  <2>2. TypeOK' /\ ControlInv' /\ SystemdInv' /\ RestoreInv'
    BY <1>1, <1>2
       DEF Goto, Inv, TypeOK, ControlInv, SystemdInv, RestoreInv, RestoreFaithful,
           Repeatable, systemd, files
  <2>3. MemoryInv'
    BY <1>1, <1>2, Unmoved
       DEF Goto, Inv, MemoryInv, Honest, systemd, files, Recording, Disabling, Decodes
  <2> QED BY <2>1, <2>2, <2>3 DEF Inv
<1>3. ASSUME NEW unit \in todo, todo' = todo \ {unit}, HalfDisabled(unit),
             fault' \in {fault, TRUE}, UNCHANGED <<op, pc>>
      PROVE  Inv'
  <2>1. unit \in mem.known
    BY <1>3 DEF Inv, MemoryInv
  <2>2. /\ SystemdInv' /\ FilesInv' /\ Honest(mem)' /\ (Owed \subseteq mem.known)'
        /\ masked' \in SUBSET Units /\ enabled' \in SUBSET present' /\ present' = present
    BY <1>1, <1>3, <2>1, HideOne
  <2>3. fault' \in BOOLEAN /\ (errs' => fault')
    <3>1. CASE fault' = TRUE
      BY <3>1
    <3>2. CASE fault' = fault
      BY <1>1, <3>2 DEF Inv, TypeOK, ControlInv
    <3> QED BY <1>3, <3>1, <3>2
  <2>4. TypeOK' /\ ControlInv' /\ RestoreInv'
    BY <1>1, <1>3, <2>2, <2>3
       DEF Inv, TypeOK, ControlInv, RestoreInv, RestoreFaithful, Repeatable, files
  <2>5. MemoryInv'
    BY <1>1, <1>3, <2>2 DEF Inv, MemoryInv, files, Disabling, Decodes
  <2> QED BY <2>2, <2>4, <2>5 DEF Inv
<1> QED BY <1>2, <1>3 DEF DisableNoise, Disabled, HalfDisabled

LEMMA StartServiceStep ==
  ASSUME Inv, StartService
  PROVE  Inv'
<1>1. UNCHANGED <<systemd, owner, files>>
  BY DEF StartService
<1>2. CASE Abort("command")
  BY <1>1, <1>2, AbortFrame
<1>3. CASE Return("installed") /\ UNCHANGED fault
  <2>1. FilesInv'
    BY <1>1, FilesFrame DEF Inv
  <2> QED BY <1>1, <1>3, <2>1, ReturnInv DEF Inv, TypeOK, SystemdInv, systemd, files
<1> QED BY <1>2, <1>3 DEF StartService

LEMMA QuiesceStep ==
  ASSUME Inv, Quiesce
  PROVE  Inv'
<1>1. /\ pc = "quiesce" /\ op = "restore" /\ UNCHANGED <<systemd, owner, files>>
  BY DEF Quiesce, Inv, ControlInv
<1>2. CASE Abort("command")
  BY <1>1, <1>2, AbortFrame
<1>3. CASE /\ \/ UNCHANGED <<errs, fault>>
              \/ "command" \in Faults /\ errs' = TRUE /\ fault' = TRUE
           /\ todo' = mem.known \cap Noise /\ Goto("ui")
           /\ UNCHANGED <<mem, detected, outcome>>
  <2>1. FilesInv'
    BY <1>1, FilesFrame DEF Inv
  <2>2. TypeOK' /\ ControlInv' /\ SystemdInv'
    <3>1. errs' \in BOOLEAN /\ fault' \in BOOLEAN /\ (errs' => fault')
      <4>1. CASE UNCHANGED <<errs, fault>>
        BY <4>1 DEF Inv, TypeOK, ControlInv
      <4>2. CASE errs' = TRUE /\ fault' = TRUE
        BY <4>2
      <4> QED BY <1>3, <4>1, <4>2
    <3> QED
      BY <1>1, <1>3, <3>1
         DEF Goto, Inv, TypeOK, ControlInv, SystemdInv, Repeatable, systemd, files
  <2>3. MemoryInv'
    BY <1>1, <1>3, Unmoved DEF Goto, Inv, MemoryInv, Honest, systemd, files
  <2>4. RestoreInv'
    <3>1. "sync" \notin Arrivals => Pending \subseteq mem.known
      <4>1. CASE Found
        <5>1. Owed \subseteq mem.known
          BY <1>1, <4>1 DEF Inv, MemoryInv, FilesInv, Loaded, Files
        <5> QED BY <5>1, UnitNames DEF Owed
      <4>2. CASE ~Found
        <5>1. Hidden = {}
          BY <1>1, <4>2, NothingChosen DEF Inv, MemoryInv, FilesInv
        <5> QED BY <5>1, UnitNames
      <4> QED BY <4>1, <4>2
    <3>2. outcome' = "none" /\ pc' = "ui" /\ op' = "restore" /\ mem' = mem
      BY <1>1, <1>3 DEF Goto, Inv, ControlInv
    <3> QED BY <1>1, <1>3, <3>1, <3>2, Unmoved DEF RestoreInv, RestoreFaithful, Remaining
  <2> QED BY <2>1, <2>2, <2>3, <2>4 DEF Inv
<1> QED BY <1>2, <1>3 DEF Quiesce

\* Restore brings a service back to the recorded choice, which is the owner's.
LEMMA ShowOne ==
  ASSUME Inv, NEW unit \in Units, NEW on \in BOOLEAN, RestoreUnit(unit, on),
         (unit = "xochitl" /\ on) \/ (unit \in mem.known /\ (on <=> unit \in mem.on)),
         UNCHANGED <<owner, files>>
  PROVE  /\ SystemdInv' /\ FilesInv'
         /\ masked' \in SUBSET Units /\ enabled' \in SUBSET present' /\ present' = present
         /\ enabled \subseteq enabled' /\ masked' \subseteq masked
         /\ Hidden' \subseteq Hidden /\ Owed' \subseteq Owed /\ Pending' \subseteq Pending
         /\ \/ UNCHANGED <<errs, fault>> /\ unit \notin masked' /\ unit \notin Pending'
                 /\ (on => unit \in enabled')
            \/ errs' = TRUE /\ fault' = TRUE
<1>1. unit \in present /\ (on => unit \in original \cup {"xochitl"})
      /\ (unit \in Services /\ unit \in original \ misread => on)
  BY DEF Inv, MemoryInv, SystemdInv, Honest, Services
<1>2. /\ present' = present /\ original' = original /\ snap' = snap /\ legacy' = legacy
      /\ enabled' \in {enabled, enabled \cup IF on THEN {unit} ELSE {}}
      /\ masked' \in {masked, masked \ {unit}}
  BY <1>1 DEF RestoreUnit, Reenabled, files
<1>3. SystemdInv' /\ masked' \in SUBSET Units /\ enabled' \in SUBSET present'
      /\ enabled \subseteq enabled' /\ masked' \subseteq masked
  BY <1>1, <1>2 DEF Inv, SystemdInv, TypeOK
<1>4. Hidden' \subseteq Hidden /\ Pending' \subseteq Pending
  BY <1>2, <1>3 DEF Hidden, Pending
<1>5. Owed' \subseteq Owed
  BY <1>2, <1>4 DEF Owed, Tracked
<1>6. FilesInv'
  BY <1>2, <1>4, <1>5 DEF Inv, FilesInv, Found, Decodes, Honest
<1>7. \/ UNCHANGED <<errs, fault>> /\ unit \notin masked' /\ unit \notin Pending'
           /\ (on => unit \in enabled')
      \/ errs' = TRUE /\ fault' = TRUE
  BY <1>1, <1>2 DEF RestoreUnit, Reenabled, Pending
<1> QED BY <1>2, <1>3, <1>4, <1>5, <1>6, <1>7

LEMMA RestoreStockStep ==
  ASSUME Inv, RestoreStock
  PROVE  Inv'
<1>1. /\ op = "restore" /\ op' = op /\ pc \in {"ui", "sync"} /\ outcome = "none"
      /\ UNCHANGED <<owner, files, mem, detected, todo, outcome>>
      /\ todo = mem.known \cap Noise /\ mem \in Choices
      /\ (pc = "sync" => "sync" \in mem.known)
  BY DEF RestoreStock, Goto, Inv, ControlInv, RestoreInv, TypeOK
<1> DEFINE unit == IF pc = "ui" THEN "xochitl" ELSE "sync"
           on == IF pc = "ui" THEN TRUE ELSE "sync" \in mem.on
<1>2. /\ RestoreUnit(unit, on) /\ unit \in Units /\ on \in BOOLEAN
      /\ (unit = "xochitl" /\ on) \/ (unit \in mem.known /\ (on <=> unit \in mem.on))
  <2>1. CASE pc = "ui"
    <3>1. RestoreUnit("xochitl", TRUE)
      BY <2>1 DEF RestoreStock
    <3>2. unit = "xochitl" /\ on = TRUE
      BY <2>1
    <3> HIDE DEF unit, on
    <3>3. RestoreUnit(unit, on)
      BY <3>1, <3>2, Zenon
    <3> QED BY <3>2, <3>3 DEF Units
  <2>2. CASE pc = "sync"
    <3>1. RestoreUnit("sync", "sync" \in mem.on)
      BY <2>2 DEF RestoreStock
    <3> QED BY <1>1, <2>2, <3>1 DEF Units
  <2> QED BY <1>1, <2>1, <2>2
<1>3. pc' = IF pc = "ui" /\ "sync" \in mem.known THEN "sync" ELSE "noise"
  BY <1>1 DEF RestoreStock, Goto
<1>4. /\ SystemdInv' /\ FilesInv'
      /\ masked' \in SUBSET Units /\ enabled' \in SUBSET present' /\ present' = present
      /\ enabled \subseteq enabled' /\ masked' \subseteq masked
      /\ Hidden' \subseteq Hidden /\ Owed' \subseteq Owed /\ Pending' \subseteq Pending
      /\ \/ UNCHANGED <<errs, fault>> /\ unit \notin masked' /\ unit \notin Pending'
              /\ (on => unit \in enabled')
         \/ errs' = TRUE /\ fault' = TRUE
  <2> HIDE DEF unit, on
  <2> QED BY <1>1, <1>2, ShowOne
<1>5. TypeOK' /\ ControlInv'
  <2>1. errs' \in BOOLEAN /\ fault' \in BOOLEAN /\ (errs' => fault')
    <3>1. CASE UNCHANGED <<errs, fault>>
      BY <3>1 DEF Inv, TypeOK, ControlInv
    <3>2. CASE errs' = TRUE /\ fault' = TRUE
      BY <3>2
    <3> QED BY <1>4, <3>1, <3>2
  <2> QED BY <1>1, <1>3, <1>4, <2>1 DEF Inv, TypeOK, ControlInv, Repeatable, files
<1>6. MemoryInv'
  BY <1>1, <1>3, <1>4 DEF Inv, MemoryInv, Honest, files
<1>7. RestoreInv'
  <2>1. CASE errs' = TRUE
    BY <1>1, <1>3, <2>1 DEF RestoreInv, RestoreFaithful
  <2>2. CASE UNCHANGED <<errs, fault>> /\ unit \notin masked' /\ unit \notin Pending'
             /\ (on => unit \in enabled')
    <3>1. ~errs => "xochitl" \in enabled' \ masked'
      BY <1>1, <1>4, <2>2 DEF Inv, RestoreInv
    <3>2. "sync" \notin Arrivals /\ ~errs => Pending' \subseteq Remaining'
      <4>1. "sync" \notin Arrivals /\ ~errs => Pending \subseteq Remaining
        BY <1>1 DEF Inv, RestoreInv
      <4>2. mem.known \subseteq Noise \cup {"sync"}
        BY <1>1 DEF Choices, Units
      <4> QED BY <1>1, <1>3, <1>4, <2>2, <4>1, <4>2 DEF Remaining
    <3> QED BY <1>1, <1>3, <2>2, <3>1, <3>2 DEF RestoreInv, RestoreFaithful
  <2> QED BY <1>4, <2>1, <2>2
<1> QED BY <1>4, <1>5, <1>6, <1>7 DEF Inv

LEMMA RestoreNoiseStep ==
  ASSUME Inv, RestoreNoise
  PROVE  Inv'
<1>1. /\ op = "restore" /\ pc = "noise" /\ outcome = "none"
      /\ UNCHANGED <<owner, files, op, pc, mem, detected, outcome>>
  BY DEF RestoreNoise, Inv, ControlInv
<1>2. PICK unit \in todo : RestoreUnit(unit, unit \in mem.on) /\ todo' = todo \ {unit}
  BY DEF RestoreNoise
<1> DEFINE on == unit \in mem.on
<1>3. unit \in mem.known /\ unit \in Units /\ unit \in Noise /\ on \in BOOLEAN
  BY <1>2 DEF Inv, MemoryInv, TypeOK, Units
<1>4. /\ SystemdInv' /\ FilesInv'
      /\ masked' \in SUBSET Units /\ enabled' \in SUBSET present' /\ present' = present
      /\ enabled \subseteq enabled' /\ masked' \subseteq masked
      /\ Hidden' \subseteq Hidden /\ Owed' \subseteq Owed /\ Pending' \subseteq Pending
      /\ \/ UNCHANGED <<errs, fault>> /\ unit \notin masked' /\ unit \notin Pending'
              /\ (on => unit \in enabled')
         \/ errs' = TRUE /\ fault' = TRUE
  BY <1>1, <1>2, <1>3, ShowOne
<1>5. TypeOK' /\ ControlInv'
  <2>1. errs' \in BOOLEAN /\ fault' \in BOOLEAN /\ (errs' => fault')
    <3>1. CASE UNCHANGED <<errs, fault>>
      BY <3>1 DEF Inv, TypeOK, ControlInv
    <3>2. CASE errs' = TRUE /\ fault' = TRUE
      BY <3>2
    <3> QED BY <1>4, <3>1, <3>2
  <2> QED BY <1>1, <1>2, <1>4, <2>1 DEF Inv, TypeOK, ControlInv, Repeatable, files
<1>6. MemoryInv'
  BY <1>1, <1>2, <1>4 DEF Inv, MemoryInv, Honest, files
<1>7. RestoreInv'
  <2>1. CASE errs' = TRUE
    BY <1>1, <2>1 DEF RestoreInv, RestoreFaithful
  <2>2. CASE UNCHANGED <<errs, fault>> /\ unit \notin masked' /\ unit \notin Pending'
    BY <1>1, <1>2, <1>4, <2>2 DEF Inv, RestoreInv, RestoreFaithful, Remaining
  <2> QED BY <1>4, <2>1, <2>2
<1> QED BY <1>4, <1>5, <1>6, <1>7 DEF Inv

LEMMA FinishRestoreStep ==
  ASSUME Inv, FinishRestore
  PROVE  Inv'
<1>1. /\ op = "restore" /\ pc = "noise" /\ todo = {}
      /\ UNCHANGED <<systemd, owner, files>>
  BY DEF FinishRestore
<1>2. CASE Abort("write")
  BY <1>1, <1>2, AbortFrame
<1>3. CASE Return(RestoreOutcome) /\ UNCHANGED fault
  <2>1. FilesInv'
    BY <1>1, FilesFrame DEF Inv
  <2>2. errs => fault
    BY DEF Inv, ControlInv
  <2>3. ~errs /\ "sync" \notin Arrivals =>
          /\ masked \subseteq misread \cap {"sync"}
          /\ (original \cup {"xochitl"}) \ misread \subseteq enabled
    <3>1. ~errs /\ "sync" \notin Arrivals => Pending = {} /\ "xochitl" \in enabled \ masked
      BY <1>1 DEF Inv, RestoreInv, Remaining
    <3>2. masked \subseteq Units /\ original \subseteq Units
      BY DEF Inv, TypeOK
    <3> QED BY <3>1, <3>2 DEF Pending, Services
  <2>4. RestoreOutcome = IF errs THEN "failed" ELSE "restored"
    BY DEF RestoreOutcome
  <2> QED
    BY <1>1, <1>3, <2>1, <2>2, <2>3, <2>4, ReturnInv DEF Inv, TypeOK, SystemdInv, systemd, files
<1> QED BY <1>2, <1>3 DEF FinishRestore

-----------------------------------------------------------------------------
(* The environment. *)

\* The file that stays good is enough.
LEMMA DamageStep ==
  ASSUME Inv, NEW name \in Files, Damage(name)
  PROVE  Inv'
<1>1. /\ pc = "idle" /\ UNCHANGED <<systemd, owner, legacy, op, pc, memory, outcome, fault>>
  BY DEF Damage
<1>2. PICK content \in {Missing, Damaged} : snap' = [snap EXCEPT ![name] = content]
  BY DEF Damage
<1>3. PICK other \in Files \ {name} : Decodes(other)
  BY DEF Damage
<1>4. snap \in [Files -> Contents] /\ snap' \in [Files -> Contents]
  BY <1>2 DEF Inv, TypeOK, Contents
<1>5. snap'[other] = snap[other] /\ snap'[name] \notin Choices
      /\ \A n \in Files \ {name} : snap'[n] = snap[n]
  BY <1>2, <1>4, NotChoices
<1>6. FilesInv'
  BY <1>1, <1>3, <1>5, Unmoved DEF Inv, FilesInv, Found, Decodes, Honest, systemd
<1>7. TypeOK' /\ ControlInv' /\ SystemdInv' /\ MemoryInv' /\ RestoreInv'
  BY <1>1, <1>4
     DEF Inv, TypeOK, ControlInv, SystemdInv, MemoryInv, RestoreInv, RestoreFaithful,
         Repeatable, Honest, systemd, memory
<1> QED BY <1>6, <1>7 DEF Inv

\* A service that was not there is neither hidden nor known to anybody.
LEMMA UpdateStep ==
  ASSUME Inv, NEW unit \in Arrivals, Update(unit)
  PROVE  Inv'
<1>1. /\ pc = "idle" /\ unit \notin present /\ present' = present \cup {unit} /\ outcome' = "none"
      /\ UNCHANGED <<misread, masked, files, op, pc, memory, fault>>
      /\ \/ enabled' = enabled \cup {unit} /\ original' = original \cup {unit}
         \/ UNCHANGED <<enabled, original>>
  BY DEF Update
<1>2. unit \in Units /\ unit \notin original /\ unit \notin enabled /\ unit \notin masked
  BY <1>1, LifecycleAssumption DEF Units, Inv, SystemdInv, TypeOK
<1>3. Hidden' = Hidden
  BY <1>1, <1>2 DEF Hidden
<1>4. Owed' = Owed
  <2>1. (unit \in Tracked => unit # "sync") /\ Tracked' = Tracked
    BY <1>1 DEF Tracked
  <2> QED BY <1>1, <1>3, <2>1 DEF Owed
<1>5. ASSUME NEW c, Honest(c)
      PROVE  /\ c.known \subseteq present'
             /\ c.on \cap c.known \subseteq original'
             /\ (c.known \cap original') \ misread' \subseteq c.on
  <2>1. unit \notin c.known
    BY <1>1, <1>5 DEF Honest
  <2> QED BY <1>1, <1>5, <2>1 DEF Honest
<1>6. FilesInv'
  BY <1>1, <1>3, <1>4, <1>5 DEF Inv, FilesInv, Honest, Found, Decodes, files
<1>7. TypeOK' /\ ControlInv' /\ SystemdInv'
  BY <1>1, <1>2
     DEF Inv, TypeOK, ControlInv, SystemdInv, Repeatable, memory, files
<1>8. MemoryInv' /\ RestoreInv'
  BY <1>1, <1>5 DEF Inv, MemoryInv, ControlInv, RestoreInv, RestoreFaithful, Honest, memory, files
<1> QED BY <1>6, <1>7, <1>8 DEF Inv

LEMMA LifecycleStep == Inv /\ [Next]_vars => Inv'
<1> SUFFICES ASSUME Inv, [Next]_vars PROVE Inv'
  OBVIOUS
<1>1. CASE Begin("install") \/ Begin("restore")
  BY <1>1, BeginStep
<1>2. CASE LoadState
  BY <1>2, LoadStep
<1>3. CASE Migrate
  BY <1>3, MigrateStep
<1>4. CASE Detect
  BY <1>4, DetectStep
<1>5. CASE Record
  BY <1>5, RecordStep
<1>6. CASE SaveState
  BY <1>6, SaveStateStep
<1>7. CASE Reload
  BY <1>7, ReloadStep
<1>8. CASE DisableStock
  BY <1>8, DisableStockStep
<1>9. CASE DisableNoise
  BY <1>9, DisableNoiseStep
<1>10. CASE StartService
  BY <1>10, StartServiceStep
<1>11. CASE Quiesce
  BY <1>11, QuiesceStep
<1>12. CASE RestoreStock
  BY <1>12, RestoreStockStep
<1>13. CASE RestoreNoise
  BY <1>13, RestoreNoiseStep
<1>14. CASE FinishRestore
  BY <1>14, FinishRestoreStep
<1>15. CASE Kill
  BY <1>15, AbortFrame DEF Kill
<1>16. ASSUME NEW name \in Files, Damage(name) PROVE Inv'
  BY <1>16, DamageStep
<1>17. ASSUME NEW unit \in Arrivals, Update(unit) PROVE Inv'
  BY <1>17, UpdateStep
<1>18. CASE UNCHANGED vars
  <2>1. FilesInv'
    BY <1>18, FilesFrame DEF Inv, vars
  <2> QED
    BY <1>18, <2>1, Unmoved
       DEF Inv, TypeOK, ControlInv, SystemdInv, MemoryInv, RestoreInv, RestoreFaithful, Remaining,
           Repeatable, Honest, Loaded, Found, Decodes, Snapshot, vars, systemd, files, memory
<1> QED
  BY <1>1, <1>2, <1>3, <1>4, <1>5, <1>6, <1>7, <1>8, <1>9, <1>10, <1>11, <1>12, <1>13,
     <1>14, <1>15, <1>16, <1>17, <1>18 DEF Next

-----------------------------------------------------------------------------
(* Theorems. *)

LEMMA LifecycleInvariant == Spec => []Inv
BY LifecycleInit, LifecycleStep, PTL DEF Spec

\* The variables of Lifecycle keep their types; in particular a command never
\* works with a snapshot file that does not decode.
THEOREM LifecycleTypeCorrect == Spec => []TypeOK
<1>1. Inv => TypeOK
  BY DEF Inv
<1> QED BY <1>1, LifecycleInvariant, PTL

\* No copy of the snapshot holds a service that the owner had disabled as one
\* that was enabled, whatever failed; nor one that the appliance disabled as one
\* that the owner had disabled, unless the query of that very service failed when
\* its choice was noted (UnitEnabled takes a failure for "disabled").  For any
\* firmware.
THEOREM SnapshotHonest == Spec => []ChoicesAreOriginal
<1>1. Inv => ChoicesAreOriginal
  BY DEF Inv, FilesInv, Honest, ChoicesAreOriginal
<1> QED BY <1>1, LifecycleInvariant, PTL

\* A command that fails can be repeated: the files that an earlier one left
\* are never the reason of a failure.
THEOREM CommandsRepeatable == Spec => []Repeatable
<1>1. Inv => Repeatable
  BY DEF Inv, ControlInv
<1> QED BY <1>1, LifecycleInvariant, PTL

\* While no update brings a sync unit that was not there at the first install,
\* each copy of the snapshot knows every masked service and its choice; whatever
\* failed, except the queries of that service when install noted it, and then
\* only the sync unit can be missing altogether.
THEOREM MaskedRecoverable ==
  ASSUME "sync" \notin Arrivals
  PROVE  Spec => []MaskedIsCovered
<1>1. Inv => MaskedIsCovered
  <2> SUFFICES ASSUME Inv, NEW unit \in masked \ {"xochitl"}, NEW name \in Files, Decodes(name)
               PROVE  /\ unit \in snap[name].known \/ unit \in misread \cap {"sync"}
                      /\ unit \notin misread => (unit \in snap[name].on <=> unit \in original)
    BY DEF MaskedIsCovered
  <2>1. unit \in Owed \/ unit \in misread \cap {"sync"}
    BY DEF Inv, TypeOK, Services, Hidden, Owed, Tracked
  <2>2. Honest(snap[name]) /\ Owed \subseteq snap[name].known
    BY DEF Inv, FilesInv
  <2> QED BY <2>1, <2>2 DEF Honest
<1> QED BY <1>1, LifecycleInvariant, PTL

\* Under the same condition a restore that reports success has brought back
\* every stock service whose choice install could query, whatever else failed,
\* was killed or was lost before it, and has enabled none against the choice.
THEOREM RestoreBringsBack ==
  ASSUME "sync" \notin Arrivals
  PROVE  Spec => []RestoreFaithful
<1>1. Inv => RestoreFaithful
  BY DEF Inv, RestoreInv
<1> QED BY <1>1, LifecycleInvariant, PTL
=============================================================================
