---------------------------- MODULE DurableStore ----------------------------
(***************************************************************************)
(* A JSON document kept as a primary file and a .bak file: SaveJSON and    *)
(* LoadRecoverableJSON of internal/storage, one file system effect per     *)
(* step.  Every rename is followed by a directory sync, and until then a   *)
(* machine crash may undo it; any call may fail, the process may be killed *)
(* and files may be found damaged when no process is running.              *)
(*                                                                         *)
(* A document is the number of the save that wrote it; contents that are   *)
(* not a document are 0 or less.                                           *)
(***************************************************************************)
EXTENDS Integers, FiniteSets

CONSTANTS
  Faults,    \* the kinds of failure the environment may inject
  MaxSaves   \* bound: the number of saves in a behaviour

ASSUME StoreAssumption ==
  /\ Faults \subseteq {"path", "link", "sync", "kill", "crash"}
  /\ MaxSaves \in Nat

VARIABLES
  fresh,    \* may a damaged document without a backup count as absent?
  file,     \* the contents of the primary and of the backup, as read now
  stable,   \* what the directory is known to hold on the medium
  kept,     \* the files whose damaged bytes have been copied aside
  pc,       \* the call about to be made
  session,  \* has this process loaded the document?
  data,     \* the version being saved
  prev,     \* the bytes a save has read from the primary
  \* history, for the properties only
  acked,    \* the last version acknowledged, or the older one a load gave
  prior,    \* the one acknowledged before it
  hurt,     \* files that have been damaged since
  saves     \* the number of saves so far

store   == <<file, stable, kept>>
history == <<acked, prior, hurt>>
vars == <<fresh, store, pc, session, data, prev, history, saves>>

Names    == {"primary", "backup"}
Versions == 0 .. MaxSaves
Docs     == 1 .. MaxSaves
Missing  == 0
\* Not JSON at all, or null.
Garbage  == -1
\* JSON that does not decode into the document, or fails its validators.
Mistyped == -2
Damages  == {Garbage, Mistyped}
Contents == Docs \cup Damages \cup {Missing}

Tolerated(content) == content # Missing
Decodes(content) == content > 0
Least(a, b) == IF a < b THEN a ELSE b
Broken ==
  {name \in Names : ~(Decodes(file[name]) /\ Decodes(stable[name]))}

\* What a load would find.
Recovered(f) ==
  IF Decodes(f["primary"]) THEN f["primary"]
  ELSE IF Decodes(f["backup"]) THEN f["backup"] ELSE 0

TypeOK ==
  /\ fresh \in BOOLEAN
  /\ file \in [Names -> Contents] /\ stable \in [Names -> Contents]
  /\ kept \subseteq Names
  /\ pc \in {"idle", "load", "loadBackup", "restore", "restoreSync", "save",
             "preserve", "seed", "copy", "copySync", "put", "putSync"}
  /\ session \in BOOLEAN
  /\ data \in Versions /\ prev \in Contents
  /\ acked \in Versions /\ prior \in Versions
  /\ hurt \subseteq Names /\ saves \in Versions

Absent == [name \in Names |-> Missing]

Init ==
  /\ fresh \in BOOLEAN
  /\ file = Absent /\ stable = Absent /\ kept = {}
  /\ pc = "idle" /\ session = FALSE /\ data = 0 /\ prev = Missing
  /\ acked = 0 /\ prior = 0 /\ hurt = {} /\ saves = 0

-----------------------------------------------------------------------------
(* Control. *)

\* A call returns; an error leaves nothing behind but what it has done so far.
Return ==
  /\ pc' = "idle" /\ data' = 0 /\ prev' = Missing

Goto(step) == pc' = step /\ UNCHANGED <<data, prev>>

\* The rename of atomicWrite: the new contents show, their name is not yet
\* durable.
Replace(name, content) ==
  /\ file' = [file EXCEPT ![name] = content]
  /\ kept' = kept \ {name}
  /\ UNCHANGED stable

\* atomicWrite fails before the rename, or in it.
WriteFails ==
  /\ {"path", "link"} \cap Faults # {}
  /\ Return /\ UNCHANGED <<store, session, history>>

\* The directory sync, after which every name in it is durable.
NoSync == stable
SyncDir == file

-----------------------------------------------------------------------------
(* LoadRecoverableJSON *)

Load ==
  /\ pc = "idle" /\ ~session
  /\ pc' = "load"
  /\ UNCHANGED <<fresh, store, session, data, prev, history, saves>>

\* The process goes on from the version it was given, also when that is an
\* older one.
LoadReturns(version) ==
  /\ session' = TRUE
  /\ acked' = Least(version, acked) /\ prior' = Least(version, prior)
  /\ hurt' = Broken

\* preserveCorrupt copies the damaged bytes aside.  A failed rename is not an
\* os.PathError, so the load goes on without the copy.
Preserved(name) ==
  \/ kept' = kept \cup {name} /\ UNCHANGED <<file, stable>>
  \/ "link" \in Faults /\ UNCHANGED store

ReadFails == "path" \in Faults /\ Return /\ UNCHANGED <<store, session, history>>

ReadPrimary ==
  /\ pc = "load"
  /\ \/ /\ Decodes(file["primary"])
        /\ Return /\ LoadReturns(file["primary"])
        /\ UNCHANGED store
     \/ /\ file["primary"] = Missing
        /\ Goto("loadBackup")
        /\ UNCHANGED <<store, session, history>>
     \/ /\ file["primary"] \in Damages
        /\ Preserved("primary")
        /\ Goto("loadBackup")
        /\ UNCHANGED <<session, history>>
     \/ ReadFails
  /\ UNCHANGED <<fresh, saves>>

\* Without a usable backup: not found, or an error if damage may not be hidden.
DamageHidden == TRUE
MayReturnZero ==
  fresh \/ (file["primary"] = Missing /\ file["backup"] = Missing)

ReadBackup ==
  /\ pc = "loadBackup"
  /\ \/ /\ Decodes(file["backup"])
        /\ pc' = "restore" /\ prev' = file["backup"]
        /\ UNCHANGED <<store, session, data, history>>
     \/ /\ ~Decodes(file["backup"])
        /\ IF file["backup"] \in Damages THEN Preserved("backup") ELSE UNCHANGED store
        /\ Return
        /\ IF MayReturnZero THEN LoadReturns(0) ELSE UNCHANGED <<session, history>>
     \/ ReadFails
  /\ UNCHANGED <<fresh, saves>>

Restore ==
  /\ pc = "restore"
  /\ \/ /\ Replace("primary", prev)
        /\ Goto("restoreSync") /\ UNCHANGED <<session, history>>
     \/ WriteFails
  /\ UNCHANGED <<fresh, saves>>

RestoreSync ==
  /\ pc = "restoreSync"
  /\ \/ /\ stable' = SyncDir /\ UNCHANGED <<file, kept>>
        /\ LoadReturns(prev) /\ Return
     \/ "sync" \in Faults /\ Return /\ UNCHANGED <<store, session, history>>
  /\ UNCHANGED <<fresh, saves>>

-----------------------------------------------------------------------------
(* SaveJSON *)

\* Every program that saves a document has loaded it first.
Save ==
  /\ pc = "idle" /\ session /\ saves < MaxSaves
  /\ saves' = saves + 1 /\ data' = saves + 1
  /\ pc' = "save"
  /\ UNCHANGED <<fresh, store, session, prev, history>>

\* The previous bytes become the backup if they are JSON, whatever they decode
\* to; otherwise they are copied aside.
BackupOnce(content) ==
  CASE content = Missing -> "seed"
    [] content = Garbage -> "preserve"
    [] OTHER             -> "put"
Unkept(content) == IF content = Missing \/ content = Garbage THEN "seed" ELSE "copy"
AfterRead(content) ==
  CASE Decodes(content) \/ content = Mistyped -> "copy"
    [] content = Garbage                      -> "preserve"
    [] content = Missing                      -> "seed"

ReadPrevious ==
  /\ pc = "save"
  /\ \/ /\ prev' = file["primary"]
        /\ pc' = AfterRead(file["primary"])
        /\ UNCHANGED <<store, session, data, history>>
     \/ ReadFails
  /\ UNCHANGED <<fresh, saves>>

PreservePrevious ==
  /\ pc = "preserve"
  /\ \/ /\ kept' = kept \cup {"primary"} /\ UNCHANGED <<file, stable, session, history>>
        /\ Goto("seed")
     \/ WriteFails
  /\ UNCHANGED <<fresh, saves>>

\* A first write is its own backup.  An existing backup stays: the primary was
\* missing or damaged, so the backup may be the only good copy.
SeedDue == file["backup"] = Missing

Seed ==
  /\ pc = "seed"
  /\ \/ /\ SeedDue
        /\ \/ Replace("backup", data) /\ Goto("copySync") /\ UNCHANGED <<session, history>>
           \/ WriteFails
     \/ /\ ~SeedDue
        /\ Goto("put") /\ UNCHANGED <<store, session, history>>
     \/ ReadFails
  /\ UNCHANGED <<fresh, saves>>

Copy ==
  /\ pc = "copy"
  /\ \/ /\ Replace("backup", prev)
        /\ Goto("copySync") /\ UNCHANGED <<session, history>>
     \/ WriteFails
  /\ UNCHANGED <<fresh, saves>>

CopySync ==
  /\ pc = "copySync"
  /\ \/ /\ stable' = SyncDir /\ UNCHANGED <<file, kept>>
        /\ Goto("put") /\ UNCHANGED <<session, history>>
     \/ "sync" \in Faults /\ Return /\ UNCHANGED <<store, session, history>>
  /\ UNCHANGED <<fresh, saves>>

Put ==
  /\ pc = "put"
  /\ \/ /\ Replace("primary", data)
        /\ Goto("putSync") /\ UNCHANGED <<session, history>>
     \/ WriteFails
  /\ UNCHANGED <<fresh, saves>>

PutSync ==
  /\ pc = "putSync"
  /\ \/ /\ stable' = SyncDir /\ UNCHANGED <<file, kept>>
        /\ Return
        /\ acked' = data /\ prior' = acked
        /\ hurt' = Broken
     \/ "sync" \in Faults /\ Return /\ UNCHANGED <<store, history>>
  /\ UNCHANGED <<fresh, session, saves>>

-----------------------------------------------------------------------------
(* The environment. *)

\* The process ends, or is killed in the middle of a call.
Leave ==
  /\ pc = "idle" \/ "kill" \in Faults
  /\ session' = FALSE /\ Return
  /\ UNCHANGED <<fresh, store, history, saves>>

CrashOutcomes ==
  {f \in [Names -> Contents] :
     \A name \in Names : f[name] \in {file[name], stable[name]}}

Crash ==
  /\ "crash" \in Faults
  /\ file' \in CrashOutcomes
  /\ stable' = file'
  /\ kept' = {name \in kept : file'[name] = file[name]}
  /\ session' = FALSE /\ Return
  /\ UNCHANGED <<fresh, history, saves>>

Damage(name) ==
  /\ pc = "idle" /\ ~session
  /\ \E content \in Damages \cup {Missing} :
       /\ content # file[name]
       /\ file' = [file EXCEPT ![name] = content]
       /\ stable' = [stable EXCEPT ![name] = content]
  /\ kept' = kept \ {name}
  /\ hurt' = hurt \cup {name}
  /\ UNCHANGED <<fresh, pc, session, data, prev, acked, prior, saves>>

Next ==
  \/ Load \/ ReadPrimary \/ ReadBackup \/ Restore \/ RestoreSync
  \/ Save \/ ReadPrevious \/ PreservePrevious \/ Seed \/ Copy \/ CopySync
  \/ Put \/ PutSync
  \/ Leave \/ Crash
  \/ \E name \in Names : Damage(name)

Spec == Init /\ [][Next]_vars

-----------------------------------------------------------------------------
(* Properties. *)

\* An acknowledged save survives crashes, kills, failed later saves and the
\* loss of the backup: whatever a crash leaves of the directory, a load finds
\* that version or a later one.
AckedSurvives ==
  "primary" \notin hurt => \A f \in CrashOutcomes : Recovered(f) >= acked

\* Losing either file costs at most the last acknowledged save.
OneDamageOneSave ==
  Cardinality(hurt) <= 1 => \A f \in CrashOutcomes : Recovered(f) >= prior

\* A load answers with nothing, where a version had been acknowledged, only if
\* both files have been damaged since, and in strict mode only if both are gone:
\* no crash, kill or failed save makes an installation look like a fresh one,
\* nor does the loss of either file, also right after the first save.
LoadHonest ==
  [][~session /\ session' /\ acked > 0 /\ acked' = 0
     => hurt = Names /\ (fresh \/ file = Absent)]_vars

\* A save does not destroy the only copy of damaged bytes: before it replaces
\* them they have been copied aside, or have become the backup.
SaveKeepsEvidence ==
  [][pc = "put" /\ file["primary"] \in Damages /\ file'["primary"] # file["primary"]
     => "primary" \in kept \/ file["backup"] = file["primary"]]_vars

\* docs/recovery-and-battery.md:17: "Damaged bytes remain in
\* `.corrupt-<timestamp>` files for diagnosis."
EvidenceKept ==
  [][file["primary"] \in Damages /\ file'["primary"] \in Docs
     => "primary" \in kept \/ file["backup"] = file["primary"]]_vars

\* The pair of files behaves as one register.
Register == INSTANCE DurableRegister WITH
  value    <- Recovered(file),
  possible <- {Recovered(f) : f \in CrashOutcomes},
  begun    <- saves,
  saving   <- data
IsRegister == Register!Spec
=============================================================================
