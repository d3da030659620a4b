----------------------------- MODULE StoreProofs -----------------------------
(***************************************************************************)
(* What survives in a primary and a .bak file, for any number of saves and *)
(* every sequence of failed calls, kills, crashes and losses, and that the *)
(* pair implements one register.                                           *)
(*                                                                         *)
(* Every property quantifies over what a crash may leave.  Each file is    *)
(* then one of two contents, the one that shows and the one that is known  *)
(* to be on the medium, so the invariant bounds these four.                *)
(***************************************************************************)
EXTENDS DurableStore, FiniteSetTheorems, TLAPS

InLoad == {"load", "loadBackup", "restore", "restoreSync"}
InSave == {"save", "preserve", "seed", "copy", "copySync", "put", "putSync"}

\* The contents a file may have after a crash.
Either(name) == {file[name], stable[name]}

\* A load has no document yet and a save works with one; what each has read is
\* still there.
CallInv ==
  /\ data = IF pc \in InSave THEN saves ELSE 0
  /\ pc \in InSave => session /\ saves > 0
  /\ pc \in InLoad => ~session
  /\ pc \in {"loadBackup", "restore"} => ~Decodes(file["primary"])
  /\ pc = "restore" => prev = file["backup"]
  /\ pc = "restoreSync" => prev = file["primary"]
  /\ pc \in {"restore", "restoreSync"} => Decodes(prev)
  /\ pc = "copy" => prev = file["primary"] /\ (Decodes(prev) \/ prev = Mistyped)
  /\ pc \in {"preserve", "seed"} => file["primary"] \in {Missing, Garbage}
  /\ pc = "putSync" => file["primary"] = data

\* The versions are those of saves that were begun, and the primary on the
\* medium is never ahead of the one that shows.
VersionInv ==
  /\ \A name \in Names : \A content \in Either(name) : content <= saves
  /\ prior <= acked /\ acked <= saves
  /\ Decodes(stable["primary"]) =>
       /\ Decodes(file["primary"]) /\ stable["primary"] <= file["primary"]
       /\ stable["primary"] < acked => file["primary"] = stable["primary"]

\* A primary that was not damaged holds what was acknowledged, and so does the
\* one that a process has loaded.
PrimaryInv ==
  /\ (session \/ "primary" \notin hurt) =>
       \A content \in Either("primary") : Decodes(content) => content >= acked
  /\ "primary" \notin hurt /\ acked > 0 =>
       \A content \in Either("primary") : Decodes(content)
  /\ session /\ acked > 0 => Decodes(file["primary"])
  /\ session /\ file["primary"] = Mistyped => ~Decodes(file["backup"])

\* No copy is older than the save before the acknowledged one, and a backup
\* that was not damaged is a copy.  Before the primary is replaced the backup
\* has caught up with what was acknowledged.
BackupInv ==
  /\ \A name \in Names : \A content \in Either(name) : Decodes(content) => content >= prior
  /\ "backup" \notin hurt /\ acked > 0 =>
       \A content \in Either("backup") : Decodes(content)
  /\ pc \in {"put", "putSync"} =>
       \A content \in Either("backup") : Decodes(content) => content >= acked
  /\ pc = "copySync" /\ Decodes(file["backup"]) => file["backup"] >= acked

EvidenceInv ==
  pc \in {"seed", "copySync", "put"} /\ file["primary"] \in Damages
  => "primary" \in kept \/ file["backup"] = file["primary"]

Inv == TypeOK /\ CallInv /\ VersionInv /\ PrimaryInv /\ BackupInv /\ EvidenceInv

-----------------------------------------------------------------------------
(* The invariant is inductive. *)

LEMMA VersionsAre ==
  /\ MaxSaves \in Nat /\ Versions \subseteq Int /\ Contents \subseteq Int
  /\ 0 \in Versions /\ Versions \subseteq Contents /\ Damages \subseteq Contents
  /\ \A content \in Contents : content <= MaxSaves
  /\ \A content \in Damages \cup {Missing} : ~Decodes(content)
BY StoreAssumption
   DEF Versions, Docs, Contents, Damages, Missing, Garbage, Mistyped, Decodes

LEMMA StoreInit == Init => Inv
<1> SUFFICES ASSUME Init PROVE Inv
  OBVIOUS
<1>1. \A name \in Names : file[name] = 0 /\ stable[name] = 0
  BY DEF Init, Absent, Missing
<1>2. TypeOK
  BY VersionsAre DEF Init, TypeOK, Absent, Missing
<1>3. CallInv /\ VersionInv /\ PrimaryInv /\ BackupInv /\ EvidenceInv
  BY <1>1 DEF Init, CallInv, VersionInv, PrimaryInv, BackupInv, EvidenceInv,
              Names, InSave, InLoad, Either, Damages, Missing, Garbage, Mistyped, Decodes
<1> QED BY <1>2, <1>3 DEF Inv

\* A call that fails, or a process that ends, changes no file.
LEMMA ReturnKeeps ==
  ASSUME Inv, Return, UNCHANGED <<fresh, store, session, history, saves>>
  PROVE  Inv'
BY StoreAssumption
   DEF Inv, TypeOK, CallInv, VersionInv, PrimaryInv, BackupInv, EvidenceInv, Return, store,
       history, InSave, InLoad, Either, Versions, Contents

LEMMA LoadKeeps == ASSUME Inv, Load PROVE Inv'
BY DEF Inv, TypeOK, CallInv, VersionInv, PrimaryInv, BackupInv, EvidenceInv, Load, store,
       history, InSave, Either

\* What the steps below compare are numbers.
LEMMA Ranges ==
  ASSUME Inv
  PROVE  /\ \A name \in Names : file[name] \in Int /\ stable[name] \in Int
         /\ data \in Int /\ prev \in Int /\ acked \in Int /\ prior \in Int /\ saves \in Int
         /\ 0 <= prior /\ prior <= acked /\ acked <= saves
<1>1. \A name \in Names : file[name] \in Int /\ stable[name] \in Int
  BY VersionsAre DEF Inv, TypeOK
<1>2. data \in Int /\ prev \in Int /\ acked \in Int /\ prior \in Int /\ saves \in Int
  BY VersionsAre DEF Inv, TypeOK
<1>3. 0 <= prior
  BY DEF Inv, TypeOK, Versions
<1> QED BY <1>1, <1>2, <1>3 DEF Inv, VersionInv

\* Once the primary does not decode, neither does the one on the medium: there is
\* nothing newer to lose by putting the backup in its place.
LEMMA RestoreKeeps == ASSUME Inv, Restore PROVE Inv'
<1>1. CASE WriteFails
  BY <1>1, ReturnKeeps DEF Restore, WriteFails
<1>2. CASE Replace("primary", prev) /\ Goto("restoreSync") /\ UNCHANGED <<session, history>>
  <2>1. /\ file'["primary"] = prev /\ file'["backup"] = file["backup"]
        /\ stable' = stable /\ kept' = kept \ {"primary"}
    BY <1>2 DEF Replace, Inv, TypeOK, Names
  <2>2. TypeOK'
    BY <1>2 DEF Inv, TypeOK, Restore, Goto, history, Replace
  <2>3. CallInv'
    BY <1>2, <2>1 DEF Inv, CallInv, InSave, InLoad, Restore, Goto
  <2>4. VersionInv'
    BY <1>2, <2>1 DEF Inv, CallInv, VersionInv, Names, Either, Restore, history
  <2>5. PrimaryInv'
    BY <1>2, <2>1, Ranges
       DEF Inv, CallInv, PrimaryInv, Either, Decodes, Mistyped, Restore, history
  <2>6. BackupInv'
    BY <1>2, <2>1 DEF Inv, CallInv, BackupInv, Names, Either, Restore, Goto, history
  <2>7. EvidenceInv'
    BY <2>1 DEF Inv, CallInv, EvidenceInv, Restore
  <2> QED BY <2>2, <2>3, <2>4, <2>5, <2>6, <2>7 DEF Inv
<1> QED BY <1>1, <1>2 DEF Restore

\* The backup becomes what the primary holds, which is not older than what was
\* acknowledged.
LEMMA CopyKeeps == ASSUME Inv, Copy PROVE Inv'
<1>1. CASE WriteFails
  BY <1>1, ReturnKeeps DEF Copy, WriteFails
<1>2. CASE Replace("backup", prev) /\ Goto("copySync") /\ UNCHANGED <<session, history>>
  <2>1. /\ file'["backup"] = prev /\ file'["primary"] = file["primary"]
        /\ stable' = stable /\ kept' = kept \ {"backup"}
    BY <1>2 DEF Replace, Inv, TypeOK, Names
  <2>2. TypeOK'
    BY <1>2 DEF Inv, TypeOK, Copy, Goto, history, Replace
  <2>3. CallInv'
    BY <1>2 DEF Inv, CallInv, InSave, InLoad, Copy, Goto
  <2>4. VersionInv'
    BY <1>2, <2>1 DEF Inv, CallInv, VersionInv, Names, Either, Copy, history
  <2>5. PrimaryInv'
    BY <1>2, <2>1 DEF Inv, CallInv, PrimaryInv, Either, Decodes, Mistyped, Copy, history
  <2>6. BackupInv'
    BY <1>2, <2>1
       DEF Inv, CallInv, PrimaryInv, BackupInv, InSave, Names, Either, Copy, Goto, history
  <2>7. EvidenceInv'
    BY <2>1 DEF Inv, CallInv, EvidenceInv, Copy
  <2> QED BY <2>2, <2>3, <2>4, <2>5, <2>6, <2>7 DEF Inv
<1> QED BY <1>1, <1>2 DEF Copy

\* The primary is replaced while the backup has caught up, so that the two crash
\* outcomes of this rename are the new version and the acknowledged one.
LEMMA PutKeeps == ASSUME Inv, Put PROVE Inv'
<1>1. CASE WriteFails
  BY <1>1, ReturnKeeps DEF Put, WriteFails
<1>2. CASE Replace("primary", data) /\ Goto("putSync") /\ UNCHANGED <<session, history>>
  <2>1. /\ file'["primary"] = data /\ file'["backup"] = file["backup"]
        /\ stable' = stable /\ kept' = kept \ {"primary"}
    BY <1>2 DEF Replace, Inv, TypeOK, Names
  <2>2. TypeOK'
    BY <1>2, VersionsAre DEF Inv, TypeOK, Put, Goto, history, Replace
  <2>3. CallInv'
    BY <1>2, <2>1 DEF Inv, CallInv, InSave, InLoad, Put, Goto
  <2>4. VersionInv'
    BY <1>2, <2>1, Ranges
       DEF Inv, CallInv, VersionInv, PrimaryInv, InSave, Names, Either, Decodes, Put,
           history
  <2>5. PrimaryInv'
    BY <1>2, <2>1
       DEF Inv, CallInv, VersionInv, PrimaryInv, InSave, Either, Decodes, Mistyped, Put,
           history
  <2>6. BackupInv'
    BY <1>2, <2>1, Ranges DEF Inv, CallInv, BackupInv, Names, Either, Decodes, Put, history
  <2>7. EvidenceInv'
    BY <2>1 DEF Inv, CallInv, EvidenceInv, Damages, Garbage, Mistyped
  <2> QED BY <2>2, <2>3, <2>4, <2>5, <2>6, <2>7 DEF Inv
<1> QED BY <1>1, <1>2 DEF Put

\* A primary that is missing or garbage in a session: nothing was acknowledged yet.
LEMMA SeedKeeps == ASSUME Inv, Seed PROVE Inv'
<1>1. CASE WriteFails
  BY <1>1, ReturnKeeps DEF Seed, WriteFails
<1>2. CASE ReadFails
  BY <1>2, ReturnKeeps DEF Seed, ReadFails
<1>3. CASE /\ SeedDue /\ Replace("backup", data)
          /\ Goto("copySync") /\ UNCHANGED <<session, history>>
  <2>1. /\ file'["backup"] = data /\ file'["primary"] = file["primary"]
        /\ stable' = stable /\ kept' = kept \ {"backup"}
    BY <1>3 DEF Replace, Inv, TypeOK, Names
  <2>2. TypeOK'
    BY <1>3, VersionsAre DEF Inv, TypeOK, Seed, Goto, history, Replace
  <2>3. CallInv'
    BY <1>3 DEF Inv, CallInv, InSave, InLoad, Seed, Goto
  <2>4. VersionInv'
    BY <1>3, <2>1, Ranges DEF Inv, CallInv, VersionInv, Names, Either, Seed, history
  <2>5. PrimaryInv'
    BY <1>3, <2>1
       DEF Inv, CallInv, PrimaryInv, Either, Missing, Garbage, Mistyped, Seed, history
  <2>6. BackupInv'
    BY <1>3, <2>1, Ranges
       DEF Inv, CallInv, BackupInv, Names, Either, Decodes, Missing, SeedDue, Goto,
           history
  <2>7. EvidenceInv'
    BY <1>3, <2>1 DEF Inv, EvidenceInv, Damages, Missing, Garbage, Mistyped, Seed, SeedDue
  <2> QED BY <2>2, <2>3, <2>4, <2>5, <2>6, <2>7 DEF Inv
<1>4. CASE ~SeedDue /\ Goto("put") /\ UNCHANGED <<store, session, history>>
  <2>1. file' = file /\ stable' = stable /\ kept' = kept
    BY <1>4 DEF store
  <2>2. TypeOK'
    BY <1>4 DEF Inv, TypeOK, store, Seed, Goto, history
  <2>3. CallInv'
    BY <1>4 DEF Inv, CallInv, InSave, InLoad, Seed, Goto
  <2>4. VersionInv'
    BY <1>4, <2>1 DEF Inv, VersionInv, Either, Seed, history
  <2>5. PrimaryInv'
    BY <1>4, <2>1 DEF Inv, PrimaryInv, Either, history
  <2>6. BackupInv'
    BY <1>4, <2>1, Ranges
       DEF Inv, CallInv, PrimaryInv, BackupInv, InSave, Names, Either, Missing, Garbage,
           Seed, history
  <2>7. EvidenceInv'
    BY <2>1 DEF Inv, EvidenceInv, Seed
  <2> QED BY <2>2, <2>3, <2>4, <2>5, <2>6, <2>7 DEF Inv
<1> QED BY <1>1, <1>2, <1>3, <1>4 DEF Seed

LEMMA ReadPreviousKeeps == ASSUME Inv, ReadPrevious PROVE Inv'
<1>1. CASE ReadFails
  BY <1>1, ReturnKeeps DEF ReadPrevious, ReadFails
<1>2. CASE /\ prev' = file["primary"] /\ pc' = AfterRead(file["primary"])
          /\ UNCHANGED <<store, session, data, history>>
  <2>1. /\ file' = file /\ stable' = stable /\ kept' = kept
        /\ \/ pc' = "copy" /\ (Decodes(file["primary"]) \/ file["primary"] = Mistyped)
           \/ pc' = "preserve" /\ file["primary"] = Garbage
           \/ pc' = "seed" /\ file["primary"] = Missing
    BY <1>2 DEF store, AfterRead, Contents, Docs, Damages, Decodes, Inv, TypeOK, Names
  <2>2. TypeOK'
    BY <1>2, <2>1 DEF Inv, TypeOK, ReadPrevious, history, Names
  <2>3. CallInv'
    BY <1>2, <2>1 DEF Inv, CallInv, InSave, InLoad, ReadPrevious
  <2>4. VersionInv'
    BY <1>2, <2>1 DEF Inv, VersionInv, Either, ReadPrevious, history
  <2>5. PrimaryInv'
    BY <1>2, <2>1 DEF Inv, PrimaryInv, Either, history
  <2>6. BackupInv'
    BY <1>2, <2>1 DEF Inv, BackupInv, Either, history
  <2>7. EvidenceInv'
    BY <2>1 DEF EvidenceInv, Damages, Missing, Garbage, Mistyped
  <2> QED BY <2>2, <2>3, <2>4, <2>5, <2>6, <2>7 DEF Inv
<1> QED BY <1>1, <1>2 DEF ReadPrevious

LEMMA PreservePreviousKeeps == ASSUME Inv, PreservePrevious PROVE Inv'
<1>1. CASE WriteFails
  BY <1>1, ReturnKeeps DEF PreservePrevious, WriteFails
<1>2. CASE /\ kept' = kept \cup {"primary"} /\ Goto("seed")
          /\ UNCHANGED <<file, stable, session, history>>
  <2>1. file' = file /\ stable' = stable /\ kept' \subseteq Names
    BY <1>2 DEF Inv, TypeOK, Names
  <2>2. TypeOK'
    BY <1>2, <2>1 DEF Inv, TypeOK, PreservePrevious, Goto, history
  <2>3. CallInv'
    BY <1>2 DEF Inv, CallInv, InSave, InLoad, PreservePrevious, Goto
  <2>4. VersionInv'
    BY <1>2 DEF Inv, VersionInv, Either, PreservePrevious, history
  <2>5. PrimaryInv'
    BY <1>2 DEF Inv, PrimaryInv, Either, history
  <2>6. BackupInv'
    BY <1>2 DEF Inv, BackupInv, Either, Goto, history
  <2>7. EvidenceInv'
    BY <1>2 DEF EvidenceInv
  <2> QED BY <2>2, <2>3, <2>4, <2>5, <2>6, <2>7 DEF Inv
<1> QED BY <1>1, <1>2 DEF PreservePrevious

\* From here on the older version is what counts as acknowledged.
LEMMA RestoreSyncKeeps == ASSUME Inv, RestoreSync PROVE Inv'
<1>1. CASE "sync" \in Faults /\ Return /\ UNCHANGED <<store, session, history>>
  BY <1>1, ReturnKeeps DEF RestoreSync
<1>2. CASE stable' = SyncDir /\ UNCHANGED <<file, kept>> /\ LoadReturns(prev) /\ Return
  <2>1. /\ file' = file /\ stable' = file /\ kept' = kept
        /\ \A name \in Names :
             name \in hurt' <=> ~(Decodes(file[name]) /\ Decodes(stable[name]))
    BY <1>2 DEF SyncDir, LoadReturns, Broken
  <2>2. TypeOK'
    BY <1>2, VersionsAre
       DEF Inv, TypeOK, RestoreSync, LoadReturns, Least, Return, SyncDir, Broken, Versions,
           Contents, CallInv, Decodes
  <2>3. CallInv'
    BY DEF CallInv, InSave, InLoad, RestoreSync, Return
  <2>4. VersionInv'
    BY <2>1, Ranges
       DEF Inv, VersionInv, Names, Either, RestoreSync, LoadReturns, Least, history
  <2>5. PrimaryInv'
    BY <2>1, Ranges
       DEF Inv, CallInv, PrimaryInv, Either, Decodes, Mistyped, RestoreSync, LoadReturns,
           Least, history
  <2>6. BackupInv'
    BY <2>1, Ranges
       DEF Inv, BackupInv, Names, Either, RestoreSync, LoadReturns, Least, Return, history
  <2>7. EvidenceInv'
    BY DEF EvidenceInv, RestoreSync, Return
  <2> QED BY <2>2, <2>3, <2>4, <2>5, <2>6, <2>7 DEF Inv
<1> QED BY <1>1, <1>2 DEF RestoreSync

LEMMA CopySyncKeeps == ASSUME Inv, CopySync PROVE Inv'
<1>1. CASE "sync" \in Faults /\ Return /\ UNCHANGED <<store, session, history>>
  BY <1>1, ReturnKeeps DEF CopySync
<1>2. CASE /\ stable' = SyncDir /\ UNCHANGED <<file, kept>>
          /\ Goto("put") /\ UNCHANGED <<session, history>>
  <2>1. /\ file' = file /\ stable' = file /\ kept' = kept
    BY <1>2 DEF SyncDir
  <2>2. TypeOK'
    BY VersionsAre
       DEF Inv, TypeOK, store, CopySync, Return, Goto, history, SyncDir, Contents
  <2>3. CallInv'
    BY <1>2 DEF Inv, CallInv, InSave, InLoad, CopySync, Goto
  <2>4. VersionInv'
    BY <1>2, <2>1, Ranges DEF Inv, VersionInv, Names, Either, CopySync, history
  <2>5. PrimaryInv'
    BY <1>2, <2>1 DEF Inv, PrimaryInv, Either, history
  <2>6. BackupInv'
    BY <1>2, <2>1 DEF Inv, BackupInv, Either, CopySync, history
  <2>7. EvidenceInv'
    BY <2>1 DEF Inv, EvidenceInv, CopySync
  <2> QED BY <2>2, <2>3, <2>4, <2>5, <2>6, <2>7 DEF Inv
<1> QED BY <1>1, <1>2 DEF CopySync

LEMMA PutSyncKeeps == ASSUME Inv, PutSync PROVE Inv'
<1>1. CASE "sync" \in Faults /\ Return /\ UNCHANGED <<store, history>>
  BY <1>1, ReturnKeeps DEF PutSync
<1>2. CASE /\ stable' = SyncDir /\ UNCHANGED <<file, kept>>
          /\ Return /\ acked' = data /\ prior' = acked /\ hurt' = Broken
  <2>1. /\ file' = file /\ stable' = file /\ kept' = kept
        /\ \A name \in Names :
             name \in hurt' <=> ~(Decodes(file[name]) /\ Decodes(stable[name]))
    BY <1>2 DEF SyncDir, Broken
  <2>2. TypeOK'
    BY VersionsAre
       DEF Inv, TypeOK, store, PutSync, Return, history, SyncDir, Broken, Contents
  <2>3. CallInv'
    BY DEF CallInv, InSave, InLoad, PutSync, Return
  <2>4. VersionInv'
    BY <2>1 DEF Inv, CallInv, VersionInv, InSave, Names, Either, PutSync, history
  <2>5. PrimaryInv'
    BY <2>1
       DEF Inv, CallInv, VersionInv, PrimaryInv, Names, Either, Decodes, PutSync, history
  <2>6. BackupInv'
    BY <2>1
       DEF Inv, CallInv, PrimaryInv, BackupInv, Names, Either, Decodes, PutSync, Return,
           history
  <2>7. EvidenceInv'
    BY DEF EvidenceInv, PutSync, Return
  <2> QED BY <2>2, <2>3, <2>4, <2>5, <2>6, <2>7 DEF Inv
<1> QED BY <1>1, <1>2 DEF PutSync

LEMMA ReadPrimaryKeeps == ASSUME Inv, ReadPrimary PROVE Inv'
<1>1. CASE ReadFails
  BY <1>1, ReturnKeeps DEF ReadPrimary, ReadFails
<1>2. CASE /\ Decodes(file["primary"]) /\ UNCHANGED store
          /\ Return /\ LoadReturns(file["primary"])
  <2>1. /\ file' = file /\ stable' = stable /\ kept' = kept
        /\ \A name \in Names :
             name \in hurt' <=> ~(Decodes(file[name]) /\ Decodes(stable[name]))
    BY <1>2 DEF store, LoadReturns, Broken
  <2>2. TypeOK'
    BY <1>2, VersionsAre
       DEF Inv, TypeOK, store, ReadPrimary, LoadReturns, Least, Return, Broken, Versions,
           Contents, Docs, Decodes
  <2>3. CallInv'
    BY <1>2 DEF CallInv, InSave, InLoad, Return
  <2>4. VersionInv'
    BY <1>2, <2>1, Ranges
       DEF Inv, VersionInv, Names, Either, ReadPrimary, LoadReturns, Least
  <2>5. PrimaryInv'
    BY <1>2, <2>1, Ranges
       DEF Inv, VersionInv, PrimaryInv, Names, Either, Decodes, Mistyped, LoadReturns,
           Least
  <2>6. BackupInv'
    BY <1>2, <2>1, Ranges DEF Inv, BackupInv, Names, Either, LoadReturns, Least, Return
  <2>7. EvidenceInv'
    BY <1>2 DEF EvidenceInv, Return
  <2> QED BY <2>2, <2>3, <2>4, <2>5, <2>6, <2>7 DEF Inv
<1>3. CASE /\ file["primary"] \in Damages \cup {Missing}
          /\ (Preserved("primary") \/ UNCHANGED store)
          /\ Goto("loadBackup") /\ UNCHANGED <<session, history>>
  <2>1. /\ file' = file /\ stable' = stable /\ ~Decodes(file["primary"])
        /\ kept' \subseteq Names /\ kept' \subseteq kept \cup {"primary"}
    <3>1. file' = file /\ stable' = stable /\ kept' \subseteq kept \cup {"primary"}
      BY <1>3 DEF store, Preserved
    <3>2. kept \subseteq Names /\ "primary" \in Names
      BY DEF Inv, TypeOK, Names
    <3>3. ~Decodes(file["primary"])
      BY <1>3, VersionsAre
    <3> QED BY <3>1, <3>2, <3>3
  <2>2. TypeOK'
    BY <1>3, <2>1 DEF Inv, TypeOK, ReadPrimary, Goto, history
  <2>3. CallInv'
    BY <1>3, <2>1 DEF Inv, CallInv, InSave, InLoad, ReadPrimary, Goto
  <2>4. VersionInv'
    BY <1>3, <2>1 DEF Inv, VersionInv, Either, ReadPrimary, history
  <2>5. PrimaryInv'
    BY <1>3, <2>1 DEF Inv, PrimaryInv, Either, history
  <2>6. BackupInv'
    BY <1>3, <2>1 DEF Inv, BackupInv, Either, Goto, history
  <2>7. EvidenceInv'
    BY <1>3 DEF EvidenceInv, Goto
  <2> QED BY <2>2, <2>3, <2>4, <2>5, <2>6, <2>7 DEF Inv
<1> QED BY <1>1, <1>2, <1>3 DEF ReadPrimary

LEMMA ReadBackupKeeps == ASSUME Inv, ReadBackup PROVE Inv'
<1>1. CASE ReadFails
  BY <1>1, ReturnKeeps DEF ReadBackup, ReadFails
<1>2. CASE /\ Decodes(file["backup"]) /\ pc' = "restore" /\ prev' = file["backup"]
          /\ UNCHANGED <<store, session, data, history>>
  <2>1. file' = file /\ stable' = stable /\ kept' = kept
    BY <1>2 DEF store
  <2>2. TypeOK'
    BY <1>2 DEF Inv, TypeOK, store, ReadBackup, history, Names
  <2>3. CallInv'
    BY <1>2, <2>1 DEF Inv, CallInv, InSave, InLoad, ReadBackup
  <2>4. VersionInv'
    BY <1>2, <2>1 DEF Inv, VersionInv, Either, ReadBackup, history
  <2>5. PrimaryInv'
    BY <1>2, <2>1 DEF Inv, PrimaryInv, Either, history
  <2>6. BackupInv'
    BY <1>2, <2>1 DEF Inv, BackupInv, Either, history
  <2>7. EvidenceInv'
    BY <1>2 DEF EvidenceInv
  <2> QED BY <2>2, <2>3, <2>4, <2>5, <2>6, <2>7 DEF Inv
<1>3. CASE /\ ~Decodes(file["backup"]) /\ (Preserved("backup") \/ UNCHANGED store)
          /\ Return /\ LoadReturns(0)
  <2>1. /\ session' /\ acked' = 0 /\ prior' = 0 /\ file' = file /\ stable' = stable
        /\ kept' \subseteq Names /\ kept' \subseteq kept \cup {"backup"}
        /\ \A name \in Names :
             name \in hurt' <=> ~(Decodes(file[name]) /\ Decodes(stable[name]))
    <3>1. file' = file /\ stable' = stable /\ kept' \subseteq kept \cup {"backup"}
      BY <1>3 DEF store, Preserved
    <3>2. kept \subseteq Names /\ "backup" \in Names
      BY DEF Inv, TypeOK, Names
    <3>3. session' /\ acked' = 0 /\ prior' = 0
      BY <1>3, Ranges DEF LoadReturns, Least
    <3>4. hurt' = Broken
      BY <1>3 DEF LoadReturns
    <3> QED BY <3>1, <3>2, <3>3, <3>4 DEF Broken
  <2>2. TypeOK'
    BY <1>3, <2>1, VersionsAre
       DEF Inv, TypeOK, Missing, ReadBackup, LoadReturns, Return, Broken
  <2>3. CallInv'
    BY <1>3 DEF CallInv, InSave, InLoad, Return
  <2>4. VersionInv'
    BY <2>1, Ranges DEF Inv, VersionInv, Names, Either, ReadBackup
  <2>5. PrimaryInv'
    BY <1>3, <2>1 DEF Inv, CallInv, VersionInv, PrimaryInv, Either, ReadBackup
  <2>6. BackupInv'
    BY <2>1, Ranges DEF BackupInv, Names, Either, Decodes
  <2>7. EvidenceInv'
    BY <1>3 DEF EvidenceInv, Return
  <2> QED BY <2>2, <2>3, <2>4, <2>5, <2>6, <2>7 DEF Inv
<1>4. CASE /\ ~Decodes(file["backup"]) /\ (Preserved("backup") \/ UNCHANGED store)
          /\ Return /\ UNCHANGED <<session, history>>
  <2>1. /\ file' = file /\ stable' = stable
        /\ kept' \subseteq Names /\ kept' \subseteq kept \cup {"backup"}
    BY <1>4 DEF store, Preserved, Inv, TypeOK, Names
  <2>2. TypeOK'
    BY <1>4, <2>1, VersionsAre DEF Inv, TypeOK, Missing, ReadBackup, Return, history
  <2>3. CallInv'
    BY <1>4 DEF CallInv, InSave, InLoad, Return
  <2>4. VersionInv'
    BY <1>4, <2>1 DEF Inv, VersionInv, Either, ReadBackup, history
  <2>5. PrimaryInv'
    BY <1>4, <2>1 DEF Inv, PrimaryInv, Either, history
  <2>6. BackupInv'
    BY <1>4, <2>1 DEF Inv, BackupInv, Either, Return, history
  <2>7. EvidenceInv'
    BY <1>4 DEF EvidenceInv, Return
  <2> QED BY <2>2, <2>3, <2>4, <2>5, <2>6, <2>7 DEF Inv
<1> QED BY <1>1, <1>2, <1>3, <1>4 DEF ReadBackup

LEMMA LeaveKeeps == ASSUME Inv, Leave PROVE Inv'
<1>1. file' = file /\ stable' = stable /\ kept' = kept
  BY DEF Leave, store
<1>2. TypeOK'
  BY VersionsAre DEF Inv, TypeOK, Missing, store, Leave, Return, history
<1>3. CallInv'
  BY DEF CallInv, InSave, Leave, Return
<1>4. VersionInv'
  BY <1>1 DEF Inv, VersionInv, Either, Leave, history
<1>5. PrimaryInv'
  BY <1>1 DEF Inv, PrimaryInv, Either, Leave, history
<1>6. BackupInv'
  BY <1>1 DEF Inv, BackupInv, Either, Leave, Return, history
<1>7. EvidenceInv'
  BY DEF EvidenceInv, Leave, Return
<1> QED BY <1>2, <1>3, <1>4, <1>5, <1>6, <1>7 DEF Inv

LEMMA CrashKeeps == ASSUME Inv, Crash PROVE Inv'
<1>1. /\ \A name \in Names :
           file'[name] \in {file[name], stable[name]} /\ stable'[name] = file'[name]
      /\ kept' \subseteq kept /\ kept' \subseteq Names
  BY DEF Crash, CrashOutcomes, Inv, TypeOK
<1>2. TypeOK'
  BY VersionsAre DEF Inv, TypeOK, Missing, Crash, Return, history, CrashOutcomes
<1>3. CallInv'
  BY DEF CallInv, InSave, Crash, Return
<1>4. VersionInv'
  BY <1>1, Ranges DEF Inv, VersionInv, Names, Either, Crash, history
<1>5. PrimaryInv'
  BY <1>1 DEF Inv, PrimaryInv, Names, Either, Crash, history
<1>6. BackupInv'
  BY <1>1 DEF Inv, BackupInv, Names, Either, Crash, Return, history
<1>7. EvidenceInv'
  BY DEF EvidenceInv, Crash, Return
<1> QED BY <1>2, <1>3, <1>4, <1>5, <1>6, <1>7 DEF Inv

\* Damage may take any copy, and says so in hurt.
LEMMA DamageKeeps == ASSUME Inv, NEW name \in Names, Damage(name) PROVE Inv'
<1>1. /\ pc = "idle" /\ ~session
      /\ name \in hurt' /\ hurt \subseteq hurt' /\ hurt' \subseteq hurt \cup {name}
      /\ file'[name] \in Damages \cup {Missing} /\ stable'[name] = file'[name]
      /\ ~Decodes(file'[name]) /\ ~Decodes(stable'[name])
      /\ \A other \in Names \ {name} :
           file'[other] = file[other] /\ stable'[other] = stable[other]
  BY DEF Damage, Decodes, Damages, Missing, Garbage, Mistyped, Inv, TypeOK
<1>2. TypeOK'
  BY VersionsAre DEF Inv, TypeOK, Missing, Damage
<1>3. CallInv'
  BY DEF Inv, CallInv, Damage
<1>4. VersionInv'
  <2>1. saves' = saves /\ acked' = acked /\ prior' = prior
    BY DEF Damage
  <2>2. file'[name] <= 0 /\ stable'[name] <= 0 /\ file'[name] \in Int /\ stable'[name] \in Int
    BY <1>1 DEF Damages, Missing, Garbage, Mistyped
  <2>3. \A other \in Names : file'[other] <= saves /\ stable'[other] <= saves
    <3>1. \A other \in Names : file[other] <= saves /\ stable[other] <= saves
      BY DEF Inv, VersionInv, Either
    <3>2. file'[name] <= saves /\ stable'[name] <= saves
      BY <2>2, Ranges
    <3> QED BY <1>1, <3>1, <3>2
  <2>4. CASE name = "primary"
    <3>1. ~Decodes(stable'["primary"])
      BY <1>1, <2>4
    <3> QED BY <2>1, <2>3, <3>1, Ranges DEF VersionInv, Either
  <2>5. CASE name = "backup"
    <3>1. file'["primary"] = file["primary"] /\ stable'["primary"] = stable["primary"]
      BY <1>1, <2>5 DEF Names
    <3> QED BY <2>1, <2>3, <3>1 DEF Inv, VersionInv, Either
  <2> QED BY <2>4, <2>5 DEF Names
<1>5. PrimaryInv'
  BY DEF Inv, PrimaryInv, Either, Damage
<1>6. BackupInv'
  BY <1>1 DEF Inv, BackupInv, Either, Damage
<1>7. EvidenceInv'
  BY DEF EvidenceInv, Damage
<1> QED BY <1>2, <1>3, <1>4, <1>5, <1>6, <1>7 DEF Inv

LEMMA SaveKeeps == ASSUME Inv, Save PROVE Inv'
<1>1. /\ file' = file /\ stable' = stable /\ kept' = kept
      /\ session /\ saves' = saves + 1 /\ data' = saves' /\ saves' \in Versions
  BY StoreAssumption DEF Save, store, Versions, Inv, TypeOK
<1>2. TypeOK'
  BY <1>1 DEF Inv, TypeOK, Save, history
<1>3. CallInv'
  BY Ranges DEF CallInv, InSave, InLoad, Save
<1>4. VersionInv'
  BY <1>1, Ranges DEF Inv, VersionInv, Either, Save, history
<1>5. PrimaryInv'
  BY <1>1 DEF Inv, PrimaryInv, Either, Save, history
<1>6. BackupInv'
  BY <1>1 DEF Inv, BackupInv, Either, Save, history
<1>7. EvidenceInv'
  BY DEF EvidenceInv, Save
<1> QED BY <1>2, <1>3, <1>4, <1>5, <1>6, <1>7 DEF Inv

LEMMA StutterKeeps == ASSUME Inv, UNCHANGED vars PROVE Inv'
BY DEF Inv, TypeOK, CallInv, VersionInv, PrimaryInv, BackupInv, EvidenceInv, vars, store,
       history, Either
LEMMA StepKeeps == ASSUME Inv, Next PROVE Inv'
BY LoadKeeps, ReadPrimaryKeeps, ReadBackupKeeps, RestoreKeeps, RestoreSyncKeeps,
   SaveKeeps, ReadPreviousKeeps, PreservePreviousKeeps, SeedKeeps, CopyKeeps,
   CopySyncKeeps, PutKeeps, PutSyncKeeps, LeaveKeeps, CrashKeeps, DamageKeeps
   DEF Next

THEOREM StoreInvariant == Spec => []Inv
<1>1. Inv /\ [Next]_vars => Inv'
  BY StepKeeps, StutterKeeps
<1> QED BY StoreInit, <1>1, PTL DEF Spec

-----------------------------------------------------------------------------
(* What a crash may leave, in terms of the two contents of each file. *)

Pick(primary, backup) ==
  IF Decodes(primary) THEN primary ELSE IF Decodes(backup) THEN backup ELSE 0

LEMMA CrashLeaves ==
  ASSUME Inv, NEW f \in CrashOutcomes
  PROVE  /\ f["primary"] \in Either("primary") /\ f["backup"] \in Either("backup")
         /\ Recovered(f) = Pick(f["primary"], f["backup"])
BY DEF CrashOutcomes, Either, Names, Recovered, Pick

LEMMA MayBeLeft ==
  ASSUME Inv, NEW primary \in Either("primary"), NEW backup \in Either("backup")
  PROVE  \E f \in CrashOutcomes : Recovered(f) = Pick(primary, backup)
<1> DEFINE f == [name \in Names |-> IF name = "primary" THEN primary ELSE backup]
<1>1. f["primary"] = primary /\ f["backup"] = backup
  BY DEF Names
<1>2. f \in CrashOutcomes
  BY DEF CrashOutcomes, Either, Names, Inv, TypeOK
<1> HIDE DEF f
<1> QED BY <1>1, <1>2 DEF Recovered, Pick

\* One lost file is the primary or the backup.
LEMMA OneHurt ==
  ASSUME Inv, Cardinality(hurt) <= 1
  PROVE  "primary" \notin hurt \/ "backup" \notin hurt
<1> SUFFICES ASSUME "primary" \in hurt, "backup" \in hurt PROVE FALSE
  OBVIOUS
<1>1. hurt = {"primary", "backup"}
  BY DEF Inv, TypeOK, Names
<1>2. Cardinality({"primary"}) = 1 /\ IsFiniteSet({"primary"})
  BY FS_Singleton
<1>3. Cardinality({"primary"} \cup {"backup"}) = 2
  BY <1>2, FS_AddElement
<1>4. hurt = {"primary"} \cup {"backup"}
  BY <1>1
<1> QED BY <1>3, <1>4

-----------------------------------------------------------------------------
(* The theorems. *)

THEOREM StoreTypeCorrect == Spec => []TypeOK
<1>1. Inv => TypeOK
  BY DEF Inv
<1> QED BY <1>1, StoreInvariant, PTL

\* An acknowledged save survives any number of crashes, kills and failed later
\* saves, and the loss of the backup.
THEOREM AcknowledgedSurvives == Spec => []AckedSurvives
<1>1. Inv => AckedSurvives
  <2> SUFFICES ASSUME Inv, "primary" \notin hurt, NEW f \in CrashOutcomes
               PROVE  Recovered(f) >= acked
    BY DEF AckedSurvives
  <2>1. acked \in Int /\ acked >= 0
    BY Ranges
  <2>2. CASE acked = 0
    BY <2>2, CrashLeaves, Ranges DEF Pick, Decodes, Either, Names
  <2>3. CASE acked > 0
    BY <2>3, CrashLeaves, Ranges DEF Inv, PrimaryInv, Pick
  <2> QED BY <2>1, <2>2, <2>3
<1> QED BY <1>1, StoreInvariant, PTL

\* Losing one of the two files, whichever it is, costs at most the last
\* acknowledged save.
THEOREM OneLossOneSave == Spec => []OneDamageOneSave
<1>1. Inv => OneDamageOneSave
  <2> SUFFICES ASSUME Inv, Cardinality(hurt) <= 1, NEW f \in CrashOutcomes
               PROVE  Recovered(f) >= prior
    BY DEF OneDamageOneSave
  <2>1. prior \in Int /\ prior >= 0 /\ prior <= acked /\ acked \in Int
    BY Ranges
  <2>2. /\ f["primary"] \in Int /\ (Decodes(f["primary"]) => f["primary"] >= prior)
        /\ f["backup"] \in Int /\ (Decodes(f["backup"]) => f["backup"] >= prior)
    BY CrashLeaves, Ranges DEF Inv, BackupInv, Either, Names
  <2>3. CASE prior = 0
    BY <2>2, <2>3, CrashLeaves DEF Pick, Decodes
  <2>4. CASE prior > 0 /\ "primary" \notin hurt
    BY <2>1, <2>2, <2>4, CrashLeaves DEF Inv, PrimaryInv, Pick
  <2>5. CASE prior > 0 /\ "backup" \notin hurt
    BY <2>1, <2>2, <2>5, CrashLeaves DEF Inv, BackupInv, Pick
  <2> QED BY <2>1, <2>3, <2>4, <2>5, OneHurt
<1> QED BY <1>1, StoreInvariant, PTL

\* A load that answers with nothing where something was acknowledged follows
\* damage of both files, and in strict mode the loss of both: the first save has
\* made two copies before it is acknowledged, and nothing but damage takes one.
THEOREM LoadsAreHonest == Spec => LoadHonest
<1>1. Inv /\ [Next]_vars =>
        [~session /\ session' /\ acked > 0 /\ acked' = 0
         => hurt = Names /\ (fresh \/ file = Absent)]_vars
  <2> SUFFICES ASSUME Inv, Next, ~session, session', acked > 0, acked' = 0
               PROVE  hurt = Names /\ (fresh \/ file = Absent)
    OBVIOUS
  <2>1. acked \in Int /\ file["backup"] \in Int /\ file["primary"] \in Int /\ prev \in Int
    BY Ranges DEF Names
  <2>2. ReadBackup /\ ~Decodes(file["backup"]) /\ MayReturnZero
    <3>1. ~(\E version \in Int : version > 0 /\ LoadReturns(version))
      BY <2>1 DEF LoadReturns, Least
    <3>2. ~ReadPrimary
      BY <2>1, <3>1 DEF ReadPrimary, ReadFails, Decodes, history
    <3>3. ~RestoreSync
      BY <2>1, <3>1 DEF RestoreSync, Inv, CallInv, Decodes
    <3>4. ReadBackup
      BY <3>2, <3>3 DEF Next, Load, Restore, WriteFails, Save, ReadPrevious, ReadFails,
                PreservePrevious, Seed, Copy, CopySync, Put, PutSync, Leave, Crash, Damage,
                Inv, CallInv, InLoad, InSave
    <3> QED BY <3>4 DEF ReadBackup, ReadFails, history
  <2>3. ~Decodes(file["primary"])
    BY <2>2 DEF ReadBackup, Inv, CallInv
  <2>4. "primary" \in hurt /\ "backup" \in hurt
    BY <2>2, <2>3 DEF Inv, PrimaryInv, BackupInv, Either
  <2>5. hurt = Names
    BY <2>4 DEF Names, Inv, TypeOK
  <2>6. fresh \/ file = Absent
    BY <2>2 DEF MayReturnZero, Absent, Names, Inv, TypeOK
  <2> QED BY <2>5, <2>6
<1> QED BY <1>1, StoreInvariant, PTL DEF Spec, LoadHonest

\* A save does not destroy the only copy of damaged bytes.
THEOREM SavesKeepEvidence == Spec => SaveKeepsEvidence
<1>1. Inv => EvidenceInv
  BY DEF Inv
<1>2. EvidenceInv /\ [Next]_vars =>
        [pc = "put" /\ file["primary"] \in Damages /\ file'["primary"] # file["primary"]
           => "primary" \in kept \/ file["backup"] = file["primary"]]_vars
  BY DEF EvidenceInv
<1> QED BY <1>1, <1>2, StoreInvariant, PTL DEF Spec, SaveKeepsEvidence

-----------------------------------------------------------------------------
(* The pair of files implements one register. *)

Value    == Recovered(file)
Possible == {Recovered(f) : f \in CrashOutcomes}

\* The register's two values from the four contents.
FromCopies ==
  /\ Value = Pick(file["primary"], file["backup"])
  /\ \A x : x \in Possible <=>
       \/ x = Pick(file["primary"], file["backup"])
       \/ x = Pick(file["primary"], stable["backup"])
       \/ x = Pick(stable["primary"], file["backup"])
       \/ x = Pick(stable["primary"], stable["backup"])

LEMMA CopiesNow == Inv => FromCopies
<1> SUFFICES ASSUME Inv PROVE FromCopies
  OBVIOUS
<1>1. Value = Pick(file["primary"], file["backup"])
  BY DEF Value, Recovered, Pick
<1>2. ASSUME NEW x \in Possible
      PROVE  \E primary \in Either("primary"), backup \in Either("backup") :
                x = Pick(primary, backup)
  BY <1>2, CrashLeaves DEF Possible
<1>3. ASSUME NEW primary \in Either("primary"), NEW backup \in Either("backup")
      PROVE  Pick(primary, backup) \in Possible
  BY <1>3, MayBeLeft DEF Possible
<1> QED BY <1>1, <1>2, <1>3 DEF FromCopies, Either

LEMMA CopiesNext == Inv' => FromCopies'
BY CopiesNow, PTL

LEMMA AsStutter ==
  ASSUME UNCHANGED <<file, stable, saves, data, acked>>
  PROVE  UNCHANGED Register!vars
BY DEF Register!vars, Recovered, CrashOutcomes

LEMMA AsBegin ==
  ASSUME UNCHANGED <<file, stable, acked>>,
         data = 0, saves < MaxSaves, saves' = saves + 1, data' = saves'
  PROVE  Register!Next
BY DEF Register!Next, Register!Begin, Recovered, CrashOutcomes

LEMMA AsPut ==
  ASSUME data # 0, Value' = data, Possible' \subseteq Possible \cup {data},
         data \in Possible', UNCHANGED <<saves, data, acked>>
  PROVE  Register!Next
BY DEF Register!Next, Register!Put, Value, Possible

LEMMA AsSettle ==
  ASSUME Possible' \subseteq Possible, Value \in Possible',
         Value' = Value, UNCHANGED <<saves, data, acked>>
  PROVE  Register!Next
BY DEF Register!Next, Register!Settle, Value, Possible

LEMMA AsAcknowledge ==
  ASSUME data # 0, Value = data, Possible' = {Value}, acked' = data, data' = 0,
         Value' = Value, UNCHANGED saves
  PROVE  Register!Next
BY DEF Register!Next, Register!Acknowledge, Value, Possible

LEMMA AsGiveUp ==
  ASSUME UNCHANGED <<file, stable, saves, acked>>, data' = 0
  PROVE  Register!Next
BY DEF Register!Next, Register!GiveUp, Recovered, CrashOutcomes

LEMMA AsCrash ==
  ASSUME Value' \in Possible, Possible' = {Value'}, data' = 0, UNCHANGED <<saves, acked>>
  PROVE  Register!Next
BY DEF Register!Next, Register!Crash, Value, Possible

LEMMA AsDegrade ==
  ASSUME data = 0, Value' \in Possible', Possible' \subseteq 0 .. saves,
         UNCHANGED <<saves, data, acked>>
  PROVE  Register!Next
BY DEF Register!Next, Register!Degrade, Value, Possible

LEMMA AsAdopt ==
  ASSUME Value <= acked, acked' = Value, Possible' \subseteq Possible, Value \in Possible',
         Value' = Value, UNCHANGED <<saves, data>>
  PROVE  Register!Next
BY DEF Register!Next, Register!Adopt, Value, Possible

LEMMA RegisterInit == Init => Register!Init
<1> SUFFICES ASSUME Init PROVE Register!Init
  OBVIOUS
<1>1. Inv
  BY StoreInit
<1>2. file["primary"] = 0 /\ file["backup"] = 0 /\ stable["primary"] = 0 /\ stable["backup"] = 0
  BY DEF Init, Absent, Names, Missing
<1>3. Value = 0 /\ Possible = {0}
  BY <1>1, <1>2, CopiesNow DEF FromCopies, Pick, Decodes
<1> QED BY <1>3 DEF Register!Init, Init, Value, Possible

LEMMA Unmoved ==
  ASSUME Inv, UNCHANGED <<file, stable>>
  PROVE  Value' = Value /\ Possible' = Possible /\ Value \in Possible
BY CopiesNow DEF Value, Possible, Recovered, CrashOutcomes, FromCopies

\* A load finds what was there before it, and makes it the current version.
LEMMA LoadRefines ==
  ASSUME Inv, Inv', Load \/ ReadPrimary \/ ReadBackup \/ Restore \/ RestoreSync
  PROVE  Register!Next \/ UNCHANGED Register!vars
<1>1. data = 0 \/ pc \in InSave
  BY DEF Inv, CallInv
<1>2. CASE Load
  BY <1>2, AsStutter DEF Load, store, history
<1>3. CASE ReadPrimary
  <2>1. data = 0
    BY <1>1, <1>3 DEF ReadPrimary, InSave
  <2>2. file' = file /\ stable' = stable /\ saves' = saves /\ data' = 0
    BY <1>3, <2>1 DEF ReadPrimary, ReadFails, Return, Preserved, Goto, store
  <2>3. CASE acked' = acked
    BY <2>1, <2>2, <2>3, AsStutter
  <2>4. CASE acked' # acked
    <3>1. Decodes(file["primary"]) /\ acked' = Least(file["primary"], acked)
      BY <1>3, <2>4 DEF ReadPrimary, ReadFails, LoadReturns, history
    <3>2. Value = file["primary"]
      BY <3>1 DEF Value, Recovered
    <3>3. Value <= acked /\ acked' = Value
      BY <2>4, <3>1, <3>2, Ranges DEF Least, Names
    <3> QED BY <2>1, <2>2, <3>3, Unmoved, AsAdopt
  <2> QED BY <2>3, <2>4
<1>4. CASE ReadBackup
  <2>1. data = 0
    BY <1>1, <1>4 DEF ReadBackup, InSave
  <2>2. file' = file /\ stable' = stable /\ saves' = saves /\ data' = 0
    BY <1>4, <2>1 DEF ReadBackup, ReadFails, Return, Preserved, store
  <2>3. CASE acked' = acked
    BY <2>1, <2>2, <2>3, AsStutter
  <2>4. CASE acked' # acked
    <3>1. ~Decodes(file["backup"]) /\ acked' = Least(0, acked)
      BY <1>4, <2>4 DEF ReadBackup, ReadFails, LoadReturns, history
    <3>2. ~Decodes(file["primary"])
      BY <1>4 DEF ReadBackup, Inv, CallInv
    <3>3. Value = 0
      BY <3>1, <3>2 DEF Value, Recovered
    <3>4. Value <= acked /\ acked' = Value
      BY <3>1, <3>3, Ranges DEF Least
    <3> QED BY <2>1, <2>2, <3>4, Unmoved, AsAdopt
  <2> QED BY <2>3, <2>4
<1>5. CASE Restore
  <2>1. data = 0 /\ prev = file["backup"] /\ Decodes(prev) /\ ~Decodes(file["primary"])
    BY <1>1, <1>5 DEF Restore, InSave, Inv, CallInv
  <2>2. CASE WriteFails
    BY <1>5, <2>2, AsGiveUp DEF Restore, WriteFails, Return, store, history
  <2>3. CASE Replace("primary", prev) /\ Goto("restoreSync") /\ UNCHANGED <<session, history>>
    <3>1. /\ file'["primary"] = prev /\ file'["backup"] = file["backup"] /\ stable' = stable
          /\ UNCHANGED <<saves, data, acked>>
      BY <1>5, <2>3 DEF Restore, Replace, Goto, history, Inv, TypeOK, Names
    <3>2. ~Decodes(stable["primary"])
      BY <2>1 DEF Inv, VersionInv
    <3>3. Value' = Value /\ Possible' \subseteq Possible /\ Value \in Possible'
      BY <2>1, <3>1, <3>2, CopiesNow, CopiesNext DEF FromCopies, Pick
    <3> QED BY <3>1, <3>3, AsSettle
  <2> QED BY <1>5, <2>2, <2>3 DEF Restore
<1>6. CASE RestoreSync
  <2>1. data = 0 /\ prev = file["primary"] /\ Decodes(prev)
    BY <1>1, <1>6 DEF RestoreSync, InSave, Inv, CallInv
  <2>2. CASE "sync" \in Faults /\ Return /\ UNCHANGED <<store, session, history>>
    BY <1>6, <2>2, AsGiveUp DEF RestoreSync, Return, store, history
  <2>3. CASE stable' = SyncDir /\ UNCHANGED <<file, kept>> /\ LoadReturns(prev) /\ Return
    <3>1. file' = file /\ stable' = file /\ saves' = saves /\ data' = 0 /\ acked' = Least(prev, acked)
      BY <1>6, <2>3 DEF RestoreSync, SyncDir, LoadReturns, Return
    <3>2. Value = prev /\ Value' = Value /\ Possible' = {Value} /\ Value \in Possible
      BY <2>1, <3>1, CopiesNow, CopiesNext DEF FromCopies, Pick
    <3>3. CASE acked' = acked
      BY <2>1, <3>1, <3>2, <3>3, AsSettle
    <3>4. CASE acked' # acked
      <4>1. Value <= acked /\ acked' = Value
        BY <2>1, <3>1, <3>2, <3>4, Ranges DEF Least
      <4> QED BY <2>1, <3>1, <3>2, <4>1, AsAdopt
    <3> QED BY <3>3, <3>4
  <2> QED BY <1>6, <2>2, <2>3 DEF RestoreSync
<1> QED BY <1>2, <1>3, <1>4, <1>5, <1>6

\* Preparing a save takes nothing away from what a load would find.
LEMMA PrepareRefines ==
  ASSUME Inv, Inv', Save \/ ReadPrevious \/ PreservePrevious \/ Copy \/ CopySync
  PROVE  Register!Next \/ UNCHANGED Register!vars
<1>1. CASE Save
  <2>1. data = 0
    BY <1>1 DEF Save, Inv, CallInv, InSave
  <2> QED BY <1>1, <2>1, AsBegin DEF Save, store, history
<1>2. CASE ReadPrevious
  BY <1>2, AsStutter, AsGiveUp DEF ReadPrevious, ReadFails, Return, store, history
<1>3. CASE PreservePrevious
  BY <1>3, AsStutter, AsGiveUp
     DEF PreservePrevious, WriteFails, Return, Goto, store, history
<1>4. CASE Copy
  <2>1. /\ prev = file["primary"] /\ (Decodes(prev) \/ prev = Mistyped) /\ session
    BY <1>4 DEF Copy, Inv, CallInv, InSave
  <2>2. CASE WriteFails
    BY <1>4, <2>2, AsGiveUp DEF Copy, WriteFails, Return, store, history
  <2>3. CASE Replace("backup", prev) /\ Goto("copySync") /\ UNCHANGED <<session, history>>
    <3>1. /\ file'["backup"] = prev /\ file'["primary"] = file["primary"] /\ stable' = stable
          /\ UNCHANGED <<saves, data, acked>>
      BY <1>4, <2>3 DEF Copy, Replace, Goto, history, Inv, TypeOK, Names
    <3>2. CASE Decodes(prev)
      <4>1. Value' = Value /\ Possible' \subseteq Possible /\ Value \in Possible'
        BY <2>1, <3>1, <3>2, CopiesNow, CopiesNext DEF FromCopies, Pick
      <4> QED BY <3>1, <4>1, AsSettle
    <3>3. CASE prev = Mistyped
      <4>1. ~Decodes(file["primary"]) /\ ~Decodes(file["backup"]) /\ ~Decodes(stable["primary"])
        BY <2>1, <3>3, VersionsAre
           DEF Inv, VersionInv, PrimaryInv, Damages, Decodes, Mistyped
      <4>2. Value' = Value /\ Possible' \subseteq Possible /\ Value \in Possible'
        BY <2>1, <3>1, <4>1, CopiesNow, CopiesNext DEF FromCopies, Pick
      <4> QED BY <3>1, <4>2, AsSettle
    <3> QED BY <2>1, <3>2, <3>3
  <2> QED BY <1>4, <2>2, <2>3 DEF Copy
<1>5. CASE CopySync
  <2>1. CASE "sync" \in Faults /\ Return /\ UNCHANGED <<store, session, history>>
    BY <1>5, <2>1, AsGiveUp DEF CopySync, Return, store, history
  <2>2. CASE stable' = SyncDir /\ UNCHANGED <<file, kept>> /\ Goto("put")
             /\ UNCHANGED <<session, history>>
    <3>1. file' = file /\ stable' = file /\ UNCHANGED <<saves, data, acked>>
      BY <1>5, <2>2 DEF CopySync, SyncDir, Goto, history
    <3>2. Value' = Value /\ Possible' \subseteq Possible /\ Value \in Possible'
      BY <3>1, CopiesNow, CopiesNext DEF FromCopies
    <3> QED BY <3>1, <3>2, AsSettle
  <2> QED BY <1>5, <2>1, <2>2 DEF CopySync
<1> QED BY <1>1, <1>2, <1>3, <1>4, <1>5

\* The new version shows with the first replacement of a file that a load would
\* read, and is acknowledged when it is the only one that a crash can leave.
LEMMA ReplaceRefines ==
  ASSUME Inv, Inv', Seed \/ Put \/ PutSync
  PROVE  Register!Next \/ UNCHANGED Register!vars
<1>1. pc \in InSave /\ data = saves /\ data > 0 /\ data \in Int /\ Decodes(data)
  BY Ranges DEF Seed, Put, PutSync, Inv, CallInv, InSave, Decodes
<1>2. CASE Seed
  <2>1. CASE WriteFails \/ ReadFails
    BY <1>2, <2>1, AsGiveUp DEF Seed, WriteFails, ReadFails, Return, store, history
  <2>2. CASE Goto("put") /\ UNCHANGED <<store, session, history>>
    BY <1>2, <2>2, AsStutter DEF Seed, Goto, store, history
  <2>3. CASE /\ SeedDue /\ Replace("backup", data) /\ Goto("copySync")
             /\ UNCHANGED <<session, history>>
    <3>1. /\ file'["backup"] = data /\ file'["primary"] = file["primary"] /\ stable' = stable
          /\ UNCHANGED <<saves, data, acked>>
      BY <1>2, <2>3 DEF Seed, Replace, Goto, history, Inv, TypeOK, Names
    <3>2. ~Decodes(file["primary"]) /\ ~Decodes(stable["primary"])
      BY <1>2 DEF Seed, Inv, CallInv, VersionInv, Decodes, Missing, Garbage
    <3>3. Value' = data /\ Possible' \subseteq Possible \cup {data} /\ data \in Possible'
      BY <1>1, <3>1, <3>2, CopiesNow, CopiesNext DEF FromCopies, Pick
    <3> QED BY <1>1, <3>1, <3>3, AsPut
  <2> QED BY <1>2, <2>1, <2>2, <2>3 DEF Seed
<1>3. CASE Put
  <2>1. CASE WriteFails
    BY <1>3, <2>1, AsGiveUp DEF Put, WriteFails, Return, store, history
  <2>2. CASE Replace("primary", data) /\ Goto("putSync") /\ UNCHANGED <<session, history>>
    <3>1. /\ file'["primary"] = data /\ file'["backup"] = file["backup"] /\ stable' = stable
          /\ UNCHANGED <<saves, data, acked>>
      BY <1>3, <2>2 DEF Put, Replace, Goto, history, Inv, TypeOK, Names
    <3>2. Value' = data /\ Possible' \subseteq Possible \cup {data} /\ data \in Possible'
      BY <1>1, <3>1, CopiesNow, CopiesNext DEF FromCopies, Pick
    <3> QED BY <1>1, <3>1, <3>2, AsPut
  <2> QED BY <1>3, <2>1, <2>2 DEF Put
<1>4. CASE PutSync
  <2>1. CASE "sync" \in Faults /\ Return /\ UNCHANGED <<store, history>>
    BY <1>4, <2>1, AsGiveUp DEF PutSync, Return, store, history
  <2>2. CASE /\ stable' = SyncDir /\ UNCHANGED <<file, kept>>
             /\ Return /\ acked' = data /\ prior' = acked /\ hurt' = Broken
    <3>1. file' = file /\ stable' = file /\ saves' = saves /\ data' = 0 /\ acked' = data
      BY <1>4, <2>2 DEF PutSync, SyncDir, Return
    <3>2. file["primary"] = data
      BY <1>4 DEF PutSync, Inv, CallInv
    <3>3. Value = data /\ Value' = Value /\ Possible' = {Value}
      BY <1>1, <3>1, <3>2, CopiesNow, CopiesNext DEF FromCopies, Pick
    <3> QED BY <1>1, <3>1, <3>3, AsAcknowledge
  <2> QED BY <1>4, <2>1, <2>2 DEF PutSync
<1> QED BY <1>2, <1>3, <1>4

\* A kill changes no file, a crash picks one of the possible versions, and
\* damage brings back one that was saved.
LEMMA EnvironmentRefines ==
  ASSUME Inv, Inv', Leave \/ Crash \/ \E name \in Names : Damage(name)
  PROVE  Register!Next \/ UNCHANGED Register!vars
<1>1. CASE Leave
  BY <1>1, AsGiveUp DEF Leave, Return, store, history
<1>2. CASE Crash
  <2>1. file' \in CrashOutcomes /\ stable' = file' /\ data' = 0 /\ UNCHANGED <<saves, acked>>
    BY <1>2 DEF Crash, Return, history
  <2>2. Value' \in Possible
    BY <2>1 DEF Value, Possible, Recovered
  <2>3. Possible' = {Value'}
    BY <2>1, CopiesNext DEF FromCopies
  <2> QED BY <2>1, <2>2, <2>3, AsCrash
<1>3. CASE \E name \in Names : Damage(name)
  <2>1. data = 0 /\ UNCHANGED <<saves, data, acked>>
    BY <1>3 DEF Damage, Inv, CallInv, InSave
  <2>2. Value' \in Possible'
    BY CopiesNext DEF FromCopies
  <2>3. Possible' \subseteq 0 .. saves
    <3>1. saves \in Int /\ 0 <= saves
      BY Ranges
    <3>2. \A content \in {file'["primary"], stable'["primary"],
                            file'["backup"], stable'["backup"]} :
            content \in Int /\ content <= saves
      BY <2>1, VersionsAre DEF Inv, TypeOK, VersionInv, Names, Either
    <3> QED BY <3>1, <3>2, CopiesNext DEF FromCopies, Pick, Decodes
  <2> QED BY <2>1, <2>2, <2>3, AsDegrade
<1> QED BY <1>1, <1>2, <1>3

\* SaveJSON and LoadRecoverableJSON keep the two files as one register.
THEOREM StoreIsRegister == Spec => IsRegister
<1>1. Inv /\ Inv' /\ [Next]_vars => [Register!Next]_(Register!vars)
  <2>1. ASSUME Inv, Inv', Next PROVE Register!Next \/ UNCHANGED Register!vars
    BY <2>1, LoadRefines, PrepareRefines, ReplaceRefines, EnvironmentRefines DEF Next
  <2>2. ASSUME UNCHANGED vars PROVE UNCHANGED Register!vars
    BY <2>2, AsStutter DEF vars, store, history
  <2> QED BY <2>1, <2>2
<1> QED BY RegisterInit, <1>1, StoreInvariant, PTL DEF Spec, IsRegister, Register!Spec
=============================================================================
