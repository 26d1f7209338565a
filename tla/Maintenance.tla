---------------------------- MODULE Maintenance ----------------------------
(* Offline backup and restore (packages/runtime-core/src/maintenance.ts), and *)
(* the doors a runtime passes when it starts on a directory: the lease       *)
(* (storage/sqlite/directory-lease.ts) and the check of the skill root       *)
(* (capabilities/service.ts).                                               *)
(*                                                                         *)
(* A deployment is a database, files whose digest the database records       *)
(* (blobs, artifacts, skills) and files it does not know (deliveries).  Files *)
(* are written once.  A runtime adds to the source while it holds the lease; *)
(* the skills are in a directory of their own, which no lease covers.        *)
(* Maintenance goes file by file, may die at any step, which frees its lease, *)
(* and a stored backup may rot.  A destination carries a marker in each root *)
(* until all of it has been verified.                                       *)
EXTENDS Naturals, FiniteSets

CONSTANTS Files,     \* files besides the database
          Referred,  \* those the database records the digest of
          Skills     \* those in the skill root

ASSUME MaintenanceAssumption == Referred \subseteq Files /\ Skills \subseteq Referred

VARIABLES
  source,    \* rows of the database and the files of the deployment
  runtime,   \* where a runtime runs: "none", "source" or "restored"
  work,      \* the maintenance under way: where it is, what is left to copy
  backup,    \* the backup directory
  restored,  \* the directory restored to
  taken      \* history: what the backup held when its manifest was written

maintenanceVars == <<source, runtime, work, backup, restored, taken>>

Database == "database"
All == Files \union {Database}
Bytes == {"absent", "good", "bad"}
Deployment == [rows : SUBSET Referred, files : [All -> Bytes]]
Phases == {"idle", "made", "validate", "database", "copy", "manifest",
           "back made", "back skills", "back copy", "back unmark", "back last"}

Blank == [rows |-> {}, files |-> [f \in All |-> "absent"]]
Idle == [at |-> "idle", left |-> {}]
NoBackup == [made |-> FALSE, marked |-> FALSE, manifest |-> FALSE, data |-> Blank,
             listed |-> Blank.files]
NotRestored == [made |-> FALSE, marked |-> {}, data |-> Blank]

MaintenanceTypeOK ==
  /\ source \in Deployment
  /\ runtime \in {"none", "source", "restored"}
  /\ work \in [at : Phases, left : SUBSET All]
  /\ backup \in [made : BOOLEAN, marked : BOOLEAN, manifest : BOOLEAN, data : Deployment,
                 listed : [All -> Bytes]]
  /\ restored \in [made : BOOLEAN, marked : SUBSET {"data", "skills"}, data : Deployment]
  /\ taken \in Deployment

MaintenanceInit ==
  /\ source = [Blank EXCEPT !.files[Database] = "good"]
  /\ runtime = "none" /\ work = Idle
  /\ backup = NoBackup /\ restored = NotRestored /\ taken = Blank

Proceed(at) == work' = [work EXCEPT !.at = at]

(* ------------------------------ the runtime ----------------------------- *)

BackingUp == work.at \in {"made", "validate", "database", "copy", "manifest"}
Restoring == work.at # "idle" /\ ~BackingUp

StartSource ==
  /\ runtime = "none" /\ ~BackingUp
  /\ runtime' = "source"
  /\ UNCHANGED <<source, work, backup, restored, taken>>

\* a file is in place before its row is committed; the two are steps
WriteFile(f) ==
  /\ runtime = "source" /\ source.files[f] = "absent"
  /\ source' = [source EXCEPT !.files[f] = "good"]
  /\ UNCHANGED <<runtime, work, backup, restored, taken>>

CommitRow(f) ==
  /\ runtime = "source" /\ source.files[f] = "good" /\ f \notin source.rows
  /\ source' = [source EXCEPT !.rows = @ \union {f}]
  /\ UNCHANGED <<runtime, work, backup, restored, taken>>

\* acquireDirectoryLease refuses a marked data root, CapabilityService a marked
\* skill root
MayOpen == restored.made /\ restored.marked = {}

StartRestored ==
  /\ runtime = "none" /\ ~Restoring /\ MayOpen
  /\ runtime' = "restored"
  /\ UNCHANGED <<source, work, backup, restored, taken>>

StopRuntime ==
  /\ runtime # "none" /\ runtime' = "none"
  /\ UNCHANGED <<source, work, backup, restored, taken>>

(* -------------------------------- backup -------------------------------- *)

\* reserveDestination: mkdir, then the marker
BackupBegins ==
  /\ work = Idle /\ runtime # "source" /\ ~backup.made
  /\ backup' = [NoBackup EXCEPT !.made = TRUE]
  /\ Proceed("made")
  /\ UNCHANGED <<source, runtime, restored, taken>>

MarkBackup ==
  /\ work.at = "made" /\ Proceed("validate")
  /\ backup' = [backup EXCEPT !.marked = TRUE]
  /\ UNCHANGED <<source, runtime, restored, taken>>

\* validateResources: every row has its file with the right digest
Sound(data) == data.files[Database] = "good" /\ \A f \in data.rows : data.files[f] = "good"

ValidateSource ==
  /\ work.at = "validate"
  /\ IF Sound(source) THEN Proceed("database") ELSE work' = Idle
  /\ UNCHANGED <<source, runtime, backup, restored, taken>>

\* db.backup
CopyDatabase ==
  /\ work.at = "database"
  /\ backup' = [backup EXCEPT !.data.rows = source.rows, !.data.files[Database] = "good"]
  /\ work' = [at |-> "copy", left |-> {f \in Files : source.files[f] # "absent"}]
  /\ UNCHANGED <<source, runtime, restored, taken>>

CopyFile(f) ==
  /\ work.at = "copy" /\ f \in work.left
  /\ backup' = [backup EXCEPT !.data.files[f] = source.files[f]]
  /\ work' = [work EXCEPT !.left = @ \ {f}]
  /\ UNCHANGED <<source, runtime, restored, taken>>

\* the manifest lists the digest of every copy; verifyDatabase, then it is written
VerifyCopies ==
  /\ work.at = "copy" /\ work.left = {}
  /\ IF Sound(backup.data)
       THEN /\ Proceed("manifest")
            /\ backup' = [backup EXCEPT !.manifest = TRUE, !.listed = backup.data.files]
            /\ taken' = backup.data
       ELSE work' = Idle /\ UNCHANGED <<backup, taken>>
  /\ UNCHANGED <<source, runtime, restored>>

UnmarkBackup ==
  /\ work.at = "manifest" /\ work' = Idle
  /\ backup' = [backup EXCEPT !.marked = FALSE]
  /\ UNCHANGED <<source, runtime, restored, taken>>

(* -------------------------------- restore ------------------------------- *)

\* readManifest: complete, with a manifest; both roots must be new
RestoreBegins ==
  /\ work = Idle /\ backup.manifest /\ ~backup.marked /\ ~restored.made
  /\ restored' = [NotRestored EXCEPT !.made = TRUE]
  /\ Proceed("back made")
  /\ UNCHANGED <<source, runtime, backup, taken>>

MarkData ==
  /\ work.at = "back made" /\ Proceed("back skills")
  /\ restored' = [restored EXCEPT !.marked = {"data"}]
  /\ UNCHANGED <<source, runtime, backup, taken>>

MarkSkills ==
  /\ work.at = "back skills"
  /\ restored' = [restored EXCEPT !.marked = {"data", "skills"}]
  /\ work' = [at |-> "back copy", left |-> {f \in All : backup.listed[f] # "absent"}]
  /\ UNCHANGED <<source, runtime, backup, taken>>

WrongMatches(f) == TRUE

\* the digest of the bytes copied, against the manifest
Matches(f) == backup.data.files[f] = backup.listed[f]

CopyBack(f) ==
  /\ work.at = "back copy" /\ f \in work.left
  /\ restored' = [restored EXCEPT !.data.files[f] = backup.data.files[f],
                                  !.data.rows = IF f = Database THEN backup.data.rows ELSE @]
  /\ work' = IF Matches(f) THEN [work EXCEPT !.left = @ \ {f}] ELSE Idle
  /\ UNCHANGED <<source, runtime, backup, taken>>

VerifyRestored ==
  /\ work.at = "back copy" /\ work.left = {}
  /\ IF Sound(restored.data) THEN Proceed("back unmark") ELSE work' = Idle
  /\ UNCHANGED <<source, runtime, backup, restored, taken>>

\* the marker of the skill root first, that of the data root last
Unmark ==
  /\ \/ work.at = "back unmark" /\ Proceed("back last")
        /\ restored' = [restored EXCEPT !.marked = @ \ {"skills"}]
     \/ work.at = "back last" /\ work' = Idle
        /\ restored' = [restored EXCEPT !.marked = @ \ {"data"}]
  /\ UNCHANGED <<source, runtime, backup, taken>>

(* ------------------------------ the world ------------------------------- *)

\* maintenance dies, or a file operation fails: what it has written stays
Die ==
  /\ work # Idle /\ work' = Idle
  /\ UNCHANGED <<source, runtime, backup, restored, taken>>

\* the operator removes a destination that is incomplete and tries again
Discard ==
  /\ work = Idle
  /\ \/ backup.made /\ (backup.marked \/ ~backup.manifest)
        /\ backup' = NoBackup /\ UNCHANGED restored
     \/ restored.marked # {} /\ restored' = NotRestored /\ UNCHANGED backup
  /\ UNCHANGED <<source, runtime, work, taken>>

Rot(f) ==
  /\ backup.manifest /\ backup.data.files[f] = "good"
  /\ backup' = [backup EXCEPT !.data.files[f] = "bad"]
  /\ UNCHANGED <<source, runtime, work, restored, taken>>

\* another program touches the skill root
Tamper(f) ==
  /\ source.files[f] = "good"
  /\ source' = [source EXCEPT !.files[f] = "bad"]
  /\ UNCHANGED <<runtime, work, backup, restored, taken>>

MaintenanceNext ==
  \/ StartSource \/ StartRestored \/ StopRuntime
  \/ \E f \in Files : WriteFile(f) \/ CopyFile(f)
  \/ \E f \in Referred : CommitRow(f)
  \/ \E f \in All : CopyBack(f) \/ Rot(f)
  \/ \E f \in Skills : Tamper(f)
  \/ BackupBegins \/ MarkBackup \/ ValidateSource \/ CopyDatabase \/ VerifyCopies \/ UnmarkBackup
  \/ RestoreBegins \/ MarkData \/ MarkSkills \/ VerifyRestored \/ Unmark
  \/ Die \/ Discard

MaintenanceSpec == MaintenanceInit /\ [][MaintenanceNext]_maintenanceVars

\* A runtime that starts on a restored directory finds what the backup held
\* when it was completed, and every file the database refers to, wherever
\* backup or restore died and whatever has rotted since; the one exception is
\* a directory that is still empty (maintenance.ts 177-235, 506-522).
RestoredWhole ==
  MayOpen /\ restored.data # Blank => restored.data = taken /\ Sound(taken)
=============================================================================
