------------------------------- MODULE Assets -------------------------------
(* The files of a workspace: content in a blob directory, versions and       *)
(* references in the database (packages/runtime-core/src/assets/service.ts,  *)
(* blob-store.ts and storage/sqlite/asset-store.ts).                         *)
(*                                                                         *)
(* A blob is named by its content and is written before the version that     *)
(* refers to it; writes go one after the other.  One asset is modelled, with *)
(* one upload slot on it (an idempotency key of beginUpload), other writers  *)
(* (saveContent, publishArtifact, materialize), runs that read it, and the   *)
(* administrator who hides it.  A run executes its tools one at a time.      *)
(* Times of references are taken as strictly growing, so the oldest          *)
(* reference is the first one.                                              *)
EXTENDS Naturals, Sequences, FiniteSets

CONSTANTS Contents,     \* contents of one size
          Rooms,        \* numbers of blobs that may fit (AssetBlobStore.maxBytes)
          Jobs,         \* bound: writes under way together
          Readers,      \* runs that read the asset
          OfTask,       \* those that work on a task
          MaxVersions   \* bound: versions

ASSUME AssetAssumption == OfTask \subseteq Readers /\ Rooms \subseteq Nat /\ MaxVersions \in Nat

VARIABLES
  room,      \* the number of blobs that fit, fixed
  blobs,     \* the files of blobs/
  versions,  \* asset_versions, in order; the last one is current
  hidden,    \* deleted_at
  upload,    \* asset_uploads: the version it published, or 0; whether it has expired
  job,       \* the writes under way
  pins,      \* asset_refs of type run, the oldest first
  reading,   \* the read of each run under way: the version it chose, and if it was bound
  answers,   \* history: contents the upload was answered with
  seen,      \* history: versions each run was given
  denied     \* history: a read of a bound run was refused

assetVars == <<room, blobs, versions, hidden, upload, job, pins, reading, answers, seen, denied>>

NoJob == [at |-> "idle", content |-> "none", for |-> "none", published |-> 0]
NoRead == [version |-> 0, bound |-> FALSE]
JobStates == [at : {"idle", "staging", "placing", "stored"},
              content : Contents \union {"none"}, for : {"upload", "other", "none"},
              published : 0..MaxVersions]

AssetTypeOK ==
  /\ room \in Rooms /\ blobs \subseteq Contents
  /\ versions \in Seq(Contents) /\ Len(versions) <= MaxVersions
  /\ hidden \in BOOLEAN
  /\ upload \in [version : 0..MaxVersions, expired : BOOLEAN]
  /\ job \in [Jobs -> JobStates]
  /\ pins \in [Readers -> Seq(1..MaxVersions)]
  /\ reading \in [Readers -> [version : 0..MaxVersions, bound : BOOLEAN]]
  /\ answers \subseteq Contents
  /\ seen \in [Readers -> SUBSET (1..MaxVersions)]
  /\ denied \in BOOLEAN

AssetInit ==
  /\ room \in Rooms /\ blobs = {} /\ versions = <<>> /\ hidden = FALSE
  /\ upload = [version |-> 0, expired |-> FALSE]
  /\ job = [j \in Jobs |-> NoJob]
  /\ pins = [r \in Readers |-> <<>>]
  /\ reading = [r \in Readers |-> NoRead]
  /\ denied = FALSE /\ answers = {} /\ seen = [r \in Readers |-> {}]

(* ------------------------------- writing -------------------------------- *)

WrongUploading == FALSE

\* #uploads.has(uploadId)
Uploading == \E j \in Jobs : job[j].for = "upload"

\* #upload: the checks that precede the write.  A finished upload is repeated
\* only with the content it published
BeginUpload(j, content) ==
  /\ job[j] = NoJob /\ ~hidden /\ ~Uploading
  /\ IF upload.version = 0 THEN ~upload.expired ELSE versions[upload.version] = content
  /\ job' = [job EXCEPT ![j] = [at |-> "staging", content |-> content, for |-> "upload",
                                published |-> upload.version]]
  /\ UNCHANGED <<room, blobs, versions, hidden, upload, pins, reading, answers, seen, denied>>

\* saveContent, publishArtifact, materialize of an asset without a version
BeginWrite(j, content) ==
  /\ job[j] = NoJob /\ ~hidden
  /\ job' = [job EXCEPT ![j] = [at |-> "staging", content |-> content, for |-> "other",
                                published |-> 0]]
  /\ UNCHANGED <<room, blobs, versions, hidden, upload, pins, reading, answers, seen, denied>>

\* #pending: one write at a time past this point
Turn == \A j \in Jobs : job[j].at # "placing"

\* blobs.write: the blob is there already, or it still has to be renamed
Place(j) ==
  /\ job[j].at = "staging" /\ Turn
  /\ IF job[j].content \in blobs
       THEN job' = [job EXCEPT ![j].at = "stored"]
       ELSE IF Cardinality(blobs) < room
              THEN job' = [job EXCEPT ![j].at = "placing"]
              ELSE job' = [job EXCEPT ![j] = NoJob]
  /\ UNCHANGED <<room, blobs, versions, hidden, upload, pins, reading, answers, seen, denied>>

Rename(j) ==
  /\ job[j].at = "placing"
  /\ blobs' = blobs \union {job[j].content}
  /\ job' = [job EXCEPT ![j].at = "stored"]
  /\ UNCHANGED <<room, versions, hidden, upload, pins, reading, answers, seen, denied>>

Current == Len(versions)

\* publish() returns the current version when it has this content
Published(content) == Current > 0 /\ versions[Current] = content

\* one transaction publishes and marks the upload; a repeated upload only
\* compares.  publish and version refuse a hidden asset
RecordVersion(j) ==
  /\ job[j].at = "stored" /\ job' = [job EXCEPT ![j] = NoJob]
  /\ IF hidden THEN UNCHANGED <<versions, upload, answers>>
     ELSE IF job[j].published # 0
       THEN UNCHANGED <<versions, upload>> /\ answers' = answers \union {job[j].content}
       ELSE /\ ~Published(job[j].content) => Current < MaxVersions
            /\ versions' = IF Published(job[j].content) THEN versions
                                                       ELSE Append(versions, job[j].content)
            /\ IF job[j].for = "upload"
                 THEN /\ upload' = [upload EXCEPT !.version = Len(versions')]
                      /\ answers' = answers \union {job[j].content}
                 ELSE UNCHANGED <<upload, answers>>
  /\ UNCHANGED <<room, blobs, hidden, pins, reading, seen, denied>>

\* an aborted or failed write leaves a staging file and no version
Abandon(j) ==
  /\ job[j].at = "staging"
  /\ job' = [job EXCEPT ![j] = NoJob]
  /\ UNCHANGED <<room, blobs, versions, hidden, upload, pins, reading, answers, seen, denied>>

(* ------------------------------- reading -------------------------------- *)

Bindings(r) == {pins[r][i] : i \in 1..Len(pins[r])}

\* #read: the version the run is bound to, or the one it asks for, or current;
\* a run that is bound may read a hidden asset
BeginRead(r, asked) ==
  /\ reading[r] = NoRead
  /\ IF pins[r] # <<>>
       THEN /\ asked \in {0, Head(pins[r])}
            /\ reading' = [reading EXCEPT ![r] = [version |-> Head(pins[r]), bound |-> TRUE]]
       ELSE /\ ~hidden /\ Current > 0
            /\ reading' = [reading EXCEPT ![r] = [version |-> IF asked = 0 THEN Current ELSE asked,
                                                 bound |-> FALSE]]
  /\ UNCHANGED <<room, blobs, versions, hidden, upload, job, pins, answers, seen, denied>>

WrongBoundBy(r) == pins

\* reference() of the run, when it was not bound before the bytes were read
BoundBy(r) == IF reading[r].bound \/ reading[r].version \in Bindings(r)
             THEN pins ELSE [pins EXCEPT ![r] = Append(@, reading[r].version)]

\* the bytes are here.  The references of the run, and of the task of a task
\* run, refuse a hidden asset, also when they exist already
EndRead(r) ==
  /\ reading[r] # NoRead /\ reading' = [reading EXCEPT ![r] = NoRead]
  /\ IF hidden /\ (~reading[r].bound \/ r \in OfTask)
       THEN /\ denied' = (denied \/ reading[r].bound)
            /\ UNCHANGED <<pins, seen>>
       ELSE /\ pins' = BoundBy(r)
            /\ seen' = [seen EXCEPT ![r] = @ \union {reading[r].version}]
            /\ UNCHANGED denied
  /\ UNCHANGED <<room, blobs, versions, hidden, upload, job, answers>>

\* a message with the attachment reaches the run (referenceAssets); a second
\* reference to the same version is ignored
AttachVersion(r, version) ==
  /\ ~hidden /\ version \notin Bindings(r)
  /\ pins' = [pins EXCEPT ![r] = Append(@, version)]
  /\ UNCHANGED <<room, blobs, versions, hidden, upload, job, reading, answers, seen, denied>>

(* ------------------------------- the rest ------------------------------- *)

Hide ==
  /\ ~hidden /\ hidden' = TRUE
  /\ UNCHANGED <<room, blobs, versions, upload, job, pins, reading, answers, seen, denied>>

Expire ==
  /\ ~upload.expired /\ upload' = [upload EXCEPT !.expired = TRUE]
  /\ UNCHANGED <<room, blobs, versions, hidden, job, pins, reading, answers, seen, denied>>

\* the process dies: files and database stay
Crash ==
  /\ job' = [j \in Jobs |-> NoJob]
  /\ reading' = [r \in Readers |-> NoRead]
  /\ UNCHANGED <<room, blobs, versions, hidden, upload, pins, answers, seen, denied>>

AssetNext ==
  \/ \E j \in Jobs : \/ \E content \in Contents : BeginUpload(j, content) \/ BeginWrite(j, content)
                     \/ Place(j) \/ Rename(j) \/ RecordVersion(j) \/ Abandon(j)
  \/ \E r \in Readers : \/ \E asked \in 0..Current : BeginRead(r, asked)
                        \/ EndRead(r)
                        \/ \E version \in 1..Current : AttachVersion(r, version)
  \/ Hide \/ Expire \/ Crash

AssetSpec == AssetInit /\ [][AssetNext]_assetVars

\* An upload is answered with one content whatever is repeated, overlaps or
\* crashes; the blobs stay within the room although every write measures first
\* and renames later; every version has its blob (service.ts 196-264,
\* blob-store.ts 30-77, asset-store.ts 163-190).
UploadsStable ==
  /\ Cardinality(answers) <= 1
  /\ Cardinality(blobs) <= room
  /\ \A v \in 1..Current : versions[v] \in blobs

\* Whatever version a run was shown is one the database binds it to, also after
\* a crash (service.ts 303-333).
ShownIsBound == \A r \in Readers : seen[r] \subseteq Bindings(r)

\* docs/reference/resources/assets.md: a run with a fixed reference goes on
\* using its version after the asset has been deleted.
BoundReadsOn == ~denied
=============================================================================
