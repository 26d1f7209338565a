----------------------------- MODULE Artifacts -----------------------------
(* Files that runs of one session make in containers, keep, choose and put   *)
(* into the group (tool-container, artifact-delivery.ts, container-tools.ts).*)
(* A tool call of the model works in a container, saves what came out of it, *)
(* changes which files are final, or uploads one; the reply of a run uploads *)
(* the final files it carries before its text is sent.  Everything between  *)
(* two waits is one step, but a crash may cut a save in the middle.          *)
EXTENDS Naturals, Sequences, FiniteSets

CONSTANTS
  Makers,         \* runs of the session, each with one call or reply at a time
  FileNames, FileContents,
  MaxConcurrent,  \* containers at once
  StorageQuota,   \* files on the disk
  MaxMade,        \* bound: files ever made
  MaxDeaths       \* bound: crashes of the process

ASSUME ArtifactsAssumption ==
  /\ IsFiniteSet(Makers) /\ IsFiniteSet(FileNames) /\ IsFiniteSet(FileContents)
  /\ MaxConcurrent \in Nat /\ StorageQuota \in Nat /\ MaxMade \in Nat /\ MaxDeaths \in Nat

VARIABLES
  made,           \* id -> [name, content, run, listed]: the binary, and its manifest
  selections,     \* run -> [chosen, dropped] or NoSelection
  receipts,       \* id -> receipt of its upload into the group
  groupFiles,     \* id -> how often the group has it
  maker,          \* run -> what its call or reply does
  noted,          \* run -> id -> what its trace says of an automatic upload
  replied,        \* run -> files its text was sent with, or Silent
  containers,     \* run -> its container is there
  active,         \* slots of the executor in use
  deaths

artifactVars == <<made, selections, receipts, groupFiles, maker, noted, replied, containers,
                  active, deaths>>

NoSelection == [chosen |-> {}, dropped |-> {0}]
Silent == {0}
AtEase == [at |-> "idle", files |-> {}, reply |-> FALSE, left |-> {}, sent |-> {}, id |-> 0,
           answer |-> "none"]
Ids == 1..MaxMade
Listed(run) == {id \in DOMAIN made : made[id].listed /\ made[id].run = run}

\* selection(): without a record every file of the run is final
Final(run) == IF selections[run] = NoSelection THEN Listed(run) ELSE selections[run].chosen
Dropped(run) == IF selections[run] = NoSelection THEN {} ELSE selections[run].dropped
\* describe(): the disposition
IsFinal(id) == id \in Final(made[id].run) \ Dropped(made[id].run)

\* resolveArtifactReceipt
Resolved(receipt) == IF receipt = "pending" THEN "uncertain" ELSE receipt

ArtifactsInit ==
  /\ made = <<>> /\ selections = [run \in Makers |-> NoSelection]
  /\ receipts = [id \in Ids |-> "none"] /\ groupFiles = [id \in Ids |-> 0]
  /\ maker = [run \in Makers |-> AtEase]
  /\ noted = [run \in Makers |-> [id \in Ids |-> "none"]]
  /\ replied = [run \in Makers |-> Silent]
  /\ containers = [run \in Makers |-> "none"] /\ active = 0 /\ deaths = 0

Does(run, what) == maker' = [maker EXCEPT ![run] = what]

(* ------------------------------ containers ------------------------------ *)

\* ContainerExecutor.execute: a slot, then docker run
Work(run) ==
  /\ maker[run] = AtEase /\ replied[run] = Silent /\ active < MaxConcurrent
  /\ active' = active + 1 /\ containers' = [containers EXCEPT ![run] = "up"]
  /\ Does(run, [AtEase EXCEPT !.at = "working"])
  /\ UNCHANGED <<made, selections, receipts, groupFiles, noted, replied, deaths>>

\* the client ends with the declared files, with an error or at its deadline,
\* and docker rm --force follows.  --rm removes only a container that has ended
\* by itself; where the second command fails for another reason than a container
\* that is gone the call throws, and whatever came out of it is not kept
Cleaned(gone, works) == gone \/ works

Ended(run, files, gone, works) ==
  /\ maker[run].at = "working" /\ (files # {} => gone) /\ active' = active - 1
  /\ containers' = [containers EXCEPT ![run] =
       IF Cleaned(gone, works) THEN "none" ELSE IF works THEN "up" ELSE "reported"]
  /\ Does(run, IF files = {} \/ ~(gone \/ works) THEN AtEase ELSE [AtEase EXCEPT !.at = "saving", !.files = files])
  /\ UNCHANGED <<made, selections, receipts, groupFiles, noted, replied, deaths>>

(* -------------------------------- the store ----------------------------- *)

Same(run, file) == {id \in Listed(run) : made[id].name = file[1] /\ made[id].content = file[2]}
NewOf(run, files) == {file \in files : Same(run, file) = {}}
\* the new files in some order, after those that are there
Appended(run, files, listed) ==
  {more \in [1..Cardinality(files) -> [name : FileNames, content : FileContents, run : {run}, listed : BOOLEAN]] :
     /\ \A file \in files : \E k \in DOMAIN more : more[k].name = file[1] /\ more[k].content = file[2]
     /\ \A k \in DOMAIN more : more[k].listed = (k <= listed)}

\* save(): a name and content of the run that is there keeps its id, a revision
\* takes the place of its name among the final files; the manifests come first
SaveFiles(run) ==
  LET files == maker[run].files
      fresh == NewOf(run, files)
      ids(store) == {id \in DOMAIN store : store[id].run = run /\ store[id].listed
                                           /\ <<store[id].name, store[id].content>> \in files}
      replaced == {id \in Listed(run) : \E file \in files : file[1] = made[id].name}
  IN  /\ maker[run].at = "saving" /\ Does(run, AtEase)
      /\ Len(made) + Cardinality(fresh) <= MaxMade
      /\ IF Len(made) + Cardinality(fresh) > StorageQuota THEN UNCHANGED <<made, selections>>
         ELSE \E more \in Appended(run, fresh, Cardinality(fresh)) :
                /\ made' = made \o more
                /\ selections' = [selections EXCEPT ![run] =
                     [chosen |-> (Final(run) \ replaced) \union ids(made'),
                      dropped |-> Dropped(run) \ ids(made')]]
      /\ UNCHANGED <<receipts, groupFiles, noted, replied, containers, active, deaths>>

\* select() and discard() of files of the run
SelectFinal(run, ids) ==
  /\ maker[run] = AtEase /\ replied[run] = Silent /\ ids \subseteq Listed(run)
  /\ selections' = [selections EXCEPT ![run] = [chosen |-> ids, dropped |-> Dropped(run) \ ids]]
  /\ UNCHANGED <<made, receipts, groupFiles, maker, noted, replied, containers, active, deaths>>

Discard(run, ids) ==
  /\ maker[run] = AtEase /\ replied[run] = Silent /\ ids \subseteq Listed(run)
  /\ selections' = [selections EXCEPT ![run] = [chosen |-> Final(run) \ ids, dropped |-> Dropped(run) \union ids]]
  /\ UNCHANGED <<made, receipts, groupFiles, maker, noted, replied, containers, active, deaths>>

(* -------------------------------- uploads ------------------------------- *)

\* deliverArtifact: a receipt of any kind is the answer, else the upload is claimed
WrongUnclaimed(id) == receipts[id] # "succeeded"
Unclaimed(id) == receipts[id] = "none"

Deliver(run, id, call) ==
  IF Unclaimed(id)
    THEN /\ receipts' = [receipts EXCEPT ![id] = "pending"]
         /\ Does(run, [call EXCEPT !.at = "uploading", !.id = id])
    ELSE /\ UNCHANGED receipts
         /\ Does(run, IF call.reply
                        THEN [call EXCEPT !.at = "told", !.id = id, !.answer = Resolved(receipts[id])]
                        ELSE AtEase)

\* artifact.upload of a final file of the session
UploadFinal(run, id) ==
  /\ maker[run] = AtEase /\ replied[run] = Silent
  /\ id \in DOMAIN made /\ made[id].listed /\ IsFinal(id)
  /\ Deliver(run, id, AtEase)
  /\ UNCHANGED <<made, selections, groupFiles, noted, replied, containers, active, deaths>>

\* the reply of a run, selectMessage: its final files
Reply(run) ==
  /\ maker[run] = AtEase /\ replied[run] = Silent
  /\ Does(run, [AtEase EXCEPT !.at = "next", !.reply = TRUE,
                               !.left = {id \in Listed(run) : IsFinal(id)}])
  /\ UNCHANGED <<made, selections, receipts, groupFiles, noted, replied, containers, active, deaths>>

\* createArtifactDelivery: one file after another
NextFile(run) ==
  /\ maker[run].at = "next"
  /\ \E id \in maker[run].left :
       /\ noted' = [noted EXCEPT ![run][id] = "started"]
       /\ Deliver(run, id, [maker[run] EXCEPT !.left = @ \ {id}])
  /\ UNCHANGED <<made, selections, groupFiles, replied, containers, active, deaths>>

\* the text follows when every file is there
SendText(run) ==
  /\ maker[run].at = "next" /\ maker[run].left = {}
  /\ replied' = [replied EXCEPT ![run] = maker[run].sent] /\ Does(run, AtEase)
  /\ UNCHANGED <<made, selections, receipts, groupFiles, noted, containers, active, deaths>>

\* external: the platform takes the file or not
PlatformTakes(run) ==
  /\ maker[run].at = "uploading"
  /\ groupFiles' = [groupFiles EXCEPT ![maker[run].id] = @ + 1]
  /\ Does(run, [maker[run] EXCEPT !.at = "taken"])
  /\ UNCHANGED <<made, selections, receipts, noted, replied, containers, active, deaths>>

\* its answer; where the receipt cannot be written the claim stays and the call throws
Completed(run, answer, written) ==
  LET call == maker[run]
  IN  /\ \/ call.at = "uploading" /\ answer \in {"failed", "uncertain"}
         \/ call.at = "taken" /\ answer \in {"succeeded", "uncertain"}
      /\ receipts' = IF written THEN [receipts EXCEPT ![call.id] = answer] ELSE receipts
      /\ Does(run, IF written /\ call.reply THEN [call EXCEPT !.at = "told", !.answer = answer] ELSE AtEase)
      /\ UNCHANGED <<made, selections, groupFiles, noted, replied, containers, active, deaths>>

\* it goes into the trace, and on with the reply; one that was given up notes nothing
Told(run, aborted) ==
  LET call == maker[run]
  IN  /\ call.at = "told"
      /\ noted' = IF aborted THEN noted ELSE [noted EXCEPT ![run][call.id] = call.answer]
      /\ Does(run, IF ~aborted /\ call.answer = "succeeded"
                     THEN [call EXCEPT !.at = "next", !.sent = @ \union {call.id}, !.id = 0, !.answer = "none"]
                     ELSE AtEase)
      /\ UNCHANGED <<made, selections, receipts, groupFiles, replied, containers, active, deaths>>

(* --------------------------------- crashes ------------------------------ *)

\* a save that is cut off leaves binaries, and manifests of the first of them,
\* but no selection
CutOff(run) ==
  IF maker[run].at # "saving" \/ Len(made) + Cardinality(NewOf(run, maker[run].files)) > MaxMade THEN {<<>>}
  ELSE {<<>>} \union UNION {Appended(run, files, listed) : files \in SUBSET NewOf(run, maker[run].files),
                                                          listed \in 0..Cardinality(FileNames)}

\* recoverToolOutputs at the next start: what a receipt tells of an upload that
\* the trace has begun
Recovered(run, id) ==
  IF noted[run][id] = "started" /\ receipts[id] # "none" THEN Resolved(receipts[id]) ELSE noted[run][id]

Die ==
  /\ deaths < MaxDeaths /\ deaths' = deaths + 1
  /\ \E run \in Makers : \E more \in CutOff(run) : made' = made \o more
  /\ maker' = [run \in Makers |-> AtEase] /\ active' = 0
  /\ containers' = [run \in Makers |-> IF containers[run] = "up" THEN "orphaned" ELSE containers[run]]
  /\ noted' = [run \in Makers |-> [id \in Ids |-> Recovered(run, id)]]
  /\ UNCHANGED <<selections, receipts, groupFiles, replied>>

FileSets == {files \in SUBSET (FileNames \X FileContents) : \A f, g \in files : f[1] = g[1] => f = g}

ArtifactsNext ==
  \/ \E run \in Makers :
       \/ Work(run) \/ SaveFiles(run) \/ Reply(run) \/ NextFile(run) \/ SendText(run) \/ PlatformTakes(run)
       \/ \E files \in FileSets, gone, works \in BOOLEAN : Ended(run, files, gone, works)
       \/ \E ids \in SUBSET Ids : SelectFinal(run, ids) \/ Discard(run, ids)
       \/ \E id \in Ids : UploadFinal(run, id)
       \/ \E answer \in {"succeeded", "failed", "uncertain"}, written \in BOOLEAN : Completed(run, answer, written)
       \/ \E aborted \in BOOLEAN : Told(run, aborted)
  \/ Die

(* ------------------------------ properties ------------------------------ *)

\* The group gets a file at most once, whoever uploads it, in a call, a reply or
\* again after a crash; what a receipt or a trace says of it is true, and a text
\* is only sent when all its files are there (artifact-delivery.ts 68-83, 149-188).
UploadedOnce ==
  /\ \A id \in Ids :
       /\ groupFiles[id] <= 1
       /\ receipts[id] = "succeeded" => groupFiles[id] = 1
       /\ receipts[id] = "failed" => groupFiles[id] = 0
       /\ \A run \in Makers :
            /\ noted[run][id] = "succeeded" => groupFiles[id] = 1
            /\ noted[run][id] = "failed" => groupFiles[id] = 0
  /\ \A run \in Makers : replied[run] # Silent => \A id \in replied[run] : groupFiles[id] = 1
\* No container outlives its call unless the call says so or the process died
\* with it, and a name of a run has one id per content (executor.ts 56-155).
NothingLeft ==
  /\ \A run \in Makers : containers[run] = "up" => maker[run].at = "working"
  /\ active = Cardinality({run \in Makers : maker[run].at = "working"})
  /\ \A i, j \in DOMAIN made :
       made[i].listed /\ made[j].listed /\ made[i].run = made[j].run /\ made[i].name = made[j].name
         /\ made[i].content = made[j].content => i = j
\* Both: what a container made reaches the group once, and nothing is left over.
FilesKept == UploadedOnce /\ NothingLeft
=============================================================================
