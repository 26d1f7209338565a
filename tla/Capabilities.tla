---------------------------- MODULE Capabilities ----------------------------
(* Skills: installed once, bound to a workspace, pinned by a run             *)
(* (packages/runtime-core/src/capabilities/service.ts, storage/sqlite/       *)
(* capability-store.ts, apps/runtime/src/composition/capability-resources.ts, *)
(* runtime-assembly.ts createInvocationCompiler).                            *)
(*                                                                         *)
(* An install is a version of a package; its snapshot is a directory named   *)
(* by its digest, prepared in staging and renamed before the row is saved.   *)
(* The workspace chooses the version of a package and may disable it.  A run *)
(* pins the enabled installs when its prompt is compiled, and keeps them     *)
(* over later attempts; it may use one only while the workspace has the      *)
(* package enabled.  One workspace; connections to MCP servers are left out. *)
EXTENDS Naturals, FiniteSets

CONSTANTS Installs,    \* versions that may be installed, each with its own digest
          PackageOf,   \* the package of a version
          Installers,  \* calls of install(), at most two under way
          SkillRuns    \* runs of the workspace

ASSUME CapabilityAssumption == DOMAIN PackageOf = Installs

VARIABLES
  snapshots,  \* directories under snapshots/
  installed,  \* capability_installs
  binding,    \* workspace_capabilities: of each package, the install and if enabled
  installing, \* the calls of install() under way
  pinned,     \* run_dependencies and run_capabilities
  attempt,    \* the attempt of each run: compiled, and the read it is in
  used        \* history: the installs each run was given instructions of

capabilityVars == <<snapshots, installed, binding, installing, pinned, attempt, used>>

Packages == {PackageOf[i] : i \in Installs}
NotPinned == [pinned |-> FALSE, installs |-> {}]
NoAttempt == [compiled |-> FALSE, reading |-> "none"]
NotInstalling == [at |-> "idle", install |-> "none"]

CapabilityTypeOK ==
  /\ snapshots \subseteq Installs /\ installed \subseteq Installs
  /\ binding \in [Packages -> [install : Installs \union {"none"}, enabled : BOOLEAN]]
  /\ installing \in [Installers -> [at : {"idle", "staged", "missing", "placed"},
                                    install : Installs \union {"none"}]]
  /\ pinned \in [SkillRuns -> [pinned : BOOLEAN, installs : SUBSET Installs]]
  /\ attempt \in [SkillRuns -> [compiled : BOOLEAN, reading : Installs \union {"none"}]]
  /\ used \in [SkillRuns -> SUBSET Installs]

CapabilityInit ==
  /\ snapshots = {} /\ installed = {}
  /\ binding = [p \in Packages |-> [install |-> "none", enabled |-> FALSE]]
  /\ installing = [c \in Installers |-> NotInstalling]
  /\ pinned = [r \in SkillRuns |-> NotPinned]
  /\ attempt = [r \in SkillRuns |-> NoAttempt]
  /\ used = [r \in SkillRuns |-> {}]

(* -------------------------------- install ------------------------------- *)

\* #installing >= 2 is refused; the archive is extracted to a staging directory
Stage(c, i) ==
  /\ installing[c] = NotInstalling
  /\ Cardinality({d \in Installers : installing[d] # NotInstalling}) < 2
  /\ installing' = [installing EXCEPT ![c] = [at |-> "staged", install |-> i]]
  /\ UNCHANGED <<snapshots, installed, binding, pinned, attempt, used>>

\* lstat of the snapshot, then the next step knows only what it saw
LookForSnapshot(c) ==
  /\ installing[c].at = "staged"
  /\ installing' = [installing EXCEPT ![c].at = IF installing[c].install \in snapshots
                                                  THEN "placed" ELSE "missing"]
  /\ UNCHANGED <<snapshots, installed, binding, pinned, attempt, used>>

\* rename: fails when another install has been faster
PlaceSnapshot(c) ==
  /\ installing[c].at = "missing"
  /\ IF installing[c].install \in snapshots
       THEN installing' = [installing EXCEPT ![c] = NotInstalling] /\ UNCHANGED snapshots
       ELSE /\ snapshots' = snapshots \union {installing[c].install}
            /\ installing' = [installing EXCEPT ![c].at = "placed"]
  /\ UNCHANGED <<installed, binding, pinned, attempt, used>>

\* save(): the row of the same package and content is kept
SaveInstall(c) ==
  /\ installing[c].at = "placed"
  /\ installed' = installed \union {installing[c].install}
  /\ installing' = [installing EXCEPT ![c] = NotInstalling]
  /\ UNCHANGED <<snapshots, binding, pinned, attempt, used>>

\* download, check or extraction fails, and the staging directory is removed
InstallFails(c) ==
  /\ installing[c].at = "staged"
  /\ installing' = [installing EXCEPT ![c] = NotInstalling]
  /\ UNCHANGED <<snapshots, installed, binding, pinned, attempt, used>>

(* --------------------------------- use ---------------------------------- *)

\* bind(): enable, switch to another version, or disable
BindSkill(i, enabled) ==
  /\ i \in installed
  /\ binding' = [binding EXCEPT ![PackageOf[i]] = [install |-> i, enabled |-> enabled]]
  /\ UNCHANGED <<snapshots, installed, installing, pinned, attempt, used>>

WrongCanUse(r, i) == binding[PackageOf[i]].enabled /\ binding[PackageOf[i]].install = i

\* canUse(): a run that is pinned needs the package enabled in any version
CanUse(r, i) ==
  /\ i \in installed
  /\ binding[PackageOf[i]].enabled
  /\ IF pinned[r].pinned THEN i \in pinned[r].installs ELSE binding[PackageOf[i]].install = i

\* enabled(): of the pinned installs, or of the bindings
Usable(r) == {i \in Installs : CanUse(r, i)}

\* the prompt is compiled: instructions of the requested skills, then pin(), in
\* one turn; a run that is pinned stays so
Compile(r, requested) ==
  /\ ~attempt[r].compiled /\ requested \subseteq Usable(r) /\ Usable(r) \subseteq snapshots
  /\ attempt' = [attempt EXCEPT ![r].compiled = TRUE]
  /\ used' = [used EXCEPT ![r] = @ \union requested]
  /\ pinned' = IF pinned[r].pinned THEN pinned
               ELSE [pinned EXCEPT ![r] = [pinned |-> TRUE, installs |-> Usable(r)]]
  /\ UNCHANGED <<snapshots, installed, binding, installing>>

\* skill.read: the check, then the permissions of required tools are awaited
BeginSkillRead(r, i) ==
  /\ attempt[r] = [compiled |-> TRUE, reading |-> "none"]
  /\ CanUse(r, i) /\ i \in snapshots
  /\ attempt' = [attempt EXCEPT ![r].reading = i]
  /\ UNCHANGED <<snapshots, installed, binding, installing, pinned, used>>

EndSkillRead(r) ==
  /\ attempt[r].reading # "none"
  /\ used' = [used EXCEPT ![r] = @ \union {attempt[r].reading}]
  /\ attempt' = [attempt EXCEPT ![r].reading = "none"]
  /\ UNCHANGED <<snapshots, installed, binding, installing, pinned>>

\* the attempt ends and the run is tried again later
NextAttempt(r) ==
  /\ attempt[r] # NoAttempt
  /\ attempt' = [attempt EXCEPT ![r] = NoAttempt]
  /\ UNCHANGED <<snapshots, installed, binding, installing, pinned, used>>

\* the process dies
CapabilityCrash ==
  /\ installing' = [c \in Installers |-> NotInstalling]
  /\ attempt' = [r \in SkillRuns |-> NoAttempt]
  /\ UNCHANGED <<snapshots, installed, binding, pinned, used>>

CapabilityNext ==
  \/ \E c \in Installers : \/ \E i \in Installs : Stage(c, i)
                           \/ LookForSnapshot(c) \/ PlaceSnapshot(c) \/ SaveInstall(c)
                           \/ InstallFails(c)
  \/ \E i \in Installs, enabled \in BOOLEAN : BindSkill(i, enabled)
  \/ \E r \in SkillRuns : \/ \E requested \in SUBSET Installs : Compile(r, requested)
                          \/ \E i \in Installs : BeginSkillRead(r, i)
                          \/ EndSkillRead(r) \/ NextAttempt(r)
  \/ CapabilityCrash

CapabilitySpec == CapabilityInit /\ [][CapabilityNext]_capabilityVars

\* A run works with one version of a package however often the workspace
\* switches, disables and enables it between its attempts, and every install a
\* run may be given is on disk, wherever an installation died
\* (capability-store.ts 143-175, service.ts 163-205).
OneVersionPerRun ==
  /\ \A r \in SkillRuns, i, j \in Installs :
       {i, j} \subseteq used[r] /\ PackageOf[i] = PackageOf[j] => i = j
  /\ installed \subseteq snapshots
=============================================================================
