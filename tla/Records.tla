------------------------------ MODULE Records ------------------------------
(* Who a sender is, which workspace a message belongs to, and what is        *)
(* remembered for either (storage/sqlite/runtime-context-store.ts, memory/   *)
(* in-memory.ts, memory/promotion.ts, context/identity.ts,                   *)
(* context/workspace.ts, commands/command-response.ts).                      *)
(*                                                                         *)
(* A message is first accepted: its sender is resolved to an identity, its   *)
(* conversation to a workspace, which the session keeps.  Then its command   *)
(* is carried out, and again whenever the event is resumed after a crash,    *)
(* because commandResponse comes before the recovery looks at what was done. *)
(* The memory of SQLite and the one in memory take the same calls.           *)
EXTENDS Naturals, Sequences, FiniteSets

CONSTANTS People,
          Messages,     \* messages that arrive, in any order
          Projects,     \* names given to /workspace use project:<id>
          MessageId,    \* the platform's id of a message, which another channel may use too
          Asked         \* the commands of interest

VARIABLES
  known,       \* identity_links: the identity of a sender, "none" before the first message
  bindings,    \* workspace_bindings of an identity, in order of creation
  fixed,       \* conversation_sessions.workspace_id of each conversation
  memories,    \* memory_records
  deletions,   \* memory_delete_operations: key -> outcome
  plain,       \* InMemoryMemoryStore: its #records, #idempotency and #deleteOperations
  message      \* each message: sender, conversation, command and where it is

recordVars == <<known, bindings, fixed, memories, deletions, plain, message>>

\* each name is a tuple that begins with its kind
Conversations == ({"private"} \X People) \union {<<"group">>}
Identities == {"guest", "owner"} \X People
Workspaces == {<<"personal", i[1], i[2]>> : i \in Identities}
                \union {<<"group">>} \union ({"project"} \X Projects)
Commands == ({"remember"} \X {"private", "group", "here"})
              \union ({"delete"} \X Messages)     \* of what the message led to remember
              \union ({"use"} \X Projects) \union {<<"say", "remember this">>}
None == <<"none">>
NoMessage == [at |-> "new", from |-> None, command |-> None, workspace |-> None,
              answer |-> "none"]
NoRecord == [scope |-> None, key |-> None, deleted |-> FALSE]
NoRecords == [m \in Messages |-> NoRecord]
NotAsked == [m \in Messages |-> "never"]

ASSUME RecordsAssumption == Asked \subseteq Commands

Scopes == Identities \union Workspaces \union {None}
MemoryRow == [scope : Scopes, deleted : BOOLEAN,
        key : ({"command"} \X Messages) \union {<<"promotion", MessageId[m]>> : m \in Messages}
                \union {None}]
MessageRow == [at : {"new", "accepted", "answered"}, from : Identities \union {None},
               command : Commands \union {None}, workspace : Workspaces \union {None},
               answer : {"none", "refused", "remembered", "switched", "yes", "no"}]

RecordsTypeOK ==
  /\ known \in [People -> Identities \union {None}]
  /\ bindings \in [Identities -> Seq(Workspaces)]
  /\ fixed \in [Conversations -> Workspaces \union {None}]
  /\ memories \in [Messages -> MemoryRow]
  /\ deletions \in [Messages -> {"never", "yes", "no"}]
  /\ plain \in [records : [Messages -> MemoryRow], deletions : [Messages -> {"never", "yes", "no"}]]
  /\ message \in [Messages -> MessageRow]
  /\ \A m \in Messages : message[m].at # "new" => message[m].from # None /\ message[m].workspace # None

RecordsInit ==
  /\ known = [p \in People |-> None]
  /\ bindings = [i \in Identities |-> <<>>]
  /\ fixed = [c \in Conversations |-> None]
  /\ memories = NoRecords
  /\ deletions = NotAsked
  /\ plain = [records |-> NoRecords, deletions |-> NotAsked]
  /\ message = [m \in Messages |-> NoMessage]

(* ------------------------- sender and workspace ------------------------- *)

\* IdentityResolverLite.resolve: an owner by configuration, else a guest
Observed(p, owner) == <<IF owner THEN "owner" ELSE "guest", p>>

\* resolveIdentity: the link made at the first message is kept, whatever the
\* configuration says later
Resolved(p, owner) == IF known[p] = None THEN Observed(p, owner) ELSE known[p]

\* defaultWorkspaceForEvent
Default(c, i) == IF c = <<"group">> THEN c ELSE <<"personal", i[1], i[2]>>

\* #findBoundWorkspace: the binding made last
Bound(c, i) ==
  IF c = <<"group">> \/ bindings[i] = <<>> THEN Default(c, i) ELSE bindings[i][Len(bindings[i])]

WrongBinding(i, w) == [bindings EXCEPT ![i] = Append(@, w)]

\* INSERT OR IGNORE over the index on workspace and identity
Binding(i, w) ==
  IF \E n \in DOMAIN bindings[i] : bindings[i][n] = w THEN bindings
                                                     ELSE [bindings EXCEPT ![i] = Append(@, w)]

\* #intakeChannel: the session's workspace if it has one, else resolveWorkspace,
\* which binds the default; acceptInput stores it with the session
AcceptMessage(m, p, c, owner, command) ==
  LET i == Resolved(p, owner)
      w == IF fixed[c] # None THEN fixed[c] ELSE Bound(c, i)
  IN  /\ message[m].at = "new"
      /\ c \in {<<"group">>, <<"private", p>>}
      /\ known' = [known EXCEPT ![p] = i]
      /\ fixed' = [fixed EXCEPT ![c] = w]
      /\ bindings' = IF fixed[c] = None /\ c # <<"group">> THEN Binding(i, w) ELSE bindings
      /\ message' = [message EXCEPT ![m] = [at |-> "accepted", from |-> i,
                       command |-> command, workspace |-> w, answer |-> "none"]]
      /\ UNCHANGED <<memories, deletions, plain>>

(* -------------------------------- memory -------------------------------- *)

\* isVisible: own memories except in a group, and those of the workspace
Visible(r, i, w) == (r.scope = i /\ w # <<"group">>) \/ r.scope = w

\* a command is known by its normalized event, a promoted sentence by the id
\* the platform gave the message
Key(m, by) == <<by, IF by = "command" THEN m ELSE MessageId[m]>>
Record(scope, m, by) == [scope |-> scope, key |-> Key(m, by), deleted |-> FALSE]

\* remember() of SQLite: the key in the scope, or the source and its event in any
Same(m, by) == {n \in Messages : memories[n].key = Key(m, by)}

WrongKept(m, by) == {n \in Messages : plain.records[n].key = Key(m, by) /\ ~plain.records[n].deleted}

\* remember() in memory: the key, in any scope
Kept(m, by) == {n \in Messages : plain.records[n].key = Key(m, by)}

Remember(scope, m, by) ==
  /\ memories' = IF Same(m, by) = {} THEN [memories EXCEPT ![m] = Record(scope, m, by)] ELSE memories
  /\ plain' = IF Kept(m, by) = {} THEN [plain EXCEPT !.records[m] = Record(scope, m, by)] ELSE plain

\* delete(): only what the sender sees here
Deletable(r, m) == r # NoRecord /\ ~r.deleted /\ Visible(r, message[m].from, message[m].workspace)
Outcome(r, m) == IF Deletable(r, m) THEN "yes" ELSE "no"

WrongDeletedBefore(m) == FALSE

\* memory_delete_operations has the key
DeletedBefore(m) == deletions[m] # "never"

Delete(n, m) ==
  IF DeletedBefore(m)
    THEN UNCHANGED <<memories, deletions>>
    ELSE /\ memories' = [memories EXCEPT ![n].deleted = @ \/ Deletable(memories[n], m)]
         /\ deletions' = [deletions EXCEPT ![m] = Outcome(memories[n], m)]

DeletePlain(n, m) ==
  plain' = IF plain.deletions[m] # "never" THEN plain
           ELSE [plain EXCEPT !.records[n].deleted = @ \/ Deletable(plain.records[n], m),
                              !.deletions[m] = Outcome(plain.records[n], m)]

(* ------------------------------- commands ------------------------------- *)

Answers(m, text) ==
  message' = [message EXCEPT ![m].at = "answered", ![m].answer = text]

\* the message comes from a group
InGroup(m) == message[m].workspace = <<"group">>

\* /memory remember: private is refused in a group
RememberCommand(m, about) ==
  /\ message[m].command = <<"remember", about>>
  /\ IF about = "private" /\ InGroup(m)
       THEN Answers(m, "refused") /\ UNCHANGED <<memories, plain>>
       ELSE /\ Remember(IF about = "private" \/ (about = "here" /\ ~InGroup(m))
                          THEN message[m].from ELSE message[m].workspace, m, "command")
            /\ Answers(m, "remembered")
  /\ UNCHANGED <<known, bindings, fixed, deletions>>

DeleteCommand(m, n) ==
  /\ message[m].command = <<"delete", n>>
  /\ Delete(n, m) /\ DeletePlain(n, m)
  /\ Answers(m, deletions'[m])
  /\ UNCHANGED <<known, bindings, fixed>>

\* /workspace use: bindProjectWorkspace
UseCommand(m, x) ==
  /\ message[m].command = <<"use", x>>
  /\ IF InGroup(m)
       THEN Answers(m, "refused") /\ UNCHANGED bindings
       ELSE /\ bindings' = Binding(message[m].from, <<"project", x>>)
            /\ Answers(m, "switched")
  /\ UNCHANGED <<known, fixed, memories, deletions, plain>>

\* promoteExplicitMemory: an ordinary message that asks to remember something
Promote(m) ==
  /\ message[m].command[1] = "say"
  /\ Remember(IF message[m].workspace[1] = "personal" THEN message[m].from ELSE message[m].workspace,
              m, "promotion")
  /\ Answers(m, "none")
  /\ UNCHANGED <<known, bindings, fixed, deletions>>

\* deleteByAdmin with a key of its own, from the management interface
DeleteByAdmin(n) ==
  /\ memories[n] # NoRecord /\ ~memories[n].deleted
  /\ memories' = [memories EXCEPT ![n].deleted = TRUE]
  /\ plain' = [plain EXCEPT !.records[n].deleted = TRUE]
  /\ UNCHANGED <<known, bindings, fixed, deletions, message>>

Carry(m) ==
  \/ \E about \in {"private", "group", "here"} : RememberCommand(m, about)
  \/ \E n \in Messages : DeleteCommand(m, n)
  \/ \E x \in Projects : UseCommand(m, x)
  \/ Promote(m)

RecordsNext ==
  \/ \E m \in Messages, p \in People, c \in Conversations, owner \in BOOLEAN, command \in Asked :
        AcceptMessage(m, p, c, owner, command)
  \/ \E m \in Messages : Carry(m)
  \/ \E n \in Messages : DeleteByAdmin(n)

RecordsSpec == RecordsInit /\ [][RecordsNext]_recordVars

(* ------------------------------- properties ----------------------------- *)

\* list() of SQLite, with its scope clause
Listed(i, w) ==
  {n \in Messages : /\ memories[n] # NoRecord /\ ~memories[n].deleted
                    /\ memories[n].scope \in IF w = <<"group">> THEN {w} ELSE {i, w}}

\* list() in memory
ListedPlain(i, w) == {n \in Messages : ~plain.records[n].deleted /\ Visible(plain.records[n], i, w)}

\* Carrying a command out again, after any other commands, changes nothing and
\* answers as before: an event that is resumed neither remembers twice, nor
\* deletes what was remembered since, nor switches back (runtime-core.ts 907-931).
CommandsRepeatable ==
  [][\A m \in Messages :
       message[m].at = "answered" /\ Carry(m) =>
         UNCHANGED <<memories, deletions, bindings, plain, message>>]_recordVars

\* The memory of SQLite and the one in memory show the same to everybody
\* everywhere, deleted and repeated in any order (runtime-context-store.ts
\* 747-1009, memory/in-memory.ts).
StoresAgree ==
  \A i \in Identities, w \in Workspaces : Listed(i, w) = ListedPlain(i, w)
=============================================================================
