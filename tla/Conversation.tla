---------------------------- MODULE Conversation ----------------------------
(***************************************************************************)
(* The data and the rules that both conversation stores share              *)
(* (conversation/types.ts, conversation/rules.ts): sessions with a         *)
(* mainline, branches, append-only lines of events, accepted platform      *)
(* events, versioned results of branches and their publication.            *)
(*                                                                         *)
(* A request is one step, because a store serves it without an await.  A   *)
(* request that repeats an earlier one is answered from the rows, and one  *)
(* that breaks a rule is refused: neither is a step here unless the store  *)
(* changes something on the way.  The body of an event is represented by   *)
(* what it is about; two requests with one idempotency key conflict when   *)
(* they are about different things.  The mainline of a session bears the   *)
(* name of the session.                                                    *)
(***************************************************************************)
EXTENDS Integers, Sequences, FiniteSets

CONSTANTS
  Stores,     \* subset of {"sqlite", "memory"}: the store under test
  Sessions, Branches,
  Places,     \* platform conversations, the locators of sessions
  Sources,    \* events of the platform: channel, source id and event type
  Keys,       \* idempotency keys of the callers, for each kind of request
  None,
  Asked,      \* bound: statuses that requests name
  MaxMain, MaxBranch, \* bounds: events on a mainline, on a branch
  MaxResults  \* bound: results of one branch

ASSUME ConversationAssumption ==
  /\ Stores \subseteq {"sqlite", "memory"}
  /\ Sessions \cap Branches = {} /\ None \notin Sessions \cup Branches \cup Places
  /\ {MaxMain, MaxBranch} \subseteq Nat /\ MaxResults \in Nat

VARIABLES
  store,       \* which implementation serves the requests
  sessions,    \* conversation_sessions: status and locator
  lines,       \* conversation_lines with the events of each line
  normalized,  \* normalized_events
  results,     \* branch_results
  merges,      \* branch_merges
  ops          \* keys the memory store keeps besides those in the rows

vars == <<store, sessions, lines, normalized, results, merges, ops>>

Lines == Sessions \cup Branches
Room(l) == IF l \in Sessions THEN MaxMain ELSE MaxBranch
BranchStatuses == {"created", "active", "blocked", "inactive", "completed",
                   "merged", "failed", "cancelled", "archived"}
ResultStatuses == {"completed", "failed", "cancelled"}

\* An event: its type, its idempotency key, the accepted platform event or the
\* status or version it is about, and the events it came from and was caused by.
NoEvent == [line |-> None, at |-> 0]
Event(type, key, about, from, cause) ==
  [type |-> type, key |-> key, about |-> about, from |-> from, cause |-> cause]

NoLine == [session |-> None, status |-> "absent", key |-> None, from |-> NoEvent,
           log |-> <<>>]

Init ==
  /\ store \in Stores
  /\ sessions = [s \in Sessions |-> [status |-> "absent", place |-> None]]
  /\ lines = [l \in Lines |-> NoLine]
  /\ normalized = {} /\ results = {} /\ merges = {} /\ ops = {}

----------------------------------------------------------------------------
(* The rules of the lifecycle.                                             *)

ActiveBranchStatuses == {"created", "active", "blocked", "inactive", "completed"}
SessionArchivable == {"merged", "failed", "cancelled", "archived"}

BranchTransitions == [from \in BranchStatuses |->
  CASE from = "created" -> {"active", "blocked", "inactive", "failed", "cancelled", "archived"}
    [] from \in {"active", "blocked"} ->
         {"active", "blocked", "inactive", "completed", "failed", "cancelled", "archived"} \ {from}
    [] from = "inactive" -> {"active", "blocked", "failed", "cancelled", "archived"}
    [] from = "archived" -> {}
    [] OTHER -> {"archived"}]

ResultCreatable(status) ==
  {"created", "active", "blocked", "inactive"} \cup {status}

Writable(s) == sessions[s].status = "active"

----------------------------------------------------------------------------
(* Reading and extending lines.                                            *)

Exists(l) == lines[l].status # "absent"
SessionOf(l) == lines[l].session
At(l) == [line |-> l, at |-> Len(lines[l].log)]
Following(l) == [line |-> l, at |-> Len(lines[l].log) + 1]
HasKey(l, key) == \E n \in DOMAIN lines[l].log : lines[l].log[n].key = key
EventWith(l, key) ==
  [line |-> l, at |-> CHOOSE n \in DOMAIN lines[l].log : lines[l].log[n].key = key]

\* appendEvent: a new key on a line that is not archived, of a session that can
\* be written; a publication is noted on an archived branch too.
Appendable(l, key, archivedToo) ==
  /\ Exists(l) /\ Writable(SessionOf(l))
  /\ ~HasKey(l, key)
  /\ lines[l].status = "archived" => archivedToo
  /\ Len(lines[l].log) < Room(l)
Extended(ls, l, event) == [ls EXCEPT ![l].log = Append(@, event)]

ResultsOf(b) == {r \in results : r.branch = b}
Id(r) == [branch |-> r.branch, version |-> r.version]
NoResult == [branch |-> None, version |-> 0]
ResultKey(version) == <<"result", version>>
MergeKey(r, side) == <<"merge", r.branch, r.version, side>>
Merged(r) == \E m \in merges : m.result = Id(r)

\* getRecoveryState(): what a restart finds unfinished in a session.
UnmergedResults(s) ==
  {r \in results :
     /\ SessionOf(r.branch) = s /\ sessions[s].status = "active"
     /\ lines[r.branch].status \notin {"failed", "cancelled"}
     /\ r.status = "completed" /\ ~Merged(r)}
ActiveBranches(s) ==
  {b \in Branches : SessionOf(b) = s /\ sessions[s].status = "active"
                    /\ lines[b].status \in ActiveBranchStatuses}
=============================================================================
