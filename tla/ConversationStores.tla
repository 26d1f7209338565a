------------------------- MODULE ConversationStores -------------------------
(***************************************************************************)
(* Both conversation stores under the same requests, and what the runtime  *)
(* relies on in either.                                                    *)
(***************************************************************************)
EXTENDS ConversationMemory

Next == (store = "sqlite" /\ SqliteNext) \/ (store = "memory" /\ MemoryNext)

Spec == Init /\ [][Next]_vars

----------------------------------------------------------------------------

Placed == {p \in Lines \X (1..(MaxMain + MaxBranch)) : p[2] \in DOMAIN lines[p[1]].log}
FactsOf(x) == {p \in Placed : LET e == lines[p[1]].log[p[2]]
                              IN  e.type = "user_message" /\ e.about = x}
Shown == {p \in Placed : p[1] \in Sessions /\ lines[p[1]].log[p[2]].type = "branch_result"}

\* The abstract contract: facts and results are those with an event on a line.
Works == [branch : Branches, version : 1..MaxResults]
TakenBy(x) ==
  LET facts == FactsOf(x)
  IN  CASE facts = {} -> "nobody"
        [] Cardinality(facts) > 1 -> "twice"
        [] OTHER -> SessionOf((CHOOSE f \in facts : TRUE)[1])
FinishedIn(w) ==
  IF \E r \in results : Id(r) = w /\ HasKey(w.branch, ResultKey(w.version))
  THEN SessionOf(w.branch) ELSE "nobody"
StandingOf(s) ==
  CASE sessions[s].status = "absent" -> "unborn"
    [] sessions[s].status = "active" -> "open"
    [] OTHER -> "closed"
PublishedWorks == {lines[p[1]].log[p[2]].about : p \in Shown}

Contract == INSTANCE Ledger WITH
  SessionIds <- Sessions,
  taken <- [x \in Sources |-> TakenBy(x)],
  finished <- [w \in Works |-> FinishedIn(w)],
  published <- PublishedWorks,
  standing <- [s \in Sessions |-> StandingOf(s)]

\* Either store keeps the contract: a fact is taken once whatever keys its
\* deliveries bear, a result is published once and in an open session, and a
\* closed session takes nothing more (conversation/store.ts).
KeepsContract == Contract!Spec

\* A publication is linked on both lines: the mainline event comes from the
\* event of the result, the branch notes it because of the mainline event, each
\* of the two exists once, and every result on a mainline has its publication
\* (publishBranchResult writes three rows that getBranchResultTrace joins).
PublicationsLinked ==
  /\ \A m \in merges :
       LET shown == lines[m.main.line].log[m.main.at]
           note == lines[m.note.line].log[m.note.at]
       IN  /\ shown.type = "branch_result" /\ shown.about = m.result
           /\ note.type = "branch_result_published" /\ note.cause = m.main
           /\ shown.from = note.from /\ shown.from.line = m.branch
           /\ lines[m.branch].log[shown.from.at].about = m.result.version
  /\ \A p \in Shown : Cardinality({m \in merges : m.main = [line |-> p[1], at |-> p[2]]}) = 1

\* What a restart lists as unmerged can be published, and of what can be
\* published it leaves out only results of failed or cancelled branches or with
\* such a status (getRecoveryState against publishBranchResult).
RecoveryComplete ==
  \A s \in Sessions : \A r \in {q \in results : SessionOf(q.branch) = s} :
    LET publishable == /\ HasKey(r.branch, ResultKey(r.version))
                       /\ ~Merged(r) /\ Writable(s)
    IN  r \in UnmergedResults(s) <=>
          publishable /\ r.status = "completed"
          /\ lines[r.branch].status \notin {"failed", "cancelled"}

\* What was published is linked on both lines, and what was not is found again by
\* a restart.
PublicationsSound == PublicationsLinked /\ RecoveryComplete
=============================================================================
