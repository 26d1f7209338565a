---------------------------- MODULE ContextGraph ----------------------------
(* The versioned context of one scope (storage/sqlite/context-graph-store.ts *)
(* and context-graph/resolver.ts): immutable commits with parents, named     *)
(* refs that move by compare-and-swap on their version, and requests that    *)
(* are remembered by key so that they may be repeated.                       *)
(*                                                                         *)
(* Authors (the management interface and the tools of runs) read a ref,      *)
(* prepare a commit from what they saw and send it; the answer may be lost,  *)
(* and then the same request is sent again.  Every call is one transaction.  *)
EXTENDS Naturals, FiniteSets, SequencesExt

CONSTANTS Authors,
          RefNames,
          CommitQuota,   \* settings.maxContextCommits
          SizeOf,        \* characters of each commit
          MaxDrafts      \* bound: requests of one author

ASSUME ContextGraphAssumption == CommitQuota \in Nat \ {0} /\ SizeOf \in [1..CommitQuota -> Nat]

VARIABLES commits,   \* context_graph_commit and _commit_parent, in order of insertion
          refs,      \* context_graph_ref: head and version, 0 for no ref
          drafts     \* what each author is doing

contextVars == <<commits, refs, drafts>>

CommitsMade == DOMAIN commits
NoRef == [head |-> 0, version |-> 0]
NoRefs == [n \in RefNames |-> NoRef]
NoDraft == [at |-> "idle", number |-> 0, name |-> "none", seen |-> NoRef, others |-> {},
            answer |-> "none"]
NewCommit(parents, author, number, base) ==
  [parents |-> parents, author |-> author, number |-> number, base |-> base]

ContextTypeOK ==
  /\ \A c \in CommitsMade : Range(commits[c].parents) \subseteq 1..(c - 1)
  /\ refs \in [RefNames -> [head : 0..Len(commits), version : 0..CommitQuota + 1]]
  /\ \A a \in Authors : drafts[a].at \in {"idle", "ready", "answered"}

\* createNativeSession stores a root commit and the ref of the main line
ContextInit ==
  /\ \E n \in RefNames :
       /\ commits = <<NewCommit(<<>>, "host", 0, 0)>>
       /\ refs = [NoRefs EXCEPT ![n] = [head |-> 1, version |-> 1]]
  /\ drafts = [a \in Authors |-> NoDraft]

\* an author reads a ref, and for a merge the head of another, and prepares
Prepare(a, n, others) ==
  /\ drafts[a].at = "idle" /\ drafts[a].number < MaxDrafts
  /\ drafts' = [drafts EXCEPT ![a] = [at |-> "ready", number |-> @.number + 1, name |-> n,
                                      seen |-> refs[n], others |-> others, answer |-> "none"]]
  /\ UNCHANGED <<commits, refs>>

WrongRepeated(a) == {}

\* context_graph_commit_request
Repeated(a) == {c \in CommitsMade : commits[c].author = a /\ commits[c].number = drafts[a].number}

\* the head of the ref first, then the additional parents, without repetition
ParentsOf(d) ==
  LET head == refs[d.name].head
      rest == SetToSeq(d.others \ {head})
  IN  IF head = 0 THEN rest ELSE <<head>> \o rest

\* commit() and merge(), inside ExecutionStore.commitContext
CommitRefused(a) ==
  LET d == drafts[a]
  IN  \/ Len(commits) >= CommitQuota
      \/ refs[d.name].version # d.seen.version
      \/ d.others # {} /\ (refs[d.name] = NoRef \/ Len(ParentsOf(d)) < 2)

AnswerDraft(a, text) == drafts' = [drafts EXCEPT ![a].at = "answered", ![a].answer = text]

CommitAgain(a) ==
  /\ drafts[a].at = "ready" /\ Repeated(a) # {}
  /\ AnswerDraft(a, "stored")
  /\ UNCHANGED <<commits, refs>>

RefuseCommit(a) ==
  /\ drafts[a].at = "ready" /\ Repeated(a) = {} /\ CommitRefused(a)
  /\ AnswerDraft(a, "refused")
  /\ UNCHANGED <<commits, refs>>

Commit(a) ==
  LET d == drafts[a]
  IN  /\ d.at = "ready" /\ Repeated(a) = {} /\ ~CommitRefused(a)
      /\ commits' = Append(commits, NewCommit(ParentsOf(d), a, d.number, d.seen.head))
      /\ refs' = [refs EXCEPT ![d.name] = [head |-> Len(commits) + 1, version |-> @.version + 1]]
      /\ AnswerDraft(a, "stored")

\* fork(): an existing ref is an error, or the same ref; neither changes it
Fork(n, c) ==
  /\ refs[n] = NoRef
  /\ refs' = [refs EXCEPT ![n] = [head |-> c, version |-> 1]]
  /\ UNCHANGED <<commits, drafts>>

\* the answer arrives, or is lost and the request is sent again
Receive(a) ==
  /\ drafts[a].at = "answered"
  /\ drafts' = [drafts EXCEPT ![a] = [NoDraft EXCEPT !.number = drafts[a].number,
                                                     !.answer = drafts[a].answer]]
  /\ UNCHANGED <<commits, refs>>

LoseAnswer(a) ==
  /\ drafts[a].at = "answered"
  /\ drafts' = [drafts EXCEPT ![a].at = "ready"]
  /\ UNCHANGED <<commits, refs>>

ContextNext ==
  \/ \E a \in Authors, n \in RefNames :
        \/ Prepare(a, n, {})
        \/ \E m \in RefNames \ {n} : refs[m] # NoRef /\ Prepare(a, n, {refs[m].head})
  \/ \E a \in Authors : \/ CommitAgain(a) \/ RefuseCommit(a) \/ Commit(a)
                        \/ Receive(a) \/ LoseAnswer(a)
  \/ \E n \in RefNames, c \in CommitsMade : Fork(n, c)

ContextSpec == ContextInit /\ [][ContextNext]_contextVars

(* --------------------------- reading a context -------------------------- *)

\* the elements of a sequence that are in S, in their order
Within(s, S) ==
  LET kept[i \in 0..Len(s)] ==
        IF i = 0 THEN <<>>
        ELSE IF s[i] \in S THEN Append(kept[i - 1], s[i]) ELSE kept[i - 1]
  IN  kept[Len(s)]

Unqueued(queue, c) == Within(commits[c].parents, Range(commits[c].parents) \ Range(queue))

\* the next commit of the queue: taken when it fits, its parents queued
Visit(w, k, maxChars) ==
  IF k > Len(w.queue) THEN w
  ELSE LET c == w.queue[k]
           fits == w.used + SizeOf[c] <= maxChars
       IN  [queue |-> w.queue \o Unqueued(w.queue, c),
            selected |-> IF fits THEN Append(w.selected, c) ELSE w.selected,
            used |-> IF fits THEN w.used + SizeOf[c] ELSE w.used,
            skipped |-> w.skipped \/ ~fits]

\* the walk of resolveContextPath from a head, after maxCommits commits
Walk(head, maxCommits, maxChars) ==
  LET walk[k \in 0..maxCommits] ==
        IF k = 0 THEN [queue |-> <<head>>, selected |-> <<>>, used |-> 0, skipped |-> FALSE]
        ELSE Visit(walk[k - 1], k, maxChars)
  IN  walk[maxCommits]

\* its sorting of the selected commits: those without a selected parent, then,
\* commit by commit, the children whose selected parents are all placed
Known(selected, c) == Range(commits[c].parents) \intersect Range(selected)

Roots(selected) == Within(selected, {c \in Range(selected) : Known(selected, c) = {}})

PlaceChildren(s, k, selected) ==
  IF k > Len(s) THEN s
  ELSE s \o Within(selected, {c \in Range(selected) : /\ s[k] \in Known(selected, c)
                                                     /\ Known(selected, c) \subseteq {s[i] : i \in 1..k}})

Sorted(selected) ==
  LET sorted[k \in 0..Len(selected)] ==
        IF k = 0 THEN Roots(selected) ELSE PlaceChildren(sorted[k - 1], k, selected)
  IN  sorted[Len(selected)]

ContextPath(head, maxCommits, maxChars) ==
  LET w == Walk(head, maxCommits, maxChars)
  IN  [commits |-> Sorted(w.selected), selected |-> w.selected,
       truncated |-> w.skipped \/ Len(w.queue) > maxCommits]

(* -------------------------------- properties ---------------------------- *)

\* An author that is told its commit was refused has not stored it, whatever
\* answers were lost and however far the ref has moved since; and what is
\* stored continues the head its author had seen (context-graph-store.ts 66-107).
CommitsAnswered ==
  /\ \A a \in Authors :
       drafts[a].at = "idle" /\ drafts[a].answer = "refused" =>
         \A c \in CommitsMade : ~(commits[c].author = a /\ commits[c].number = drafts[a].number)
  /\ \A c \in CommitsMade :
       commits[c].base # 0 => commits[c].parents # <<>> /\ Head(commits[c].parents) = commits[c].base

WithParents(r) == r \union UNION {Range(commits[c].parents) : c \in r}
Ancestors(head) ==
  LET reach[k \in 0..Len(commits)] ==
        IF k = 0 THEN {head} ELSE WithParents(reach[k - 1])
  IN  reach[Len(commits)]

\* A context path lists ancestors of the head, each once and after its parents,
\* and says so when it leaves one out, for every budget (resolver.ts 11-79).
PathsFaithful ==
  \A n \in {n \in RefNames : refs[n] # NoRef} :
    LET all == Ancestors(refs[n].head)
    IN  \A maxCommits \in 1..Len(commits), maxChars \in 1..(Len(commits) + 1) :
          LET path == ContextPath(refs[n].head, maxCommits, maxChars)
              listed == path.commits
          IN  /\ Len(listed) = Len(path.selected)
              /\ Range(listed) \subseteq all
              /\ IsInjective(listed)
              /\ \A i, j \in DOMAIN listed : listed[i] \in Range(commits[listed[j]].parents) => i < j
              /\ ~path.truncated => Range(listed) = all

\* Both: what the graph answers is what it stores.
GraphAnswers == CommitsAnswered /\ PathsFaithful
=============================================================================
