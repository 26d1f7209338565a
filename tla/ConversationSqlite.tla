------------------------- MODULE ConversationSqlite -------------------------
(***************************************************************************)
(* The conversation store of the runtime database                          *)
(* (storage/sqlite/conversation-store.ts).  Every request is an immediate  *)
(* transaction: a request that fails half-way is rolled back.              *)
(***************************************************************************)
EXTENDS Conversation

\* createOrEnsureSession: an existing session must be at the same place, and a
\* place has one session.
Located(s, place) ==
  IF sessions[s].status # "absent" THEN sessions[s].place = place
  ELSE \A other \in Sessions : sessions[other].place # place
WithSession(s, place) ==
  IF sessions[s].status # "absent" THEN sessions
  ELSE [sessions EXCEPT ![s] = [status |-> "active", place |-> place]]
WithMainline(s) ==
  IF sessions[s].status # "absent" THEN lines
  ELSE [lines EXCEPT ![s] = [NoLine EXCEPT !.session = s, !.status = "active"]]

CreateSession(s, place) ==
  /\ sessions[s].status = "absent" /\ Located(s, place)
  /\ sessions' = WithSession(s, place) /\ lines' = WithMainline(s)
  /\ UNCHANGED <<store, normalized, results, merges, ops>>

\* A mistake: the source of an event is not compared.
WrongUnknown(x, k) == \A n \in normalized : n.key # k
\* Neither the key nor the source was accepted before.
Unknown(x, k) == \A n \in normalized : n.key # k /\ n.source # x

AcceptNormalizedEvent(x, k, s, place, l) ==
  /\ Unknown(x, k) /\ Located(s, place)
  /\ LET ls == WithMainline(s)
     IN  /\ ls[l].session = s /\ ls[l].status # "archived"
         /\ WithSession(s, place)[s].status = "active"
         /\ ~HasKey(l, <<"normalized", k>>) /\ Len(ls[l].log) < Room(l)
         /\ lines' = Extended(ls, l, Event("user_message", <<"normalized", k>>, x,
                                           NoEvent, NoEvent))
  /\ sessions' = WithSession(s, place)
  /\ normalized' = normalized \cup
       {[source |-> x, key |-> k, session |-> s, at |-> Following(l)]}
  /\ UNCHANGED <<store, results, merges, ops>>

\* assertSessionCanArchive: no branch can be written any more.
CanArchive(s) == \A b \in Branches : SessionOf(b) = s => lines[b].status \in SessionArchivable

TransitionSession(s, k) ==
  /\ sessions[s].status = "active" /\ CanArchive(s)
  /\ Appendable(s, <<"session", k>>, FALSE)
  /\ lines' = [Extended(lines, s, Event("session_status_changed", <<"session", k>>,
                                        "archived", NoEvent, NoEvent))
               EXCEPT ![s].status = "archived"]
  /\ sessions' = [sessions EXCEPT ![s].status = "archived"]
  /\ UNCHANGED <<store, normalized, results, merges, ops>>

\* createBranch: once for a key of the session, from an event of its mainline.
CreateBranch(b, s, k, n) ==
  /\ \A c \in Branches : ~(SessionOf(c) = s /\ lines[c].key = k)
  /\ sessions[s].status = "active" /\ ~Exists(b)
  /\ n \in DOMAIN lines[s].log
  /\ LET from == [line |-> s, at |-> n]
         branch == [session |-> s, status |-> "created", key |-> k, from |-> from,
                    log |-> <<Event("branch_created", <<"created">>, b, from, NoEvent)>>]
     IN  lines' = [lines EXCEPT ![b] = branch]
  /\ UNCHANGED <<store, sessions, normalized, results, merges, ops>>

\* transitionBranch: only a publication could make a branch "merged".
TransitionBranch(b, k, to) ==
  /\ Exists(b) /\ to # "merged"
  /\ to \in BranchTransitions[lines[b].status]
  /\ Appendable(b, <<"status", k>>, FALSE)
  /\ lines' = [Extended(lines, b, Event("branch_status_changed", <<"status", k>>, to,
                                        NoEvent, At(b)))
               EXCEPT ![b].status = to]
  /\ UNCHANGED <<store, sessions, normalized, results, merges, ops>>

AppendEvent(l, k) ==
  /\ Appendable(l, <<"note", k>>, FALSE)
  /\ lines' = Extended(lines, l, Event("note", <<"note", k>>, None, NoEvent, NoEvent))
  /\ UNCHANGED <<store, sessions, normalized, results, merges, ops>>

\* createBranchResult: the row and the event of the result in one transaction.
CreateBranchResult(b, k, status) ==
  /\ Exists(b) /\ lines[b].status \in ResultCreatable(status)
  /\ \A r \in ResultsOf(b) : r.key # k
  /\ Cardinality(ResultsOf(b)) < MaxResults
  /\ LET version == Cardinality(ResultsOf(b)) + 1
     IN  /\ Appendable(b, ResultKey(version), FALSE)
         /\ results' = results \cup
              {[branch |-> b, version |-> version, status |-> status, key |-> k]}
         /\ lines' = Extended(lines, b, Event("branch_result", ResultKey(version), version,
                                              NoEvent, At(b)))
  /\ UNCHANGED <<store, sessions, normalized, merges, ops>>

\* publishBranchResult: the result appears on the mainline, the branch notes it,
\* and both events are linked to the event of the result and to each other.
PublicationEvent(r) ==
  LET from == EventWith(r.branch, ResultKey(r.version))
  IN  Event("branch_result", MergeKey(r, "main"), Id(r), from, from)
NoteOfPublication(r, main) ==
  Event("branch_result_published", MergeKey(r, "branch"), Id(r),
        EventWith(r.branch, ResultKey(r.version)), main)
\* A mistake: the branch notes the publication before the mainline shows it.
WrongPublished(r, k) ==
  LET b == r.branch  s == SessionOf(b)
  IN  /\ lines' = Extended(Extended(lines, b, NoteOfPublication(r, At(s))),
                           s, PublicationEvent(r))
      /\ merges' = merges \cup {[result |-> Id(r), branch |-> b, key |-> k,
                                 main |-> Following(s), note |-> Following(b)]}
Published(r, k) ==
  LET b == r.branch  s == SessionOf(b)
  IN  /\ lines' = Extended(Extended(lines, s, PublicationEvent(r)),
                           b, NoteOfPublication(r, Following(s)))
      /\ merges' = merges \cup {[result |-> Id(r), branch |-> b, key |-> k,
                                 main |-> Following(s), note |-> Following(b)]}

\* The key of a publication is the caller's, or made from the result.
PublishKeys(r) == {<<"asked", k>> : k \in Keys.publish} \cup {<<"default", r.version>>}

\* Neither the request nor, under another key, the result was published.
Unpublished(r, k) ==
  /\ \A m \in merges : m.branch = r.branch => m.key # k
  /\ ~Merged(r)

PublishBranchResult(r, k) ==
  /\ Unpublished(r, k)
  /\ HasKey(r.branch, ResultKey(r.version))
  /\ Appendable(SessionOf(r.branch), MergeKey(r, "main"), FALSE)
  /\ Appendable(r.branch, MergeKey(r, "branch"), TRUE)
  /\ Published(r, k)
  /\ UNCHANGED <<store, sessions, normalized, results, ops>>

SqliteNext ==
  \/ \E s \in Sessions, place \in Places : CreateSession(s, place)
  \/ \E x \in Sources, k \in Keys.accept, s \in Sessions, place \in Places, l \in Lines :
       AcceptNormalizedEvent(x, k, s, place, l)
  \/ \E s \in Sessions, k \in Keys.session : TransitionSession(s, k)
  \/ \E b \in Branches, s \in Sessions, k \in Keys.branch, n \in 1..MaxMain : CreateBranch(b, s, k, n)
  \/ \E b \in Branches, k \in Keys.status, to \in Asked : TransitionBranch(b, k, to)
  \/ \E l \in Lines, k \in Keys.note : AppendEvent(l, k)
  \/ \E b \in Branches, k \in Keys.result, status \in Asked \cap ResultStatuses : CreateBranchResult(b, k, status)
  \/ \E r \in results : \E k \in PublishKeys(r) : PublishBranchResult(r, k)
=============================================================================
