------------------------- MODULE ConversationMemory -------------------------
(***************************************************************************)
(* The reference implementation in memory (conversation/in-memory.ts).     *)
(* Nothing is rolled back: what a request stored before it was refused     *)
(* stays.  An accepted event or a result whose line event was refused has  *)
(* at = 0, or no event on the branch.                                      *)
(***************************************************************************)
EXTENDS ConversationSqlite

\* ensureSessionInternal: sessions are found by their name only.
MemoryLocated(s, place) == sessions[s].status = "absent" \/ sessions[s].place = place

MemoryCreateSession(s, place) ==
  /\ sessions[s].status = "absent"
  /\ sessions' = WithSession(s, place) /\ lines' = WithMainline(s)
  /\ UNCHANGED <<store, normalized, results, merges, ops>>

\* A source that was accepted under another key is answered, and the key noted,
\* if everything else is the same.
SourceRepeated(n, x, k, s, l) ==
  /\ n.source = x /\ n.session = s /\ n.at.line = l /\ n.at.at # 0
  /\ ops' = ops \cup {[op |-> "accept", line |-> l, key |-> k, about |-> x]}
  /\ UNCHANGED <<store, sessions, lines, normalized, results, merges>>

SourceNew(x) == \A n \in normalized : n.source # x

\* acceptNormalizedEvent: the event and its source are stored before its line
\* event is appended, and the append refuses to write an archived session.
MemoryAcceptNormalizedEvent(x, k, s, place, l) ==
  /\ \A n \in normalized : n.key = k => n.at.at = 0
  /\ \A o \in ops : ~(o.op = "accept" /\ o.key = k)
  /\ \/ \E n \in normalized : SourceRepeated(n, x, k, s, l)
     \/ LET ls == WithMainline(s)
            written == WithSession(s, place)[s].status = "active"
        IN  /\ SourceNew(x) /\ MemoryLocated(s, place)
            /\ ls[l].session = s /\ ls[l].status # "archived"
            /\ ~HasKey(l, <<"normalized", k>>) /\ Len(ls[l].log) < Room(l)
            /\ sessions' = WithSession(s, place)
            /\ lines' = IF written
                        THEN Extended(ls, l, Event("user_message", <<"normalized", k>>, x,
                                                   NoEvent, NoEvent))
                        ELSE ls
            /\ normalized' = normalized \cup
                 {[source |-> x, key |-> k, session |-> s,
                   at |-> IF written THEN Following(l) ELSE [line |-> l, at |-> 0]]}
            /\ UNCHANGED <<store, results, merges, ops>>

MemoryTransitionSession(s, k) == TransitionSession(s, k)
MemoryCreateBranch(b, s, k, n) == CreateBranch(b, s, k, n)
MemoryTransitionBranch(b, k, to) == TransitionBranch(b, k, to)
MemoryAppendEvent(l, k) == AppendEvent(l, k)

\* createBranchResult: the result is stored, then its event is refused when the
\* session is archived; the request is not remembered, so it may be repeated.
MemoryCreateBranchResult(b, k, status) ==
  \/ CreateBranchResult(b, k, status)
  \/ /\ Exists(b) /\ lines[b].status \in ResultCreatable(status)
     /\ \A r \in ResultsOf(b) : r.key = k => ~HasKey(b, ResultKey(r.version))
     /\ Cardinality(ResultsOf(b)) < MaxResults /\ ~Writable(SessionOf(b))
     /\ results' = results \cup {[branch |-> b, version |-> Cardinality(ResultsOf(b)) + 1,
                                  status |-> status, key |-> k]}
     /\ UNCHANGED <<store, sessions, lines, normalized, merges, ops>>

\* publishBranchResult: a key that asked for a published result is kept for it.
MemoryPublishBranchResult(r, k) ==
  /\ \A o \in ops : ~(o.op = "publish" /\ o.line = r.branch /\ o.key = k)
  /\ \A m \in merges : m.branch = r.branch => m.key # k
  /\ IF Merged(r)
     THEN /\ ops' = ops \cup {[op |-> "publish", line |-> r.branch, key |-> k, about |-> Id(r)]}
          /\ UNCHANGED <<store, sessions, lines, normalized, results, merges>>
     ELSE PublishBranchResult(r, k)

MemoryNext ==
  \/ \E s \in Sessions, place \in Places : MemoryCreateSession(s, place)
  \/ \E x \in Sources, k \in Keys.accept, s \in Sessions, place \in Places, l \in Lines :
       MemoryAcceptNormalizedEvent(x, k, s, place, l)
  \/ \E s \in Sessions, k \in Keys.session : MemoryTransitionSession(s, k)
  \/ \E b \in Branches, s \in Sessions, k \in Keys.branch, n \in 1..MaxMain :
       MemoryCreateBranch(b, s, k, n)
  \/ \E b \in Branches, k \in Keys.status, to \in Asked : MemoryTransitionBranch(b, k, to)
  \/ \E l \in Lines, k \in Keys.note : MemoryAppendEvent(l, k)
  \/ \E b \in Branches, k \in Keys.result, status \in Asked \cap ResultStatuses :
       MemoryCreateBranchResult(b, k, status)
  \/ \E r \in results : \E k \in PublishKeys(r) : MemoryPublishBranchResult(r, k)
=============================================================================
