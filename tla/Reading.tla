------------------------------ MODULE Reading ------------------------------
(* What is read back of what the runtime keeps: the transcript, which takes  *)
(* every message once (storage/sqlite/runtime-context-store.ts, transcript/   *)
(* in-memory.ts); lists that are read page by page (inspection/               *)
(* runtime-inspection.ts, trace/sqlite-store.ts, storage/sqlite/              *)
(* asset-store.ts, conversation-store.ts); where an event came from           *)
(* (conversation/trace.ts); and the commits of a session as a graph.          *)
(*                                                                         *)
(* A page is the rows it shows and, in a tuple, the cursor of the next one;  *)
(* the empty tuple is no cursor.  Reading starts without one.               *)
EXTENDS Naturals, Sequences, FiniteSets, SequencesExt, FiniteSetsExt

Lacking == "lacking"   \* an optional field that is not there

Top(rows, n) == SubSeq(rows, 1, IF n < Len(rows) THEN n ELSE Len(rows))
Newest(rows, n) == Reverse(Top(Reverse(rows), n))
PageFrom(rows, limit, next) == [items |-> Top(rows, limit), next |-> next]
NoPage == <<>>

(* ------------------------------ transcript ------------------------------ *)

\* An input repeats a message that has its key on the line, or else one of the
\* same source in the conversation; in memory only one of the same kind.
RepeatsKey(message, input) ==
  /\ input.key # Lacking /\ message.key = input.key
  /\ message.session = input.session /\ message.line = input.line
RepeatsSource(message, input) ==
  input.source # Lacking /\ message.source = input.source /\ message.place = input.place
KindOf(input) == IF input.type = Lacking THEN input.role ELSE input.type
RepeatsInMemory(message, input) == RepeatsSource(message, input) /\ KindOf(message) = KindOf(input)

\* append(): the table, and the message the caller gets
AppendTo(table, input, sameKey, sameSource) ==
  LET old == IF sameKey # <<>> THEN sameKey ELSE sameSource
  IN  IF old # <<>> THEN [table |-> table, message |-> Head(old)]
                    ELSE [table |-> Append(table, input), message |-> input]
AppendMessage(table, input) ==
  AppendTo(table, input, SelectSeq(table, LAMBDA m : RepeatsKey(m, input)),
                         SelectSeq(table, LAMBDA m : RepeatsSource(m, input)))
AppendInMemory(table, input) ==
  AppendTo(table, input, SelectSeq(table, LAMBDA m : RepeatsKey(m, input)),
                         SelectSeq(table, LAMBDA m : RepeatsInMemory(m, input)))

\* What the two callers append for a platform event: the message that came in,
\* and the answer to it, which has a source and a key of its own.
IncomingMessage(event) ==
  [session |-> event.session, line |-> event.line, place |-> event.place, source |-> <<event.source>>,
   role |-> "user", type |-> event.type, key |-> <<event.key>>]
AssistantMessage(event) ==
  [session |-> event.session, line |-> event.line, place |-> event.place,
   source |-> <<event.source, "assistant">>, role |-> "assistant", type |-> "assistant_message",
   key |-> <<"assistant", event.id>>]

(* --------------------------------- pages -------------------------------- *)

\* events of a line: the newest of those asked for, in their order
ListedEvents(log, asked) ==
  Newest(SelectSeq(log, LAMBDA e : /\ asked.after # <<>> => e.sequence > asked.after[1]
                                   /\ asked.before # <<>> => e.sequence < asked.before[1]
                                   /\ e.type \in asked.types),
         asked.limit)

\* runs, newest first, by the number of their acceptance; there is a next page
\* if one more row was found
RunsPage(runs, asked, limit, before) ==
  LET found == Reverse(SelectSeq(runs, LAMBDA r : /\ before # NoPage => r.ordinal < before[1]
                                                  /\ r.status \in asked.statuses
                                                  /\ r.started \in asked.since..asked.until))
  IN  PageFrom(found, limit, IF Len(found) > limit THEN <<found[limit].ordinal>> ELSE NoPage)

\* sessions, newest first; a full page may be the last one
SessionsPage(sessions, limit, before) ==
  LET found == Reverse(SelectSeq(sessions, LAMBDA s : before # NoPage => s.cursor < before[1]))
      items == Top(found, limit)
  IN  PageFrom(found, limit, IF Len(items) = limit THEN <<Last(items).cursor>> ELSE NoPage)

\* messages of a session, newest first; any page with messages names a next one
TranscriptPage(table, session, limit, before) ==
  LET found == Reverse(SelectSeq(table, LAMBDA m : /\ m.session = session /\ ~m.deleted
                                                   /\ before # NoPage => m.cursor < before[1]))
  IN  PageFrom(found, limit, IF found # <<>> THEN <<Last(Top(found, limit)).cursor>> ELSE NoPage)

\* refs of a session, by name
RefsPage(refs, limit, after) ==
  LET found == SetToSortSeq({r \in refs : after # NoPage => r > after[1]}, LAMBDA a, b : a < b)
  IN  PageFrom(found, limit, IF found # <<>> THEN <<Last(Top(found, limit))>> ELSE NoPage)

\* assets of a workspace, the one changed last first
Behind(a, b) == a.updated < b.updated \/ (a.updated = b.updated /\ a.id < b.id)
AssetsPage(assets, asked, limit, cursor) ==
  LET found == SetToSortSeq({a \in assets : /\ ~a.deleted /\ a.name \in asked.names
                                            /\ asked.source # Lacking => asked.source \in a.sources
                                            /\ cursor # NoPage => Behind(a, cursor[1])},
                            LAMBDA a, b : Behind(b, a))
      last == found[limit]
  IN  PageFrom(found, limit, IF Len(found) > limit THEN <<[updated |-> last.updated, id |-> last.id]>> ELSE NoPage)

(* --------------------------------- traces ------------------------------- *)

\* The events of a session are a sequence; an event names others by number.
CauseOf(event) == IF event.cause # 0 THEN event.cause ELSE event.from

\* #causationChain: back over the causes, until there is none or one comes again
CausationChain(events, target) ==
  LET Back(walk) ==
        LET cause == CauseOf(events[Head(walk)])
        IN  IF cause \in {0} \union Range(walk) THEN walk ELSE <<cause>> \o walk
  IN  FoldLeft(LAMBDA walk, n : Back(walk), <<target>>, events)

\* collectRelatedEvents: one more round takes in what is linked to an event that
\* the rounds before found
LinkedTo(events, found, n) ==
  \E m \in found :
    LET a == events[m]  b == events[n]
    IN  \/ n \in {a.from, a.cause} \/ m \in {b.from, b.cause}
        \/ a.correlation = b.correlation /\ a.correlation # Lacking
        \/ a.task = b.task /\ a.task # Lacking
        \/ a.normalized = b.normalized /\ a.normalized # Lacking
Related(events, target) ==
  LET chain == Range(CausationChain(events, target))
      connected == FoldLeft(LAMBDA found, n : found \union {m \in DOMAIN events : LinkedTo(events, found, m)},
                            chain, events)
  IN  connected \ chain

(* --------------------------------- graph -------------------------------- *)

\* getSessionGraph: breadth first from the heads until enough commits are found;
\* commits is a function to the parents of each
GraphStep(commits, limit, walk) ==
  IF walk.pending = <<>> \/ Len(walk.found) >= limit THEN walk
  ELSE LET id == Head(walk.pending)
           rest == [walk EXCEPT !.pending = Tail(@)]
       IN  IF id \in walk.visited THEN rest
           ELSE [found |-> Append(walk.found, id), visited |-> walk.visited \union {id},
                 pending |-> rest.pending \o commits[id]]

SessionGraph(commits, refs, head, limit) ==
  LET heads == IF head # <<>> THEN head ELSE refs
      visits == Len(heads) + MapThenSumSet(LAMBDA c : Len(commits[c]), DOMAIN commits)
      walk == FoldLeft(LAMBDA w, n : GraphStep(commits, limit, w),
                       [found |-> <<>>, visited |-> {}, pending |-> heads],
                       [n \in 1..visits |-> n])
      boundary == Range(walk.pending) \ Range(walk.found)
  IN  [nodes |-> Range(walk.found), boundary |-> boundary, truncated |-> boundary # {},
       edges |-> UNION {{<<p, c>> : p \in Range(commits[c])} : c \in Range(walk.found)}]
=============================================================================
