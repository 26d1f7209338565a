----------------------------- MODULE Migration -----------------------------
(* What opening an older database makes of its rows, in one transaction      *)
(* (storage/sqlite/migrations.ts, schema.ts).  A database is a record:       *)
(*   messages   conversation_messages, in the order of created_at and rowid;  *)
(*              columns that an old table lacks are Absent                   *)
(*   sessions, lines, events, normalized, processes   sets of rows           *)
(*   types      what the check of workspaces.type allows                    *)
(* A place is the pair of a channel and a conversation.                      *)
EXTENDS Naturals, Sequences, FiniteSets, SequencesExt, FiniteSetsExt

NullColumn == <<"null">>
RefusedDatabase == [refused |-> TRUE]
IsRejected(db) == "refused" \in DOMAIN db

MainlineOf(session) == <<"mainline", session>>
LegacyEvent(row) == <<"line-event:legacy", row.id>>
LegacyNormalized(row) == <<"normalized:legacy", row.id>>

(* ------------------------------- one session ---------------------------- *)

RowsOf(db, session) == SelectSeq(db.messages, LAMBDA m : m.session = session)

\* assertConsistentLegacySession
OnePlace(rows) == \A i \in DOMAIN rows : rows[i].place = rows[1].place

\* the session is inserted unless its name or its place is taken;
\* assertStoredSessionMatches
WithSession(db, session, place) ==
  LET row == [id |-> session, place |-> place, mainline |-> MainlineOf(session)]
      taken == \E s \in db.sessions : s.id = session \/ s.place = place \/ s.mainline = row.mainline
      sessions == IF taken THEN db.sessions ELSE db.sessions \union {row}
  IN  IF row \in sessions
        THEN [db EXCEPT !.sessions = sessions,
                        !.lines = @ \union {[id |-> row.mainline, session |-> session]}]
        ELSE RefusedDatabase

\* currentLineSequence
LastSequence(db, line) == Max({e.seq : e \in {x \in db.events : x.line = line}} \union {0})

\* findExistingCanonicalProjection: the event that has the key of the message,
\* on its line or as the event of what it was made from
Projections(db, row) ==
  LET line == IF row.line = NullColumn THEN MainlineOf(row.session) ELSE row.line
      direct == {e \in db.events : e.line = line /\ e.key = row.key}
      made == {e \in db.events : \E n \in db.normalized :
                 n.id = e.normalized /\ n.session = row.session /\ n.key = row.key}
  IN  IF row.key = NullColumn THEN {} ELSE IF direct # {} THEN direct ELSE made

SetMessage(db, row, fields) ==
  [db EXCEPT !.messages = [i \in DOMAIN @ |-> IF @[i].id = row.id THEN fields @@ @[i] ELSE @[i]]]

\* the canonical form of what a user said, unless its channel has it already
NormalizedRow(row) ==
  [id |-> LegacyNormalized(row), session |-> row.session, channel |-> row.place[1],
   source |-> row.source, key |-> <<"legacy-normalized", row.id>>]
Normalizes(db, row) ==
  /\ row.role = "user" /\ row.source # NullColumn
  /\ ~\E n \in db.normalized : n.channel = row.place[1] /\ n.source = row.source

\* a message without an event becomes the next event of the main line
Backfilled(db, row) ==
  LET line == MainlineOf(row.session)
      normalized == IF Normalizes(db, row) THEN LegacyNormalized(row) ELSE NullColumn
      event == [id |-> LegacyEvent(row), line |-> line, seq |-> LastSequence(db, line) + 1,
                key |-> <<"legacy-message", row.id>>, normalized |-> normalized]
  IN  SetMessage([db EXCEPT !.events = @ \union {event},
                            !.normalized = IF Normalizes(db, row) THEN @ \union {NormalizedRow(row)} ELSE @],
                 row, [line |-> line, event |-> event.id, normalized |-> normalized,
                       key |-> IF row.key = NullColumn THEN event.key ELSE row.key])

\* one row of a session
BackfillRow(db, row) ==
  IF row.event # NullColumn
    THEN IF row.line = NullColumn THEN SetMessage(db, row, [line |-> MainlineOf(row.session)]) ELSE db
  ELSE IF Projections(db, row) # {}
    THEN LET event == CHOOSE e \in Projections(db, row) : TRUE
         IN  SetMessage(db, row, [line |-> event.line, event |-> event.id, normalized |-> event.normalized])
  ELSE Backfilled(db, row)

BackfillSession(db, session) ==
  LET rows == RowsOf(db, session)
      placed == WithSession(db, session, rows[1].place)
  IN  IF IsRejected(db) \/ ~OnePlace(rows) \/ IsRejected(placed) THEN RefusedDatabase
      ELSE FoldLeft(BackfillRow, placed, rows)

\* sessions in the order of their first messages
SessionOrder(db) ==
  LET first(i) == ~\E j \in 1..i - 1 : db.messages[j].session = db.messages[i].session
      starts == SetToSortSeq({i \in DOMAIN db.messages : first(i)}, <)
  IN  [k \in DOMAIN starts |-> db.messages[starts[k]].session]

\* backfillLegacyConversationModel
Backfill(db) == FoldLeft(BackfillSession, db, SessionOrder(db))

(* ------------------------------ other tables ---------------------------- *)

\* rebuildEventProcessUniqueIndex: of the rows of one event the furthest stays
Progress(status) ==
  CASE status = "completed" -> 70 [] status = "send_succeeded" -> 60 [] status = "send_failed" -> 50
    [] status = "agent_completed" -> 40 [] status = "processing" -> 30 [] OTHER -> 20
Ahead(p, q) ==
  \/ Progress(p.status) > Progress(q.status)
  \/ Progress(p.status) = Progress(q.status) /\ p.at > q.at
  \/ Progress(p.status) = Progress(q.status) /\ p.at = q.at /\ p.row > q.row
Furthest(processes) == {p \in processes : \A q \in processes : q.event = p.event => q = p \/ Ahead(p, q)}

\* rebuildWorkspaceTypeCheck: the rows of the tables are copied, the check widened
Rebuilt(db) == [db EXCEPT !.types = @ \union {"project"}]

\* the unique indexes made at the end
Indexed(db) ==
  \A i, j \in DOMAIN db.messages :
    LET m == db.messages[i] n == db.messages[j]
    IN  i # j => /\ m.normalized = NullColumn \/ m.normalized # n.normalized
                 /\ m.event = NullColumn \/ m.event # n.event
                 /\ m.key = NullColumn \/ <<m.session, m.line, m.key>> # <<n.session, n.line, n.key>>

\* migrateSqliteRuntimeContextStore: all of it or nothing
Migrated(db) ==
  LET filled == Backfill(Rebuilt(db))
  IN  IF IsRejected(filled) \/ ~Indexed(filled) THEN RefusedDatabase
      ELSE [filled EXCEPT !.processes = Furthest(@)]
=============================================================================
