-------------------------- MODULE Conversation_proofs --------------------------
(* Both conversation stores keep the contract of Ledger, link publications,  *)
(* and find after a restart what can be published: for any number of         *)
(* sessions, branches, sources, keys and results.                            *)
EXTENDS ConversationStores, FiniteSetTheorems, SequenceTheorems, TLAPS

\* places on lines hold events
EventOf(p) == lines[p[1]].log[p[2]]
PlaceOf(ref) == <<ref.line, ref.at>>

IsLine(r) == r = [session |-> r.session, status |-> r.status, key |-> r.key, from |-> r.from, log |-> r.log]
IsLog(s) == s \in Seq({s[n] : n \in DOMAIN s})

SessionRows == [Sessions -> [status : {"absent", "active", "archived"}, place : Places \union {None}]]

\* a session and its mainline stand and fall together, and a branch exists in
\* one session
Standing ==
  /\ sessions \in SessionRows
  /\ DOMAIN lines = Lines /\ lines = [l \in Lines |-> lines[l]]
  /\ \A l \in Lines :
       /\ IsLine(lines[l]) /\ IsLog(lines[l].log) /\ Len(lines[l].log) <= MaxMain + MaxBranch
       /\ IF Exists(l) THEN SessionOf(l) \in Sessions /\ sessions[SessionOf(l)].status # "absent"
                       ELSE SessionOf(l) = None /\ lines[l].log = <<>>
  /\ \A b \in Branches : Exists(b) => lines[b].status \in BranchStatuses
  /\ \A s \in Sessions : lines[s].status = sessions[s].status /\ SessionOf(s) \in {None, s}

\* a key stands for one event of a line, and what it is made of says what the
\* event is about
Keyed ==
  /\ \A p, q \in Placed : p[1] = q[1] /\ EventOf(p).key = EventOf(q).key => p = q
  /\ \A p \in Placed, v \in 1..MaxResults : EventOf(p).key = ResultKey(v) =>
       /\ EventOf(p).about = v
       /\ \E r \in results : Id(r) = [branch |-> p[1], version |-> v]

\* a source is accepted once, and its fact is where the acceptance says
Accepted ==
  /\ \A n, o \in normalized : n.source = o.source => n.at = o.at
  /\ \A p \in Placed : EventOf(p).type = "user_message" =>
       \E n \in normalized : n.source = EventOf(p).about /\ PlaceOf(n.at) = p

\* results of a branch are numbered, and have their event while it can be written
Numbered ==
  /\ IsFiniteSet(results)
  /\ \A r \in results :
       /\ r.branch \in Branches /\ Exists(r.branch)
       /\ r.version \in 1..Cardinality(ResultsOf(r.branch)) /\ r.version <= MaxResults
       /\ Writable(SessionOf(r.branch)) => HasKey(r.branch, ResultKey(r.version))
  /\ \A q, r \in results : Id(q) = Id(r) => q = r

\* the three rows of a publication name each other, and what a mainline shows
\* has them
LinkedRows(m) ==
  LET main == PlaceOf(m.main)
      note == PlaceOf(m.note)
  IN  /\ main \in Placed /\ note \in Placed
      /\ EventOf(main).type = "branch_result" /\ EventOf(main).about = m.result
      /\ EventOf(note).type = "branch_result_published" /\ EventOf(note).cause = m.main
      /\ EventOf(main).from = EventOf(note).from /\ EventOf(main).from.line = m.branch
      /\ PlaceOf(EventOf(main).from) \in Placed
      /\ EventOf(PlaceOf(EventOf(main).from)).about = m.result.version
      /\ m.main = [line |-> m.main.line, at |-> m.main.at]

Linked ==
  /\ \A m \in merges : LinkedRows(m)
  /\ \A m, o \in merges : m.main = o.main => m = o
  /\ \A p \in Shown : \E m \in merges : PlaceOf(m.main) = p

ConversationInv == Standing /\ Keyed /\ Accepted /\ Numbered /\ Linked

----------------------------------------------------------------------------
(* Logs and places.                                                         *)

LEMMA LogAppended ==
  ASSUME NEW s, IsLog(s), NEW e, NEW t, t = Append(s, e)
  PROVE  /\ Len(s) \in Nat /\ DOMAIN s = 1..Len(s)
         /\ IsLog(t) /\ Len(t) = Len(s) + 1 /\ DOMAIN t = 1..(Len(s) + 1)
         /\ \A n \in 1..Len(s) : t[n] = s[n]
         /\ t[Len(s) + 1] = e
<1> DEFINE S == {s[n] : n \in DOMAIN s}
           T == S \union {e}
<1>1. s \in Seq(S)
  BY DEF IsLog
<1>2. Len(s) \in Nat /\ DOMAIN s = 1..Len(s)
  BY <1>1, LenProperties
<1>3. s \in Seq(T)
  BY <1>1, SeqMonotonic
<1>4. t \in Seq(T) /\ Len(t) = Len(s) + 1 /\ t[Len(s) + 1] = e
      /\ \A n \in 1..Len(s) : t[n] = s[n]
  BY <1>3, <1>2, AppendProperties
<1>5. DOMAIN t = 1..(Len(s) + 1)
  BY <1>4, LenProperties
<1>6. T \subseteq {t[n] : n \in DOMAIN t}
  BY <1>4, <1>5, <1>2
<1>7. IsLog(t)
  BY <1>4, <1>6, SeqMonotonic DEF IsLog
<1> QED
  BY <1>2, <1>4, <1>5, <1>7

Appended(s, e, t) == IsLog(s) /\ t = Append(s, e)

LEMMA AppendedFacts ==
  ASSUME NEW s, NEW e, NEW t, Appended(s, e, t)
  PROVE  /\ IsLog(t) /\ Len(t) = Len(s) + 1 /\ DOMAIN t = 1..(Len(s) + 1)
         /\ \A n \in 1..Len(s) : t[n] = s[n]
         /\ t[Len(s) + 1] = e
<1>1. IsLog(s) /\ t = Append(s, e)
  BY DEF Appended
<1>2. IsLog(t)
  BY <1>1, LogAppended
<1>3. Len(t) = Len(s) + 1 /\ DOMAIN t = 1..(Len(s) + 1)
  BY <1>1, LogAppended
<1>4. \A n \in 1..Len(s) : t[n] = s[n]
  BY <1>1, LogAppended
<1>5. t[Len(s) + 1] = e
  BY <1>1, LogAppended
<1> QED
  BY <1>2, <1>3, <1>4, <1>5

LEMMA LogLength ==
  ASSUME NEW s, IsLog(s)
  PROVE  Len(s) \in Nat /\ DOMAIN s = 1..Len(s)
BY LenProperties DEF IsLog

LEMMA EmptyLog == IsLog(<<>>) /\ Len(<<>>) = 0
BY EmptySeq DEF IsLog

\* What a line holds, while Standing holds.
LEMMA LineFacts ==
  ASSUME ConversationAssumption, Standing, NEW l \in Lines
  PROVE  /\ MaxMain + MaxBranch \in Nat
         /\ Len(lines[l].log) \in 0..(MaxMain + MaxBranch)
         /\ DOMAIN lines[l].log = 1..Len(lines[l].log)
         /\ \A n : <<l, n>> \in Placed <=> n \in 1..Len(lines[l].log)
         /\ \A n : EventOf(<<l, n>>) = lines[l].log[n]
         /\ \A n \in 1..Len(lines[l].log) : Exists(l)
<1>1. MaxMain \in Nat /\ MaxBranch \in Nat
  BY DEF ConversationAssumption
<1>2. IsLog(lines[l].log) /\ Len(lines[l].log) <= MaxMain + MaxBranch
      /\ (~Exists(l) => lines[l].log = <<>>)
  BY DEF Standing
<1>3. Len(lines[l].log) \in Nat /\ DOMAIN lines[l].log = 1..Len(lines[l].log)
  BY <1>2, LogLength
<1>4. \A n : <<l, n>> \in Placed <=> n \in 1..Len(lines[l].log)
  BY <1>1, <1>2, <1>3 DEF Placed
<1>5. \A n : EventOf(<<l, n>>) = lines[l].log[n]
  BY DEF EventOf
<1>6. \A n \in 1..Len(lines[l].log) : Exists(l)
  BY <1>2, <1>3, EmptyLog
<1> QED
  BY <1>1, <1>2, <1>3, <1>4, <1>5, <1>6

LEMMA PlaceFacts ==
  ASSUME ConversationAssumption, Standing, NEW p \in Placed
  PROVE  /\ p[1] \in Lines /\ p[2] \in 1..Len(lines[p[1]].log) /\ p = <<p[1], p[2]>>
         /\ Exists(p[1])
<1>1. p[1] \in Lines /\ p = <<p[1], p[2]>>
  BY DEF Placed
<1>2. p[2] \in 1..Len(lines[p[1]].log)
  BY <1>1, LineFacts
<1> QED
  BY <1>1, <1>2, LineFacts

LEMMA KeyPlaced ==
  ASSUME ConversationAssumption, Standing, NEW l \in Lines, NEW key
  PROVE  HasKey(l, key) <=> \E p \in Placed : p[1] = l /\ EventOf(p).key = key
<1>1. ASSUME HasKey(l, key)
      PROVE  \E p \in Placed : p[1] = l /\ EventOf(p).key = key
  <2>1. PICK n \in DOMAIN lines[l].log : lines[l].log[n].key = key
    BY <1>1 DEF HasKey
  <2>2. <<l, n>> \in Placed /\ EventOf(<<l, n>>).key = key
    BY <2>1, LineFacts
  <2> QED
    BY <2>2
<1>2. ASSUME NEW p \in Placed, p[1] = l, EventOf(p).key = key
      PROVE  HasKey(l, key)
  BY <1>2, PlaceFacts, LineFacts DEF HasKey, EventOf
<1> QED
  BY <1>1, <1>2

----------------------------------------------------------------------------
(* How the lines grow in a step.                                            *)

\* the places that a step adds at the end of lines
Ends(W) == {<<l, Len(lines[l].log) + 1>> : l \in W}

\* a step adds one event to each line of W and leaves every other event
Grows(W, events) ==
  /\ Placed' = Placed \union Ends(W)
  /\ Placed \cap Ends(W) = {}
  /\ \A p \in Placed : EventOf(p)' = EventOf(p)
  /\ \A p \in Ends(W) : EventOf(p)' = events[p[1]]
  /\ \A l \in Lines : \A key :
       HasKey(l, key)' <=> HasKey(l, key) \/ (l \in W /\ events[l].key = key)

LEMMA Growth ==
  ASSUME ConversationAssumption, Standing, NEW W \in SUBSET Lines, NEW events,
         \A l \in Lines \ W : lines'[l].log = lines[l].log,
         \A l \in W : /\ Len(lines[l].log) < MaxMain + MaxBranch
                      /\ lines'[l].log = Append(lines[l].log, events[l])
  PROVE  /\ Grows(W, events)
         /\ \A l \in Lines : IsLog(lines'[l].log)
                             /\ Len(lines'[l].log) <= MaxMain + MaxBranch
<1>1. ASSUME NEW l \in W
      PROVE  /\ IsLog(lines'[l].log) /\ Len(lines'[l].log) = Len(lines[l].log) + 1
             /\ DOMAIN lines'[l].log = 1..(Len(lines[l].log) + 1)
             /\ \A n \in 1..Len(lines[l].log) : lines'[l].log[n] = lines[l].log[n]
             /\ lines'[l].log[Len(lines[l].log) + 1] = events[l]
  <2>1. IsLog(lines[l].log)
    BY DEF Standing
  <2> PICK s, t, e : s = lines[l].log /\ t = lines'[l].log /\ e = events[l]
    OBVIOUS
  <2>2. Appended(s, e, t)
    BY <2>1 DEF Appended
  <2>3. /\ IsLog(t) /\ Len(t) = Len(s) + 1 /\ DOMAIN t = 1..(Len(s) + 1)
        /\ \A n \in 1..Len(s) : t[n] = s[n]
        /\ t[Len(s) + 1] = e
    BY <2>2, AppendedFacts
  <2> QED
    BY <2>3
<1>2. ASSUME NEW l \in Lines
      PROVE  /\ IsLog(lines'[l].log)
             /\ Len(lines'[l].log) <= MaxMain + MaxBranch
             /\ \A n \in 1..Len(lines[l].log) : lines'[l].log[n] = lines[l].log[n]
  <2>1. CASE l \in W
    BY <2>1, <1>1, LineFacts
  <2>2. CASE l \notin W
    BY <2>2 DEF Standing
  <2> QED
    BY <2>1, <2>2
<1>3. ASSUME NEW p \in Placed
      PROVE  p \in Placed' /\ EventOf(p)' = EventOf(p) /\ p \notin Ends(W)
  <2>1. p[1] \in Lines /\ p = <<p[1], p[2]>> /\ p[2] \in 1..Len(lines[p[1]].log)
    BY PlaceFacts
  <2>2. EventOf(p)' = EventOf(p)
    BY <2>1, <1>2 DEF EventOf
  <2>3. p \notin Ends(W)
    BY <2>1, LineFacts DEF Ends
  <2>4. p[2] \in DOMAIN lines'[p[1]].log
    <3>1. CASE p[1] \in W
      <4>1. DOMAIN lines'[p[1]].log = 1..(Len(lines[p[1]].log) + 1)
        BY <3>1, <1>1
      <4>2. Len(lines[p[1]].log) \in Nat
        BY <2>1, LineFacts
      <4> QED
        BY <2>1, <4>1, <4>2
    <3>2. CASE p[1] \notin W
      BY <2>1, <3>2, LineFacts
    <3> QED
      BY <3>1, <3>2
  <2>5. p \in Placed'
    BY <2>4 DEF Placed
  <2> QED
    BY <2>2, <2>3, <2>5
<1>4. ASSUME NEW p \in Ends(W)
      PROVE  p \in Placed' /\ EventOf(p)' = events[p[1]]
  <2>1. PICK l \in W : p = <<l, Len(lines[l].log) + 1>>
    BY DEF Ends
  <2>2. p[2] \in DOMAIN lines'[p[1]].log /\ lines'[p[1]].log[p[2]] = events[p[1]]
    BY <2>1, <1>1, LineFacts
  <2>3. p[1] \in Lines /\ p[2] \in 1..(MaxMain + MaxBranch) /\ p = <<p[1], p[2]>>
    BY <2>1, LineFacts
  <2>4. p \in Placed'
    BY <2>2, <2>3 DEF Placed
  <2>5. EventOf(p)' = lines'[p[1]].log[p[2]]
    BY DEF EventOf
  <2> QED
    BY <2>2, <2>4, <2>5
<1>5. ASSUME NEW p \in Placed', p \notin Placed
      PROVE  p \in Ends(W)
  <2>1. p[1] \in Lines /\ p = <<p[1], p[2]>> /\ p[2] \in 1..(MaxMain + MaxBranch)
        /\ p[2] \in DOMAIN lines'[p[1]].log
    BY DEF Placed
  <2>2. ~(p[2] \in DOMAIN lines[p[1]].log)
    BY <2>1, <1>5 DEF Placed
  <2>3. p[1] \in W
    BY <2>1, <2>2
  <2>4. p[2] = Len(lines[p[1]].log) + 1
    <3>1. /\ Len(lines[p[1]].log) \in Nat
          /\ DOMAIN lines[p[1]].log = 1..Len(lines[p[1]].log)
          /\ DOMAIN lines'[p[1]].log = 1..(Len(lines[p[1]].log) + 1)
      BY <2>1, <2>3, <1>1, LineFacts
    <3> QED
      BY <2>1, <2>2, <3>1
  <2> QED
    BY <2>1, <2>3, <2>4 DEF Ends
<1>6. Ends(W) \subseteq Placed'
  BY <1>4
<1>7. ASSUME NEW l \in Lines, NEW key
      PROVE  HasKey(l, key)' <=> HasKey(l, key) \/ (l \in W /\ events[l].key = key)
  <2>1. CASE l \in W
    <3>1. Len(lines[l].log) \in Nat /\ DOMAIN lines[l].log = 1..Len(lines[l].log)
      BY LineFacts
    <3>2. DOMAIN lines'[l].log = DOMAIN lines[l].log \union {Len(lines[l].log) + 1}
      <4>1. DOMAIN lines'[l].log = 1..(Len(lines[l].log) + 1)
        BY <2>1, <1>1
      <4> QED
        BY <3>1, <4>1
    <3> QED
      <4>1. HasKey(l, key)' <=> \/ \E n \in DOMAIN lines[l].log : lines'[l].log[n].key = key
                                \/ lines'[l].log[Len(lines[l].log) + 1].key = key
        BY <3>2 DEF HasKey
      <4>2. \A n \in DOMAIN lines[l].log : lines'[l].log[n] = lines[l].log[n]
        BY <2>1, <3>1, <1>1
      <4>3. lines'[l].log[Len(lines[l].log) + 1] = events[l]
        BY <2>1, <1>1
      <4> QED
        BY <2>1, <4>1, <4>2, <4>3 DEF HasKey
  <2>2. CASE l \notin W
    BY <2>2 DEF HasKey
  <2> QED
    BY <2>1, <2>2
<1>8. Grows(W, events)
  BY <1>3, <1>4, <1>5, <1>6, <1>7 DEF Grows
<1> QED
  BY <1>2, <1>8

\* lines that exist stay, in their session
Carried == \A l \in Lines : Exists(l) => Exists(l)' /\ SessionOf(l)' = SessionOf(l)

One(l, e) == [m \in {l} |-> e]

\* A step that adds one event at the end of one line, which it may create.
Writes(l, r, e) ==
  /\ lines' = [lines EXCEPT ![l] = r] /\ IsLine(r)
  /\ r.log = Append(lines[l].log, e) /\ Len(lines[l].log) < MaxMain + MaxBranch
  /\ r.session \in Sessions /\ r.status # "absent"
  /\ Exists(l) => r.session = SessionOf(l)
  /\ l \in Sessions => r.session = l /\ sessions'[l].status = r.status
  /\ l \in Branches => r.status \in BranchStatuses
  /\ sessions' \in SessionRows /\ sessions'[r.session].status # "absent"
  /\ \A s \in Sessions \ {l} : sessions'[s].status = sessions[s].status

LEMMA OneWritten ==
  ASSUME ConversationAssumption, Standing,
         NEW l \in Lines, NEW r, NEW e, Writes(l, r, e)
  PROVE  Standing' /\ Carried /\ Grows({l}, One(l, e))
<1> USE DEF Writes
<1>3. /\ DOMAIN lines' = Lines /\ lines'[l] = r
      /\ \A m \in Lines \ {l} : lines'[m] = lines[m]
      /\ lines' = [m \in Lines |-> lines'[m]]
  BY DEF Standing
<1>4. /\ Grows({l}, One(l, e))
      /\ \A m \in Lines : IsLog(lines'[m].log) /\ Len(lines'[m].log) <= MaxMain + MaxBranch
  <2>1. One(l, e)[l] = e
    BY DEF One
  <2>2. \A m \in {l} : /\ Len(lines[m].log) < MaxMain + MaxBranch
                       /\ lines'[m].log = Append(lines[m].log, One(l, e)[m])
    BY <1>3, <2>1
  <2>3. \A m \in Lines \ {l} : lines'[m].log = lines[m].log
    BY <1>3
  <2>4. {l} \in SUBSET Lines
    OBVIOUS
  <2> QED
    BY <2>2, <2>3, <2>4, Growth
<1>5. Carried
  BY <1>3 DEF Carried, Exists, SessionOf
<1>6. ASSUME NEW m \in Lines
      PROVE  /\ IsLine(lines'[m])
             /\ IF Exists(m)'
                THEN SessionOf(m)' \in Sessions /\ sessions'[SessionOf(m)'].status # "absent"
                ELSE SessionOf(m)' = None /\ lines'[m].log = <<>>
  <2>1. CASE m = l
    BY <2>1, <1>3 DEF Exists, SessionOf
  <2>2. CASE m # l
    <3>1. lines'[m] = lines[m] /\ (Exists(m)' <=> Exists(m)) /\ SessionOf(m)' = SessionOf(m)
      BY <2>2, <1>3 DEF Exists, SessionOf
    <3>2. CASE Exists(m)
      <4>1. SessionOf(m) \in Sessions /\ sessions[SessionOf(m)].status # "absent"
        BY <3>2 DEF Standing
      <4>2. sessions'[SessionOf(m)].status # "absent"
        <5>1. CASE SessionOf(m) = l
          BY <5>1, <4>1
        <5>2. CASE SessionOf(m) # l
          BY <5>2, <4>1
        <5> QED
          BY <5>1, <5>2
      <4> QED
        BY <3>1, <3>2, <4>1, <4>2 DEF Standing
    <3>3. CASE ~Exists(m)
      BY <3>1, <3>3 DEF Standing
    <3> QED
      BY <3>2, <3>3
  <2> QED
    BY <2>1, <2>2
<1>7. ASSUME NEW s \in Sessions
      PROVE  lines'[s].status = sessions'[s].status /\ SessionOf(s)' \in {None, s}
  <2>1. CASE s = l
    BY <2>1, <1>3 DEF SessionOf
  <2>2. CASE s # l
    BY <2>2, <1>3 DEF SessionOf, Standing, Lines
  <2> QED
    BY <2>1, <2>2
<1>8. ASSUME NEW b \in Branches, Exists(b)'
      PROVE  lines'[b].status \in BranchStatuses
  <2>1. CASE b = l
    BY <2>1, <1>3
  <2>2. CASE b # l
    BY <2>2, <1>3, <1>8 DEF Standing, Lines, Exists
  <2> QED
    BY <2>1, <2>2
<1>9. Standing'
  BY <1>3, <1>4, <1>6, <1>7, <1>8 DEF Standing
<1> QED
  BY <1>4, <1>5, <1>9

----------------------------------------------------------------------------
(* What each part of the invariant asks of a step.                          *)

\* the keys of new events are new, and those of results name a result
NewKeys(W, events) ==
  /\ \A l \in W : ~HasKey(l, events[l].key)
  /\ \A l \in W, v \in 1..MaxResults : events[l].key = ResultKey(v) =>
       /\ events[l].about = v
       /\ \E r \in results' : Id(r) = [branch |-> l, version |-> v]

LEMMA KeyedGrows ==
  ASSUME ConversationAssumption, Standing, Keyed, results \subseteq results',
         NEW W \in SUBSET Lines, NEW events, Grows(W, events), NewKeys(W, events)
  PROVE  Keyed'
<1> USE DEF NewKeys
<1>1. ASSUME NEW p \in Placed', p \notin Placed
      PROVE  /\ p[1] \in W /\ p = <<p[1], Len(lines[p[1]].log) + 1>>
             /\ EventOf(p)' = events[p[1]]
  <2>1. p \in Ends(W)
    BY <1>1 DEF Grows
  <2> QED
    BY <2>1 DEF Grows, Ends
<1>2. ASSUME NEW p \in Placed
      PROVE  EventOf(p)' = EventOf(p) /\ p[1] \in Lines
  BY PlaceFacts DEF Grows
<1>3. ASSUME NEW p \in Placed', NEW q \in Placed', p[1] = q[1], EventOf(p)'.key = EventOf(q)'.key
      PROVE  p = q
  <2>1. CASE p \in Placed /\ q \in Placed
    BY <2>1, <1>2, <1>3 DEF Keyed
  <2>2. CASE p \in Placed /\ q \notin Placed
    <3>1. HasKey(q[1], events[q[1]].key)
      BY <2>2, <1>1, <1>2, <1>3, KeyPlaced
    <3> QED
      BY <3>1, <2>2, <1>1
  <2>3. CASE p \notin Placed /\ q \in Placed
    <3>1. HasKey(p[1], events[p[1]].key)
      BY <2>3, <1>1, <1>2, <1>3, KeyPlaced
    <3> QED
      BY <3>1, <2>3, <1>1
  <2>4. CASE p \notin Placed /\ q \notin Placed
    BY <2>4, <1>1, <1>3
  <2> QED
    BY <2>1, <2>2, <2>3, <2>4
<1>4. ASSUME NEW p \in Placed', NEW v \in 1..MaxResults, EventOf(p)'.key = ResultKey(v)
      PROVE  /\ EventOf(p)'.about = v
             /\ \E r \in results' : Id(r) = [branch |-> p[1], version |-> v]
  <2>1. CASE p \in Placed
    BY <2>1, <1>2, <1>4 DEF Keyed
  <2>2. CASE p \notin Placed
    BY <2>2, <1>1, <1>4
  <2> QED
    BY <2>1, <2>2
<1> QED
  BY <1>3, <1>4 DEF Keyed, ResultKey, Id

LEMMA AcceptedGrows ==
  ASSUME ConversationAssumption, Standing, Accepted, normalized \subseteq normalized',
         NEW W \in SUBSET Lines, NEW events, Grows(W, events),
         \A n, o \in normalized' : n.source = o.source => n.at = o.at,
         \A l \in W : events[l].type = "user_message" =>
           \E n \in normalized' : /\ n.source = events[l].about
                                  /\ PlaceOf(n.at) = <<l, Len(lines[l].log) + 1>>
  PROVE  Accepted'
<1>1. ASSUME NEW p \in Placed', EventOf(p)'.type = "user_message"
      PROVE  \E n \in normalized' : n.source = EventOf(p)'.about /\ PlaceOf(n.at) = p
  <2>1. CASE p \in Placed
    BY <2>1, <1>1 DEF Accepted, Grows
  <2>2. CASE p \in Ends(W)
    <3>1. p[1] \in W /\ p = <<p[1], Len(lines[p[1]].log) + 1>> /\ EventOf(p)' = events[p[1]]
      BY <2>2 DEF Ends, Grows
    <3> QED
      BY <3>1, <1>1
  <2> QED
    BY <2>1, <2>2 DEF Grows
<1> QED
  BY <1>1 DEF Accepted, PlaceOf

LEMMA NumberedKept ==
  ASSUME ConversationAssumption, Standing, Numbered, Carried, results' = results,
         NEW W \in SUBSET Lines, NEW events, Grows(W, events),
         \A s \in Sessions : sessions[s].status # "absent" /\ Writable(s)' => Writable(s)
  PROVE  Numbered'
<1>1. ASSUME NEW r \in results
      PROVE  /\ r.branch \in Branches /\ Exists(r.branch)'
             /\ Writable(SessionOf(r.branch))' => HasKey(r.branch, ResultKey(r.version))'
  <2>1. r.branch \in Lines /\ r.branch \in Branches /\ Exists(r.branch)
    BY DEF Numbered, Lines
  <2>2. Exists(r.branch)' /\ SessionOf(r.branch)' = SessionOf(r.branch)
    BY <2>1 DEF Carried
  <2>3. SessionOf(r.branch) \in Sessions /\ sessions[SessionOf(r.branch)].status # "absent"
    BY <2>1 DEF Standing
  <2>4. ASSUME Writable(SessionOf(r.branch))'
        PROVE  HasKey(r.branch, ResultKey(r.version))'
    <3>1. Writable(SessionOf(r.branch))
      BY <2>2, <2>3, <2>4 DEF Writable
    <3>2. HasKey(r.branch, ResultKey(r.version))
      BY <3>1 DEF Numbered
    <3> QED
      BY <2>1, <3>2 DEF Grows
  <2> QED
    BY <2>1, <2>2, <2>4
<1> QED
  BY <1>1 DEF Numbered, ResultsOf

LEMMA LinkedKept ==
  ASSUME ConversationAssumption, Standing, Linked, merges' = merges,
         NEW W \in SUBSET Lines, NEW events, Grows(W, events),
         \A l \in W : ~(l \in Sessions /\ events[l].type = "branch_result")
  PROVE  Linked'
<1>1. \A p \in Placed : EventOf(p)' = EventOf(p) /\ p \in Placed'
  BY DEF Grows
<1>2. Shown' = Shown
  <2>1. ASSUME NEW p \in Ends(W)
        PROVE  ~(p[1] \in Sessions /\ EventOf(p)'.type = "branch_result")
    <3>1. p[1] \in W /\ EventOf(p)' = events[p[1]]
      BY DEF Ends, Grows
    <3> QED
      BY <3>1
  <2>2. Shown = {p \in Placed : p[1] \in Sessions /\ EventOf(p).type = "branch_result"}
    BY DEF Shown, EventOf
  <2>3. Shown' = {p \in Placed' : p[1] \in Sessions /\ EventOf(p)'.type = "branch_result"}
    BY DEF Shown, EventOf
  <2>4. Placed' = Placed \union Ends(W)
    BY DEF Grows
  <2> QED
    BY <1>1, <2>1, <2>2, <2>3, <2>4
<1>3. ASSUME NEW m \in merges
      PROVE  LinkedRows(m)'
  <2>1. LinkedRows(m)
    BY DEF Linked
  <2> QED
    BY <2>1, <1>1 DEF LinkedRows, PlaceOf
<1> QED
  BY <1>2, <1>3 DEF Linked, PlaceOf

\* A step that writes none of the rows.
LEMMA RowsKept ==
  ASSUME ConversationAssumption, ConversationInv, Standing', Carried,
         normalized' = normalized, results' = results, merges' = merges,
         NEW W \in SUBSET Lines, NEW events, Grows(W, events),
         \A l \in W : /\ ~HasKey(l, events[l].key)
                      /\ \A v \in 1..MaxResults : events[l].key # ResultKey(v)
                      /\ events[l].type \notin {"user_message", "branch_result"},
         \A s \in Sessions : sessions[s].status # "absent" /\ Writable(s)' => Writable(s)
  PROVE  ConversationInv'
<1> USE DEF ConversationInv
<1>1. Keyed'
  <2>1. NewKeys(W, events)
    BY DEF NewKeys
  <2> QED
    BY <2>1, KeyedGrows
<1>2. Accepted'
  <2>1. \A n, o \in normalized' : n.source = o.source => n.at = o.at
    BY DEF Accepted
  <2> QED
    BY <2>1, AcceptedGrows
<1>3. Numbered'
  BY NumberedKept
<1>4. Linked'
  BY LinkedKept
<1> QED
  BY <1>1, <1>2, <1>3, <1>4

----------------------------------------------------------------------------
(* The requests that both stores answer alike.                              *)

LEMMA KeyKinds ==
  ASSUME NEW v
  PROVE  /\ \A k : /\ <<"normalized", k>> # ResultKey(v) /\ <<"session", k>> # ResultKey(v)
                   /\ <<"status", k>> # ResultKey(v) /\ <<"note", k>> # ResultKey(v)
         /\ <<"created">> # ResultKey(v)
         /\ \A r, side : MergeKey(r, side) # ResultKey(v)
         /\ \A w : ResultKey(w) = ResultKey(v) => w = v
BY DEF ResultKey, MergeKey

LEMMA BoundedRoom ==
  ASSUME ConversationAssumption, Standing, NEW l \in Lines, Len(lines[l].log) < Room(l)
  PROVE  Len(lines[l].log) < MaxMain + MaxBranch
<1>1. MaxMain \in Nat /\ MaxBranch \in Nat
  BY DEF ConversationAssumption
<1>2. Len(lines[l].log) \in Nat
  BY LineFacts
<1> QED
  BY <1>1, <1>2 DEF Room

\* What a line and its session are.
LEMMA LineOfSession ==
  ASSUME ConversationAssumption, Standing, NEW l \in Lines
  PROVE  /\ IsLine(lines[l])
         /\ Exists(l) => /\ SessionOf(l) \in Sessions /\ sessions[SessionOf(l)].status # "absent"
                         /\ l \in Sessions => SessionOf(l) = l
         /\ ~Exists(l) => SessionOf(l) = None /\ None \notin Sessions /\ lines[l].log = <<>>
BY DEF ConversationAssumption, Standing

\* a line with another status and log
LineWith(r, st, log) ==
  [session |-> r.session, status |-> st, key |-> r.key, from |-> r.from, log |-> log]

AreLines(ls) == ls = [l \in Lines |-> ls[l]] /\ \A l \in Lines : IsLine(ls[l])

LEMMA LogOf ==
  ASSUME NEW r, IsLine(r), NEW log
  PROVE  [r EXCEPT !.log = log] = LineWith(r, r.status, log)
<1>1. PICK a, b, c, d, g : r = [session |-> a, status |-> b, key |-> c, from |-> d, log |-> g]
  BY DEF IsLine
<1> QED
  BY <1>1 DEF LineWith

LEMMA StatusOf ==
  ASSUME NEW r, IsLine(r), NEW st
  PROVE  [r EXCEPT !.status = st] = LineWith(r, st, r.log)
<1>1. PICK a, b, c, d, g : r = [session |-> a, status |-> b, key |-> c, from |-> d, log |-> g]
  BY DEF IsLine
<1> QED
  BY <1>1 DEF LineWith

LEMMA ExtendedLine ==
  ASSUME NEW ls, AreLines(ls), NEW l \in Lines, NEW e
  PROVE  /\ Extended(ls, l, e)
              = [ls EXCEPT ![l] = LineWith(ls[l], ls[l].status, Append(ls[l].log, e))]
         /\ AreLines(Extended(ls, l, e))
<1> DEFINE log == Append(ls[l].log, e)
<1>1. [ls[l] EXCEPT !.log = log] = LineWith(ls[l], ls[l].status, log)
  BY LogOf DEF AreLines
<1>2. Extended(ls, l, e) = [ls EXCEPT ![l] = [ls[l] EXCEPT !.log = log]]
  BY DEF Extended
<1>3. Extended(ls, l, e) = [ls EXCEPT ![l] = LineWith(ls[l], ls[l].status, log)]
  BY <1>1, <1>2
<1>4. IsLine(LineWith(ls[l], ls[l].status, log))
  BY DEF IsLine, LineWith
<1>5. AreLines([ls EXCEPT ![l] = LineWith(ls[l], ls[l].status, log)])
  BY <1>4 DEF AreLines
<1> QED
  BY <1>3, <1>5

LEMMA ExtendedStatus ==
  ASSUME NEW ls, AreLines(ls), NEW l \in Lines, NEW e, NEW st
  PROVE  [Extended(ls, l, e) EXCEPT ![l].status = st]
           = [ls EXCEPT ![l] = LineWith(ls[l], st, Append(ls[l].log, e))]
<1> DEFINE more == Extended(ls, l, e)
           log == Append(ls[l].log, e)
<1>1. more = [ls EXCEPT ![l] = LineWith(ls[l], ls[l].status, log)]
  BY ExtendedLine
<1> HIDE DEF more
<1>2. /\ more[l] = LineWith(ls[l], ls[l].status, log)
      /\ \A m \in Lines \ {l} : more[m] = ls[m]
      /\ more = [m \in Lines |-> more[m]]
  BY <1>1 DEF AreLines
<1>3. [more EXCEPT ![l].status = st] = [more EXCEPT ![l] = [more[l] EXCEPT !.status = st]]
  OBVIOUS
<1>4. [more[l] EXCEPT !.status = st] = LineWith(ls[l], st, log)
  <2>1. IsLine(more[l]) /\ more[l].log = log
    BY <1>2 DEF LineWith, IsLine
  <2>2. LineWith(more[l], st, log) = LineWith(ls[l], st, log)
    BY <1>2 DEF LineWith
  <2> QED
    BY <2>1, <2>2, StatusOf
<1>5. [more EXCEPT ![l] = LineWith(ls[l], st, log)] = [ls EXCEPT ![l] = LineWith(ls[l], st, log)]
  BY <1>2 DEF AreLines
<1> QED
  BY <1>3, <1>4, <1>5 DEF more

LEMMA MainlineRow ==
  ASSUME NEW s
  PROVE  [NoLine EXCEPT !.session = s, !.status = "active"]
           = [session |-> s, status |-> "active", key |-> None, from |-> NoEvent, log |-> <<>>]
<1> DEFINE r == [NoLine EXCEPT !.session = s]
<1>1. r = [session |-> s, status |-> "absent", key |-> None, from |-> NoEvent, log |-> <<>>]
  BY DEF NoLine
<1> HIDE DEF r
<1>2. [r EXCEPT !.status = "active"]
        = [session |-> s, status |-> "active", key |-> None, from |-> NoEvent, log |-> <<>>]
  BY <1>1
<1> QED
  BY <1>2 DEF r

LEMMA StandingLines == Standing => AreLines(lines)
BY DEF Standing, AreLines

\* a session becomes present, with its empty mainline
LEMMA SessionCreated ==
  ASSUME ConversationAssumption, Standing, NEW s \in Sessions, NEW place \in Places,
         sessions[s].status = "absent",
         sessions' = WithSession(s, place), lines' = WithMainline(s)
  PROVE  /\ Standing' /\ Carried /\ Grows({}, [l \in {} |-> l])
         /\ sessions'[s].status = "active"
         /\ \A o \in Sessions \ {s} : sessions'[o] = sessions[o]
<1> DEFINE r == [NoLine EXCEPT !.session = s, !.status = "active"]
<1>1. r = [session |-> s, status |-> "active", key |-> None, from |-> NoEvent, log |-> <<>>]
  BY MainlineRow
<1>2. IsLine(r) /\ r.session = s /\ r.status = "active" /\ r.log = <<>>
  BY <1>1 DEF IsLine
<1>3. lines' = [lines EXCEPT ![s] = r]
  BY DEF WithMainline
<1> HIDE DEF r
<1>4. s \in Lines /\ ~Exists(s) /\ lines[s].log = <<>>
  BY DEF Standing, Lines, Exists
<1>5. /\ lines'[s] = r /\ DOMAIN lines' = Lines /\ lines' = [l \in Lines |-> lines'[l]]
      /\ \A l \in Lines \ {s} : lines'[l] = lines[l]
  BY <1>3, <1>4 DEF Standing
<1>6. /\ sessions' \in SessionRows /\ sessions'[s].status = "active"
      /\ \A o \in Sessions \ {s} : sessions'[o] = sessions[o]
  BY DEF WithSession, Standing, SessionRows
<1>7. /\ Grows({}, [l \in {} |-> l])
      /\ \A l \in Lines : IsLog(lines'[l].log) /\ Len(lines'[l].log) <= MaxMain + MaxBranch
  <2>1. \A l \in Lines : lines'[l].log = lines[l].log
    BY <1>2, <1>4, <1>5
  <2> QED
    BY <2>1, Growth
<1>8. Carried
  BY <1>4, <1>5 DEF Carried, Exists, SessionOf
<1>9. ASSUME NEW l \in Lines
      PROVE  /\ IsLine(lines'[l])
             /\ IF Exists(l)'
                THEN SessionOf(l)' \in Sessions /\ sessions'[SessionOf(l)'].status # "absent"
                ELSE SessionOf(l)' = None /\ lines'[l].log = <<>>
  <2>1. CASE l = s
    BY <2>1, <1>2, <1>5, <1>6 DEF Exists, SessionOf
  <2>2. CASE l # s
    <3>1. lines'[l] = lines[l] /\ (Exists(l)' <=> Exists(l)) /\ SessionOf(l)' = SessionOf(l)
      BY <2>2, <1>5 DEF Exists, SessionOf
    <3> QED
      BY <3>1, <1>6, LineOfSession
  <2> QED
    BY <2>1, <2>2
<1>10. ASSUME NEW o \in Sessions
       PROVE  lines'[o].status = sessions'[o].status /\ SessionOf(o)' \in {None, o}
  <2>1. CASE o = s
    BY <2>1, <1>2, <1>5, <1>6 DEF SessionOf
  <2>2. CASE o # s
    BY <2>2, <1>5, <1>6 DEF SessionOf, Standing, Lines
  <2> QED
    BY <2>1, <2>2
<1>11. \A b \in Branches : Exists(b)' => lines'[b].status \in BranchStatuses
  BY <1>5 DEF Standing, Exists, Lines, ConversationAssumption
<1>12. Standing'
  BY <1>5, <1>6, <1>7, <1>9, <1>10, <1>11 DEF Standing
<1> QED
  BY <1>6, <1>7, <1>8, <1>12

LEMMA SessionCreatedKeeps ==
  ASSUME ConversationAssumption, ConversationInv, NEW s \in Sessions, NEW place \in Places,
         MemoryCreateSession(s, place)
  PROVE  ConversationInv'
<1>1. /\ Standing' /\ Carried /\ Grows({}, [l \in {} |-> l])
      /\ sessions'[s].status = "active"
      /\ \A o \in Sessions \ {s} : sessions'[o] = sessions[o]
  BY SessionCreated DEF MemoryCreateSession, ConversationInv
<1>2. \A o \in Sessions : sessions[o].status # "absent" /\ Writable(o)' => Writable(o)
  BY <1>1 DEF Writable, MemoryCreateSession
<1>3. normalized' = normalized /\ results' = results /\ merges' = merges
  BY DEF MemoryCreateSession
<1> QED
  BY <1>1, <1>2, <1>3, RowsKept

\* One event on a line that takes events, whose status may change with it.
LEMMA EventWritten ==
  ASSUME ConversationAssumption, Standing, NEW l \in Lines, NEW e, NEW st,
         NEW key, NEW late \in BOOLEAN, Appendable(l, key, late),
         st # "absent", l \in Branches => st \in BranchStatuses,
         l \in Sessions => sessions'[l].status = st,
         sessions' \in SessionRows, sessions'[SessionOf(l)].status # "absent",
         \A s \in Sessions \ {l} : sessions'[s].status = sessions[s].status,
         lines' = [lines EXCEPT ![l] = LineWith(lines[l], st, Append(lines[l].log, e))]
  PROVE  Standing' /\ Carried /\ Grows({l}, One(l, e))
<1>1. Exists(l) /\ Len(lines[l].log) < MaxMain + MaxBranch
  BY BoundedRoom DEF Appendable
<1>2. SessionOf(l) \in Sessions /\ (l \in Sessions => SessionOf(l) = l) /\ IsLine(lines[l])
  BY <1>1, LineOfSession
<1> PICK r : r = LineWith(lines[l], st, Append(lines[l].log, e))
  OBVIOUS
<1>3. /\ IsLine(r) /\ r.log = Append(lines[l].log, e) /\ r.status = st
      /\ r.session = SessionOf(l)
  BY DEF LineWith, SessionOf, IsLine
<1>4. lines' = [lines EXCEPT ![l] = r]
  OBVIOUS
<1>5. Writes(l, r, e)
  BY <1>1, <1>2, <1>3, <1>4 DEF Writes
<1> QED
  BY <1>5, OneWritten

LEMMA SessionArchived ==
  ASSUME ConversationAssumption, ConversationInv, NEW s \in Sessions, NEW k,
         TransitionSession(s, k)
  PROVE  /\ ConversationInv' /\ Carried
         /\ Grows({s}, One(s, Event("session_status_changed", <<"session", k>>, "archived",
                                    NoEvent, NoEvent)))
<1> DEFINE e == Event("session_status_changed", <<"session", k>>, "archived", NoEvent, NoEvent)
<1>1. s \in Lines /\ Appendable(s, <<"session", k>>, FALSE) /\ ~HasKey(s, <<"session", k>>)
  BY DEF TransitionSession, Lines, Appendable
<1>2. /\ SessionOf(s) = s /\ Exists(s) /\ IsLine(lines[s])
  BY <1>1, LineOfSession DEF Appendable, ConversationInv
<1>3. lines' = [lines EXCEPT ![s] = LineWith(lines[s], "archived", Append(lines[s].log, e))]
  BY <1>1, StandingLines, ExtendedStatus DEF TransitionSession, ConversationInv
<1>4. /\ sessions' \in SessionRows /\ sessions'[s].status = "archived"
      /\ \A o \in Sessions \ {s} : sessions'[o] = sessions[o]
  BY DEF TransitionSession, ConversationInv, Standing, SessionRows
<1>5. e.type = "session_status_changed" /\ e.key = <<"session", k>>
  BY DEF Event
<1> HIDE DEF e
<1>6. Standing' /\ Carried /\ Grows({s}, One(s, e))
  BY <1>1, <1>2, <1>3, <1>4, EventWritten DEF ConversationInv, ConversationAssumption
<1>7. \A o \in Sessions : sessions[o].status # "absent" /\ Writable(o)' => Writable(o)
  BY <1>4 DEF Writable
<1>8. normalized' = normalized /\ results' = results /\ merges' = merges
  BY DEF TransitionSession
<1>9. \A l \in {s} : /\ ~HasKey(l, One(s, e)[l].key)
                     /\ \A v \in 1..MaxResults : One(s, e)[l].key # ResultKey(v)
                     /\ One(s, e)[l].type \notin {"user_message", "branch_result"}
  BY <1>1, <1>5, KeyKinds DEF One
<1>10. ConversationInv'
  BY <1>1, <1>6, <1>7, <1>8, <1>9, RowsKept
<1> QED
  BY <1>6, <1>10 DEF e

\* An event on a branch or a line that is neither a fact nor a result.
LEMMA NoteWritten ==
  ASSUME ConversationAssumption, ConversationInv, NEW l \in Lines, NEW e, NEW st,
         Appendable(l, e.key, FALSE), st # "absent",
         l \in Branches => st \in BranchStatuses, l \in Sessions => st = lines[l].status,
         \A v : e.key # ResultKey(v), e.type \notin {"user_message", "branch_result"},
         lines' = [lines EXCEPT ![l] = LineWith(lines[l], st, Append(lines[l].log, e))],
         UNCHANGED <<sessions, normalized, results, merges>>
  PROVE  ConversationInv' /\ Carried /\ Grows({l}, One(l, e))
<1>1. Exists(l) /\ ~HasKey(l, e.key)
  BY DEF Appendable
<1>2. /\ sessions'[SessionOf(l)].status # "absent" /\ sessions' \in SessionRows
      /\ \A s \in Sessions \ {l} : sessions'[s].status = sessions[s].status
      /\ l \in Sessions => sessions'[l].status = st
  BY <1>1, LineOfSession DEF ConversationInv, Standing
<1>3. Standing' /\ Carried /\ Grows({l}, One(l, e))
  <2>1. FALSE \in BOOLEAN
    OBVIOUS
  <2> QED
    BY <1>2, <2>1, EventWritten DEF ConversationInv
<1>4. \A s \in Sessions : sessions[s].status # "absent" /\ Writable(s)' => Writable(s)
  BY DEF Writable
<1>5. \A m \in {l} : /\ ~HasKey(m, One(l, e)[m].key)
                     /\ \A v \in 1..MaxResults : One(l, e)[m].key # ResultKey(v)
                     /\ One(l, e)[m].type \notin {"user_message", "branch_result"}
  BY <1>1 DEF One
<1>6. ConversationInv'
  BY <1>3, <1>4, <1>5, RowsKept
<1> QED
  BY <1>3, <1>6

LEMMA EventAppended ==
  ASSUME ConversationAssumption, ConversationInv, NEW l \in Lines, NEW k, AppendEvent(l, k)
  PROVE  /\ ConversationInv' /\ Carried
         /\ Grows({l}, One(l, Event("note", <<"note", k>>, None, NoEvent, NoEvent)))
<1> PICK e : e = Event("note", <<"note", k>>, None, NoEvent, NoEvent)
  OBVIOUS
<1>1. /\ e.key = <<"note", k>> /\ e.type \notin {"user_message", "branch_result"}
      /\ \A v : e.key # ResultKey(v)
  BY KeyKinds DEF Event
<1> PICK st : st = lines[l].status
  OBVIOUS
<1>2. lines' = [lines EXCEPT ![l] = LineWith(lines[l], st, Append(lines[l].log, e))]
  BY StandingLines, ExtendedLine DEF AppendEvent, ConversationInv
<1>3. Appendable(l, e.key, FALSE) /\ st # "absent"
  BY <1>1 DEF AppendEvent, Appendable, Exists
<1>4. l \in Branches => st \in BranchStatuses
  BY <1>3 DEF ConversationInv, Standing, Exists
<1>5. UNCHANGED <<sessions, normalized, results, merges>>
  BY DEF AppendEvent
<1>6. ConversationInv' /\ Carried /\ Grows({l}, One(l, e))
  BY <1>1, <1>2, <1>3, <1>4, <1>5, NoteWritten
<1> QED
  BY <1>6

LEMMA Transitions == ASSUME NEW from \in BranchStatuses
                     PROVE  BranchTransitions[from] \subseteq BranchStatuses
BY DEF BranchTransitions, BranchStatuses

LEMMA BranchMoved ==
  ASSUME ConversationAssumption, ConversationInv, NEW b \in Branches, NEW k, NEW to,
         TransitionBranch(b, k, to)
  PROVE  /\ ConversationInv' /\ Carried
         /\ \E e : Grows({b}, One(b, e)) /\ e.type = "branch_status_changed"
                  /\ \A v : e.key # ResultKey(v)
<1> PICK e : e = Event("branch_status_changed", <<"status", k>>, to, NoEvent, At(b))
  OBVIOUS
<1>1. /\ e.key = <<"status", k>> /\ e.type = "branch_status_changed"
      /\ e.type \notin {"user_message", "branch_result"}
      /\ \A v : e.key # ResultKey(v)
  BY KeyKinds DEF Event
<1>2. b \in Lines /\ b \notin Sessions
  BY DEF Lines, ConversationAssumption
<1>3. lines' = [lines EXCEPT ![b] = LineWith(lines[b], to, Append(lines[b].log, e))]
  BY <1>2, StandingLines, ExtendedStatus DEF TransitionBranch, ConversationInv
<1>4. Appendable(b, e.key, FALSE)
  BY <1>1 DEF TransitionBranch
<1>5. to \in BranchStatuses /\ to # "absent"
  <2>1. lines[b].status \in BranchStatuses
    BY DEF TransitionBranch, ConversationInv, Standing
  <2> QED
    BY <2>1, Transitions DEF TransitionBranch, BranchStatuses
<1>6. UNCHANGED <<sessions, normalized, results, merges>>
  BY DEF TransitionBranch
<1>7. ConversationInv' /\ Carried /\ Grows({b}, One(b, e))
  BY <1>1, <1>2, <1>3, <1>4, <1>5, <1>6, NoteWritten
<1> QED
  BY <1>1, <1>7

LEMMA BranchCreated ==
  ASSUME ConversationAssumption, ConversationInv, NEW b \in Branches, NEW s \in Sessions,
         NEW k, NEW n \in 1..MaxMain, CreateBranch(b, s, k, n)
  PROVE  /\ ConversationInv' /\ Carried
         /\ \E e : Grows({b}, One(b, e)) /\ e.type = "branch_created"
                  /\ \A v : e.key # ResultKey(v)
<1> PICK from : from = [line |-> s, at |-> n]
  OBVIOUS
<1> PICK e : e = Event("branch_created", <<"created">>, b, from, NoEvent)
  OBVIOUS
<1> PICK r : r = [session |-> s, status |-> "created", key |-> k, from |-> from, log |-> <<e>>]
  OBVIOUS
<1>1. /\ e.key = <<"created">> /\ e.type = "branch_created"
      /\ e.type \notin {"user_message", "branch_result"}
      /\ \A v : e.key # ResultKey(v)
  BY KeyKinds DEF Event
<1>2. b \in Lines /\ b \notin Sessions /\ lines[b].log = <<>> /\ ~Exists(b)
  BY DEF Lines, ConversationAssumption, CreateBranch, ConversationInv, Standing
<1>3. lines' = [lines EXCEPT ![b] = r]
  BY DEF CreateBranch
<1>4. /\ IsLine(r) /\ r.log = <<e>> /\ r.session = s /\ r.status = "created"
  BY DEF IsLine
<1>5. r.log = Append(lines[b].log, e)
  BY <1>2, <1>4
<1>6. Len(lines[b].log) < MaxMain + MaxBranch
  BY <1>2, EmptyLog DEF ConversationAssumption
<1>7. sessions' = sessions /\ sessions \in SessionRows /\ sessions[s].status # "absent"
  BY DEF CreateBranch, ConversationInv, Standing
<1>8. Standing' /\ Carried /\ Grows({b}, One(b, e))
  <2>1. r.status # "absent" /\ r.status \in BranchStatuses /\ r.session \in Sessions
    BY <1>4 DEF BranchStatuses
  <2>2. Writes(b, r, e)
    BY <1>2, <1>3, <1>4, <1>5, <1>6, <1>7, <2>1 DEF Writes
  <2> QED
    BY <1>2, <2>2, OneWritten DEF ConversationInv
<1>9. ~HasKey(b, e.key)
  BY <1>2, EmptyLog, LineFacts DEF HasKey, ConversationInv
<1>10. \A m \in {b} : /\ ~HasKey(m, One(b, e)[m].key)
                      /\ \A v \in 1..MaxResults : One(b, e)[m].key # ResultKey(v)
                      /\ One(b, e)[m].type \notin {"user_message", "branch_result"}
  BY <1>1, <1>9 DEF One
<1>11. \A o \in Sessions : sessions[o].status # "absent" /\ Writable(o)' => Writable(o)
  BY <1>7 DEF Writable
<1>12. UNCHANGED <<normalized, results, merges>>
  BY DEF CreateBranch
<1>13. ConversationInv'
  BY <1>2, <1>8, <1>10, <1>11, <1>12, RowsKept
<1> QED
  BY <1>1, <1>8, <1>13

----------------------------------------------------------------------------
(* Facts.                                                                   *)

Fact(x, k) == Event("user_message", <<"normalized", k>>, x, NoEvent, NoEvent)

\* A line of a session that exists or is created by the request.
LEMMA LineWithMainline ==
  ASSUME ConversationAssumption, Standing, NEW s \in Sessions, NEW place \in Places,
         NEW l \in Lines, WithMainline(s)[l].session = s,
         WithSession(s, place)[s].status = "active"
  PROVE  /\ AreLines(WithMainline(s))
         /\ WithMainline(s)[l].log = lines[l].log
         /\ WithMainline(s)[l].status # "absent"
         /\ Exists(l) => s = SessionOf(l)
         /\ l \in Sessions => l = s /\ WithMainline(s)[l].status = "active"
         /\ l \in Branches => WithMainline(s)[l].status \in BranchStatuses
         /\ \A m \in Lines \ {l} : WithMainline(s)[m] = lines[m]
         /\ WithSession(s, place) \in SessionRows
         /\ \A o \in Sessions \ {l} : WithSession(s, place)[o].status = sessions[o].status
         /\ \A o \in Sessions \ {s} : WithSession(s, place)[o] = sessions[o]
         /\ sessions[s].status \in {"absent", "active"}
<1>1. s \in Lines /\ None \notin Sessions
  BY DEF Lines, ConversationAssumption
<1>2. CASE sessions[s].status # "absent"
  <2>1. WithMainline(s) = lines /\ WithSession(s, place) = sessions
    BY <1>2 DEF WithMainline, WithSession
  <2>2. SessionOf(l) = s /\ Exists(l) /\ sessions[s].status = "active"
    BY <2>1, <1>1, LineOfSession DEF SessionOf
  <2>3. l \in Sessions => l = s /\ lines[l].status = "active"
    BY <2>2, LineOfSession DEF Standing
  <2> QED
    BY <2>1, <2>2, <2>3, StandingLines DEF Standing, Exists
<1>3. CASE sessions[s].status = "absent"
  <2> PICK row : row = [session |-> s, status |-> "active", key |-> None, from |-> NoEvent,
                        log |-> <<>>]
    OBVIOUS
  <2>1. WithMainline(s) = [lines EXCEPT ![s] = row]
    BY <1>3, MainlineRow DEF WithMainline
  <2>2. IsLine(row) /\ row.session = s /\ row.status = "active" /\ row.log = <<>>
    BY DEF IsLine
  <2>3. /\ WithMainline(s)[s] = row /\ \A m \in Lines \ {s} : WithMainline(s)[m] = lines[m]
        /\ AreLines(WithMainline(s))
    BY <2>1, <2>2, <1>1, StandingLines DEF AreLines
  <2>4. l = s
    <3>1. CASE l # s
      <4>1. SessionOf(l) = s
        BY <3>1, <2>3 DEF SessionOf
      <4>2. Exists(l)
        BY <4>1, <1>1, LineOfSession
      <4> QED
        BY <4>1, <4>2, <1>3, LineOfSession
    <3> QED
      BY <3>1
  <2>5. ~Exists(s) /\ lines[s].log = <<>>
    BY <1>3, <1>1 DEF Standing, Exists
  <2>6. /\ WithSession(s, place) \in SessionRows
        /\ \A o \in Sessions \ {s} : WithSession(s, place)[o] = sessions[o]
    BY <1>3 DEF WithSession, SessionRows, Standing
  <2>7. s \notin Branches
    BY DEF ConversationAssumption
  <2> QED
    BY <1>3, <2>2, <2>3, <2>4, <2>5, <2>6, <2>7
<1> QED
  BY <1>2, <1>3

\* what holds while sessions and lines stay
LEMMA StandingSame ==
  ASSUME Standing, UNCHANGED <<sessions, lines>>
  PROVE  Standing'
<1>1. \A l \in Lines : (Exists(l)' <=> Exists(l)) /\ SessionOf(l)' = SessionOf(l)
  BY DEF Exists, SessionOf
<1>2. \A l \in Lines :
        IF Exists(l)' THEN SessionOf(l)' \in Sessions /\ sessions'[SessionOf(l)'].status # "absent"
                      ELSE SessionOf(l)' = None /\ lines'[l].log = <<>>
  BY <1>1 DEF Standing
<1>3. \A b \in Branches : Exists(b)' => lines'[b].status \in BranchStatuses
  BY DEF Standing, Exists
<1>4. \A s \in Sessions : lines'[s].status = sessions'[s].status /\ SessionOf(s)' \in {None, s}
  BY DEF Standing, SessionOf
<1>5. \A l \in Lines : IsLine(lines'[l]) /\ IsLog(lines'[l].log)
                        /\ Len(lines'[l].log) <= MaxMain + MaxBranch
  BY DEF Standing
<1>6. sessions' \in SessionRows /\ DOMAIN lines' = Lines /\ lines' = [l \in Lines |-> lines'[l]]
  BY DEF Standing
<1> QED
  BY <1>2, <1>3, <1>4, <1>5, <1>6 DEF Standing

LEMMA LinkedSame ==
  ASSUME Linked, UNCHANGED <<lines, merges>>
  PROVE  Linked'
<1>1. Placed' = Placed /\ Shown' = Shown
  BY DEF Placed, Shown
<1>2. \A p \in Placed : EventOf(p)' = EventOf(p)
  BY DEF EventOf
<1>3. ASSUME NEW m \in merges
      PROVE  LinkedRows(m)'
  <2>1. LinkedRows(m)
    BY DEF Linked
  <2> QED
    BY <1>1, <1>2, <2>1 DEF LinkedRows, PlaceOf
<1> QED
  BY <1>1, <1>3 DEF Linked, PlaceOf

LEMMA FactTaken ==
  ASSUME ConversationAssumption, ConversationInv, NEW x, NEW k,
         NEW s \in Sessions, NEW place \in Places, NEW l \in Lines,
         SourceNew(x), WithMainline(s)[l].session = s,
         WithSession(s, place)[s].status = "active",
         ~HasKey(l, <<"normalized", k>>), Len(WithMainline(s)[l].log) < Room(l),
         sessions' = WithSession(s, place),
         lines' = Extended(WithMainline(s), l, Fact(x, k)),
         normalized' = normalized \union
           {[source |-> x, key |-> k, session |-> s, at |-> Following(l)]},
         UNCHANGED <<results, merges>>
  PROVE  /\ ConversationInv' /\ Carried /\ Grows({l}, One(l, Fact(x, k)))
         /\ SessionOf(l)' = s /\ sessions[s].status \in {"absent", "active"}
         /\ sessions'[s].status = "active"
         /\ \A o \in Sessions \ {s} : sessions'[o] = sessions[o]
<1> PICK e : e = Fact(x, k)
  OBVIOUS
<1>1. /\ e.key = <<"normalized", k>> /\ e.type = "user_message" /\ e.about = x
      /\ \A v : e.key # ResultKey(v)
  BY KeyKinds DEF Fact, Event
<1> PICK ls : ls = WithMainline(s)
  OBVIOUS
<1> PICK r : r = LineWith(ls[l], ls[l].status, Append(lines[l].log, e))
  OBVIOUS
<1>2. Standing
  BY DEF ConversationInv
<1>3. /\ AreLines(ls) /\ ls[l].log = lines[l].log /\ ls[l].status # "absent"
      /\ ls[l].session = s /\ (Exists(l) => s = SessionOf(l))
      /\ l \in Sessions => l = s /\ ls[l].status = "active"
      /\ l \in Branches => ls[l].status \in BranchStatuses
      /\ \A m \in Lines \ {l} : ls[m] = lines[m]
  BY <1>2, LineWithMainline
<1>4. /\ sessions' \in SessionRows /\ sessions'[s].status = "active"
      /\ \A o \in Sessions \ {l} : sessions'[o].status = sessions[o].status
      /\ \A o \in Sessions \ {s} : sessions'[o] = sessions[o]
      /\ sessions[s].status \in {"absent", "active"}
  BY <1>2, LineWithMainline
<1>5. lines' = [lines EXCEPT ![l] = r]
  <2>1. lines' = [ls EXCEPT ![l] = r]
    BY <1>3, ExtendedLine
  <2> QED
    <3>1. ls = [m \in Lines |-> ls[m]] /\ lines = [m \in Lines |-> lines[m]]
      BY <1>2, <1>3 DEF AreLines, Standing
    <3>2. [ls EXCEPT ![l] = r] = [m \in Lines |-> IF m = l THEN r ELSE ls[m]]
      BY <3>1
    <3>3. [lines EXCEPT ![l] = r] = [m \in Lines |-> IF m = l THEN r ELSE lines[m]]
      BY <3>1
    <3>4. [m \in Lines |-> IF m = l THEN r ELSE ls[m]]
            = [m \in Lines |-> IF m = l THEN r ELSE lines[m]]
      BY <1>3
    <3> QED
      BY <2>1, <3>2, <3>3, <3>4
<1>6. /\ IsLine(r) /\ r.log = Append(lines[l].log, e) /\ r.session = s
      /\ r.status = ls[l].status
  BY <1>3 DEF LineWith, IsLine
<1>7. Len(lines[l].log) < MaxMain + MaxBranch
  BY <1>2, <1>3, BoundedRoom
<1>8. Standing' /\ Carried /\ Grows({l}, One(l, e))
  <2>1. /\ r.session \in Sessions /\ r.status # "absent"
        /\ Exists(l) => r.session = SessionOf(l)
        /\ l \in Sessions => r.session = l /\ sessions'[l].status = r.status
        /\ l \in Branches => r.status \in BranchStatuses
        /\ sessions'[r.session].status # "absent"
    BY <1>3, <1>4, <1>6
  <2>2. Writes(l, r, e)
    BY <1>4, <1>5, <1>6, <1>7, <2>1 DEF Writes
  <2> QED
    BY <1>2, <2>2, OneWritten
<1>9. SessionOf(l)' = s
  BY <1>2, <1>5, <1>6 DEF SessionOf, Standing
<1>10. Keyed'
  <2>1. \A m \in {l} : ~HasKey(m, One(l, e)[m].key)
    BY <1>1 DEF One
  <2>2. \A m \in {l}, v \in 1..MaxResults : One(l, e)[m].key # ResultKey(v)
    BY <1>1 DEF One
  <2>3. Keyed /\ results \subseteq results' /\ {l} \in SUBSET Lines
    BY DEF ConversationInv
  <2> QED
    <3>1. NewKeys({l}, One(l, e))
      BY <2>1, <2>2 DEF NewKeys
    <3> QED
      BY <1>2, <1>8, <2>3, <3>1, KeyedGrows
<1>11. Accepted'
  <2>1. \A n, o \in normalized' : n.source = o.source => n.at = o.at
    BY DEF ConversationInv, Accepted, SourceNew
  <2>2. \A m \in {l} : One(l, e)[m].about = x
    BY <1>1 DEF One
  <2>3. \E n \in normalized' : n.source = x /\ PlaceOf(n.at) = <<l, Len(lines[l].log) + 1>>
    <3> PICK n : n = [source |-> x, key |-> k, session |-> s, at |-> Following(l)]
      OBVIOUS
    <3>1. n \in normalized' /\ n.source = x /\ n.at = Following(l)
      OBVIOUS
    <3>2. PlaceOf(n.at) = <<l, Len(lines[l].log) + 1>>
      BY <3>1 DEF PlaceOf, Following
    <3> QED
      BY <3>1, <3>2
  <2> QED
    BY <1>8, <2>1, <2>2, <2>3, AcceptedGrows DEF ConversationInv
<1>12. Numbered'
  <2>1. \A o \in Sessions : sessions[o].status # "absent" /\ Writable(o)' => Writable(o)
    BY <1>4 DEF Writable
  <2> QED
    BY <1>8, <2>1, NumberedKept DEF ConversationInv
<1>13. Linked'
  <2>1. \A m \in {l} : One(l, e)[m].type # "branch_result"
    BY <1>1 DEF One
  <2> QED
    BY <1>8, <2>1, LinkedKept DEF ConversationInv
<1>14. ConversationInv'
  BY <1>8, <1>10, <1>11, <1>12, <1>13 DEF ConversationInv
<1> QED
  BY <1>4, <1>8, <1>9, <1>14

\* The memory store keeps an event whose session is archived, without its fact.
LEMMA FactRefused ==
  ASSUME ConversationAssumption, ConversationInv, NEW x, NEW row,
         SourceNew(x), row.source = x, normalized' = normalized \union {row},
         UNCHANGED <<sessions, lines, results, merges>>
  PROVE  ConversationInv'
<1>1. Standing' /\ Keyed' /\ Numbered' /\ Linked'
  <2>1. Placed' = Placed /\ Shown' = Shown
    BY DEF Placed, Shown
  <2>2. Standing'
    BY StandingSame DEF ConversationInv
  <2>3. Keyed'
    BY <2>1 DEF ConversationInv, Keyed, EventOf, ResultKey, Id
  <2>4. Numbered'
    BY DEF ConversationInv, Numbered, Exists, ResultsOf, Writable, SessionOf, HasKey,
           ResultKey, Id
  <2>5. Linked'
    BY LinkedSame DEF ConversationInv
  <2> QED
    BY <2>2, <2>3, <2>4, <2>5
<1>2. Accepted'
  <2>1. Placed' = Placed
    BY DEF Placed
  <2>2. \A n, o \in normalized' : n.source = o.source => n.at = o.at
    BY DEF ConversationInv, Accepted, SourceNew
  <2> QED
    BY <2>1, <2>2 DEF ConversationInv, Accepted, EventOf, PlaceOf
<1> QED
  BY <1>1, <1>2 DEF ConversationInv

\* Keys kept by the memory store change no row.
LEMMA RowsUnchanged ==
  ASSUME ConversationInv, UNCHANGED <<sessions, lines, normalized, results, merges>>
  PROVE  ConversationInv'
<1>1. Placed' = Placed /\ Shown' = Shown
  BY DEF Placed, Shown
<1>2. Standing'
  BY StandingSame DEF ConversationInv
<1>3. Keyed'
  BY <1>1 DEF ConversationInv, Keyed, EventOf, ResultKey, Id
<1>4. Numbered'
  BY DEF ConversationInv, Numbered, Exists, ResultsOf, Writable, SessionOf, HasKey,
         ResultKey, Id
<1>5. Linked'
  BY LinkedSame DEF ConversationInv
<1>6. Accepted'
  BY <1>1 DEF ConversationInv, Accepted, EventOf, PlaceOf
<1> QED
  BY <1>2, <1>3, <1>4, <1>5, <1>6 DEF ConversationInv

----------------------------------------------------------------------------
(* Results.                                                                 *)

\* The next result of a branch has a version of its own.
LEMMA NextVersion ==
  ASSUME ConversationAssumption, Numbered, NEW b \in Branches, NEW row,
         row.branch = b, row.version = Cardinality(ResultsOf(b)) + 1,
         Cardinality(ResultsOf(b)) < MaxResults, results' = results \union {row}
  PROVE  /\ row.version \in 1..MaxResults /\ \A r \in results : Id(r) # Id(row)
         /\ IsFiniteSet(results') /\ Cardinality(ResultsOf(b)) \in Nat
         /\ ResultsOf(b)' = ResultsOf(b) \union {row}
         /\ Cardinality(ResultsOf(b)') = row.version
         /\ \A c \in Branches \ {b} : ResultsOf(c)' = ResultsOf(c)
<1>1. IsFiniteSet(ResultsOf(b))
  <2>1. ResultsOf(b) \subseteq results
    BY DEF ResultsOf
  <2> QED
    BY <2>1, FS_Subset DEF Numbered
<1>2. Cardinality(ResultsOf(b)) \in Nat
  BY <1>1, FS_CardinalityType
<1>3. row.version \in 1..MaxResults
  BY <1>2 DEF ConversationAssumption
<1>4. ASSUME NEW r \in results, Id(r) = Id(row)
      PROVE  FALSE
  <2>1. r.branch = b /\ r.version = row.version
    BY <1>4 DEF Id
  <2>2. r.version \in 1..Cardinality(ResultsOf(b))
    BY <2>1 DEF Numbered
  <2> QED
    BY <2>1, <2>2, <1>2
<1>5. row \notin results
  BY <1>4
<1>6. ResultsOf(b)' = ResultsOf(b) \union {row} /\ row \notin ResultsOf(b)
  BY <1>5 DEF ResultsOf
<1>7. Cardinality(ResultsOf(b) \union {row}) = Cardinality(ResultsOf(b)) + 1
  BY <1>1, <1>6, FS_AddElement
<1>8. IsFiniteSet(results')
  BY FS_AddElement DEF Numbered
<1>9. \A c \in Branches \ {b} : ResultsOf(c)' = ResultsOf(c)
  BY DEF ResultsOf
<1> QED
  BY <1>2, <1>3, <1>4, <1>6, <1>7, <1>8, <1>9

LEMMA ResultNumbered ==
  ASSUME ConversationAssumption, Standing, Numbered, Carried, NEW b \in Branches, NEW row,
         row.branch = b, row.version = Cardinality(ResultsOf(b)) + 1, Exists(b),
         Cardinality(ResultsOf(b)) < MaxResults, results' = results \union {row},
         sessions' = sessions,
         \A l \in Lines : \A key : HasKey(l, key) => HasKey(l, key)',
         Writable(SessionOf(b)) => HasKey(b, ResultKey(row.version))'
  PROVE  Numbered'
<1>1. /\ row.version \in 1..MaxResults /\ \A r \in results : Id(r) # Id(row)
      /\ IsFiniteSet(results') /\ ResultsOf(b)' = ResultsOf(b) \union {row}
      /\ Cardinality(ResultsOf(b)') = row.version /\ Cardinality(ResultsOf(b)) \in Nat
      /\ \A c \in Branches \ {b} : ResultsOf(c)' = ResultsOf(c)
  BY NextVersion
<1>2. ASSUME NEW r \in results'
      PROVE  /\ r.branch \in Branches /\ Exists(r.branch)'
             /\ r.version \in 1..Cardinality(ResultsOf(r.branch)') /\ r.version <= MaxResults
             /\ Writable(SessionOf(r.branch))' => HasKey(r.branch, ResultKey(r.version))'
  <2>1. CASE r = row
    <3>1. Exists(b)' /\ SessionOf(b)' = SessionOf(b)
      BY DEF Carried, Lines
    <3>2. Writable(SessionOf(b))' <=> Writable(SessionOf(b))
      BY <3>1 DEF Writable
    <3>3. row.version \in 1..Cardinality(ResultsOf(b)') /\ row.version <= MaxResults
      BY <1>1 DEF ConversationAssumption
    <3>4. Writable(SessionOf(b))' => HasKey(b, ResultKey(row.version))'
      BY <3>2
    <3> QED
      BY <2>1, <3>1, <3>3, <3>4
  <2>2. CASE r \in results
    <3>1. /\ r.branch \in Branches /\ Exists(r.branch) /\ r.branch \in Lines
          /\ r.version \in 1..Cardinality(ResultsOf(r.branch)) /\ r.version <= MaxResults
          /\ Writable(SessionOf(r.branch)) => HasKey(r.branch, ResultKey(r.version))
      BY <2>2 DEF Numbered, Lines
    <3>2. Exists(r.branch)' /\ SessionOf(r.branch)' = SessionOf(r.branch)
      BY <3>1 DEF Carried
    <3>3. Writable(SessionOf(r.branch))' <=> Writable(SessionOf(r.branch))
      BY <3>2 DEF Writable
    <3>4. r.version \in 1..Cardinality(ResultsOf(r.branch)')
      <4>1. CASE r.branch = b
        BY <4>1, <3>1, <1>1
      <4>2. CASE r.branch # b
        BY <4>2, <3>1, <1>1
      <4> QED
        BY <4>1, <4>2
    <3> QED
      BY <3>1, <3>2, <3>3, <3>4
  <2> QED
    BY <2>1, <2>2
<1>3. ASSUME NEW q \in results', NEW r \in results', Id(q) = Id(r)
      PROVE  q = r
  BY <1>1, <1>3 DEF Numbered
<1> QED
  BY <1>1, <1>2, <1>3 DEF Numbered, Id

LEMMA ResultWritten ==
  ASSUME ConversationAssumption, ConversationInv, NEW b \in Branches, NEW k, NEW status,
         CreateBranchResult(b, k, status)
  PROVE  /\ ConversationInv' /\ Carried
         /\ \E e, row : /\ Grows({b}, One(b, e)) /\ e.type = "branch_result"
                        /\ e.key = ResultKey(row.version)
                        /\ row.branch = b /\ row.version = Cardinality(ResultsOf(b)) + 1
                        /\ results' = results \union {row}
<1> PICK v : v = Cardinality(ResultsOf(b)) + 1
  OBVIOUS
<1> PICK row : row = [branch |-> b, version |-> v, status |-> status, key |-> k]
  OBVIOUS
<1> PICK e : e = Event("branch_result", ResultKey(v), v, NoEvent, At(b))
  OBVIOUS
<1> PICK st : st = lines[b].status
  OBVIOUS
<1>1. /\ e.key = ResultKey(v) /\ e.type = "branch_result" /\ e.about = v
      /\ row.branch = b /\ row.version = v
  BY DEF Event
<1>2. b \in Lines /\ b \notin Sessions /\ Standing
  BY DEF Lines, ConversationAssumption, ConversationInv
<1>3. /\ Exists(b) /\ Cardinality(ResultsOf(b)) < MaxResults
      /\ Appendable(b, ResultKey(v), FALSE) /\ ~HasKey(b, ResultKey(v))
      /\ results' = results \union {row} /\ lines' = Extended(lines, b, e)
      /\ UNCHANGED <<sessions, normalized, merges>>
  BY DEF CreateBranchResult, Appendable
<1>4. lines' = [lines EXCEPT ![b] = LineWith(lines[b], st, Append(lines[b].log, e))]
  BY <1>2, <1>3, StandingLines, ExtendedLine
<1>5. /\ st # "absent" /\ st \in BranchStatuses /\ sessions' \in SessionRows
      /\ sessions'[SessionOf(b)].status # "absent"
      /\ \A s \in Sessions \ {b} : sessions'[s].status = sessions[s].status
  BY <1>2, <1>3, LineOfSession DEF Standing, Exists
<1>6. Standing' /\ Carried /\ Grows({b}, One(b, e))
  <2>1. FALSE \in BOOLEAN
    OBVIOUS
  <2> QED
    BY <1>2, <1>3, <1>4, <1>5, <2>1, EventWritten
<1>7. /\ v \in 1..MaxResults
      /\ Id(row) = [branch |-> b, version |-> v]
  BY <1>1, <1>3, NextVersion DEF ConversationInv, Id
<1>8. Keyed'
  <2>1. Keyed /\ results \subseteq results' /\ {b} \in SUBSET Lines
    BY <1>2, <1>3 DEF ConversationInv
  <2>2. \A m \in {b} : ~HasKey(m, One(b, e)[m].key)
    BY <1>1, <1>3 DEF One
  <2>3. \A m \in {b}, w \in 1..MaxResults : One(b, e)[m].key = ResultKey(w) =>
           /\ One(b, e)[m].about = w
           /\ \E r \in results' : Id(r) = [branch |-> m, version |-> w]
    BY <1>1, <1>3, <1>7, KeyKinds DEF One
  <2> QED
    <3>1. NewKeys({b}, One(b, e))
      BY <2>2, <2>3 DEF NewKeys
    <3> QED
      BY <1>2, <1>6, <2>1, <3>1, KeyedGrows
<1>9. Accepted'
  <2>1. \A n, o \in normalized' : n.source = o.source => n.at = o.at
    BY <1>3 DEF ConversationInv, Accepted
  <2>2. \A m \in {b} : One(b, e)[m].type # "user_message"
    BY <1>1 DEF One
  <2> QED
    BY <1>2, <1>3, <1>6, <2>1, <2>2, AcceptedGrows DEF ConversationInv
<1>10. Numbered'
  <2>1. \A l \in Lines : \A key : HasKey(l, key) => HasKey(l, key)'
    BY <1>6 DEF Grows
  <2>2. HasKey(b, ResultKey(row.version))'
    <3>1. One(b, e)[b].key = ResultKey(v)
      BY <1>1 DEF One
    <3>2. HasKey(b, ResultKey(v))'
      BY <1>2, <1>6, <3>1 DEF Grows
    <3> QED
      BY <1>1, <3>2
  <2> QED
    BY <1>1, <1>2, <1>3, <1>6, <2>1, <2>2, ResultNumbered DEF ConversationInv
<1>11. Linked'
  <2>1. \A m \in {b} : m \notin Sessions
    BY <1>2
  <2> QED
    BY <1>2, <1>3, <1>6, <2>1, LinkedKept DEF ConversationInv
<1>12. ConversationInv'
  BY <1>6, <1>8, <1>9, <1>10, <1>11 DEF ConversationInv
<1> QED
  BY <1>1, <1>3, <1>6, <1>12

\* The memory store keeps a result whose event was refused.
LEMMA ResultRefused ==
  ASSUME ConversationAssumption, ConversationInv, NEW b \in Branches, NEW row,
         row.branch = b, row.version = Cardinality(ResultsOf(b)) + 1, Exists(b),
         Cardinality(ResultsOf(b)) < MaxResults, ~Writable(SessionOf(b)),
         results' = results \union {row}, UNCHANGED <<sessions, lines, normalized, merges>>
  PROVE  ConversationInv'
<1>1. Placed' = Placed /\ Shown' = Shown
  BY DEF Placed, Shown
<1>2. Standing'
  BY StandingSame DEF ConversationInv
<1>3. Keyed'
  BY <1>1 DEF ConversationInv, Keyed, EventOf, ResultKey, Id
<1>4. Numbered'
  <2>1. Carried
    BY DEF Carried, Exists, SessionOf
  <2>2. \A l \in Lines : \A key : HasKey(l, key) => HasKey(l, key)'
    BY DEF HasKey
  <2> QED
    BY <2>1, <2>2, ResultNumbered DEF ConversationInv
<1>5. Linked'
  BY LinkedSame DEF ConversationInv
<1>6. Accepted'
  BY <1>1 DEF ConversationInv, Accepted, EventOf, PlaceOf
<1> QED
  BY <1>2, <1>3, <1>4, <1>5, <1>6 DEF ConversationInv

----------------------------------------------------------------------------
(* Publications.                                                            *)

Both(s, b, main, note) == [l \in {s, b} |-> IF l = s THEN main ELSE note]

\* What a publication finds.
LEMMA PublicationReady ==
  ASSUME ConversationAssumption, ConversationInv, NEW r \in results, NEW k,
         PublishBranchResult(r, k)
  PROVE  LET b == r.branch
             s == SessionOf(b)
             from == EventWith(b, ResultKey(r.version))
         IN  /\ b \in Branches /\ s \in Sessions /\ Writable(s) /\ s # b /\ Exists(b) /\ Exists(s)
             /\ from = [line |-> b, at |-> from.at]
             /\ <<b, from.at>> \in Placed /\ EventOf(<<b, from.at>>).about = r.version
             /\ Len(lines[s].log) < MaxMain + MaxBranch
             /\ Len(lines[b].log) < MaxMain + MaxBranch
             /\ ~HasKey(s, MergeKey(r, "main")) /\ ~HasKey(b, MergeKey(r, "branch"))
<1> PICK b, key : b = r.branch /\ key = ResultKey(r.version)
  OBVIOUS
<1> PICK s : s = SessionOf(b)
  OBVIOUS
<1>1. b \in Branches /\ Exists(b) /\ b \in Lines /\ r.version \in 1..MaxResults
  <2>1. /\ r.branch \in Branches /\ Exists(r.branch) /\ r.version <= MaxResults
        /\ r.version \in 1..Cardinality(ResultsOf(r.branch))
    BY DEF ConversationInv, Numbered
  <2> QED
    BY <2>1 DEF Lines, ConversationAssumption
<1>2. s \in Sessions /\ s \in Lines /\ s # b
  BY <1>1, LineOfSession DEF ConversationInv, Lines, ConversationAssumption
<1>3. /\ HasKey(b, key)
      /\ Appendable(s, MergeKey(r, "main"), FALSE) /\ Appendable(b, MergeKey(r, "branch"), TRUE)
  BY DEF PublishBranchResult
<1>4. /\ Len(lines[s].log) < MaxMain + MaxBranch /\ Len(lines[b].log) < MaxMain + MaxBranch
      /\ ~HasKey(s, MergeKey(r, "main")) /\ ~HasKey(b, MergeKey(r, "branch"))
      /\ Exists(s) /\ Writable(s)
  BY <1>1, <1>2, <1>3, BoundedRoom DEF Appendable, ConversationInv
<1> PICK n : n = CHOOSE i \in DOMAIN lines[b].log : lines[b].log[i].key = key
  OBVIOUS
<1>5. n \in DOMAIN lines[b].log /\ lines[b].log[n].key = key
  BY <1>3 DEF HasKey
<1>6. <<b, n>> \in Placed /\ EventOf(<<b, n>>).key = key
  BY <1>1, <1>5, LineFacts DEF ConversationInv
<1>7. EventOf(<<b, n>>).about = r.version
  BY <1>1, <1>6 DEF ConversationInv, Keyed
<1>8. EventWith(b, key) = [line |-> b, at |-> n]
  BY DEF EventWith
<1> PICK from : from = EventWith(r.branch, ResultKey(r.version))
  OBVIOUS
<1>9. from = [line |-> b, at |-> n] /\ from.at = n
  BY <1>8
<1>10. /\ from = [line |-> b, at |-> from.at]
       /\ <<b, from.at>> \in Placed /\ EventOf(<<b, from.at>>).about = r.version
  BY <1>6, <1>7, <1>9
<1> QED
  BY <1>1, <1>2, <1>4, <1>10

\* The lines after a publication.
LEMMA PublicationWritten ==
  ASSUME ConversationAssumption, Standing, NEW b \in Branches, NEW s \in Sessions,
         NEW main, NEW note, SessionOf(b) = s, Exists(b), Exists(s),
         Len(lines[s].log) < MaxMain + MaxBranch, Len(lines[b].log) < MaxMain + MaxBranch,
         lines' = Extended(Extended(lines, s, main), b, note), sessions' = sessions
  PROVE  Standing' /\ Carried /\ Grows({s, b}, Both(s, b, main, note))
<1>1. b \in Lines /\ s \in Lines /\ s # b /\ AreLines(lines)
  BY StandingLines DEF Lines, ConversationAssumption
<1> PICK ls : ls = Extended(lines, s, main)
  OBVIOUS
<1> PICK r : r = LineWith(lines[s], lines[s].status, Append(lines[s].log, main))
  OBVIOUS
<1> PICK q : q = LineWith(lines[b], lines[b].status, Append(lines[b].log, note))
  OBVIOUS
<1>2. ls = [lines EXCEPT ![s] = r] /\ AreLines(ls)
  BY <1>1, ExtendedLine
<1>3. ls[s] = r /\ \A m \in Lines \ {s} : ls[m] = lines[m]
  BY <1>1, <1>2 DEF Standing
<1>4. lines' = [ls EXCEPT ![b] = q] /\ AreLines(lines')
  <2>1. ls[b] = lines[b]
    BY <1>1, <1>3
  <2> QED
    <3>1. lines' = Extended(ls, b, note)
      OBVIOUS
    <3>2. q = LineWith(ls[b], ls[b].status, Append(ls[b].log, note))
      BY <2>1
    <3> QED
      <4>1. AreLines(ls) /\ b \in Lines
        BY <1>1, <1>2
      <4>2. /\ Extended(ls, b, note)
                 = [ls EXCEPT ![b] = LineWith(ls[b], ls[b].status, Append(ls[b].log, note))]
            /\ AreLines(Extended(ls, b, note))
        BY <4>1, ExtendedLine
      <4>3. AreLines(lines')
        BY <3>1, <4>2
      <4> QED
        BY <3>1, <3>2, <4>2, <4>3
<1>5. /\ DOMAIN ls = Lines /\ DOMAIN lines' = Lines
  BY <1>2, <1>4 DEF AreLines
<1>6. /\ lines'[s] = r /\ lines'[b] = q /\ \A m \in Lines \ {s, b} : lines'[m] = lines[m]
  BY <1>1, <1>3, <1>4, <1>5
<1>7. /\ r.log = Append(lines[s].log, main) /\ r.status = lines[s].status
      /\ q.log = Append(lines[b].log, note) /\ q.status = lines[b].status
      /\ r.session = lines[s].session /\ q.session = lines[b].session
  BY DEF LineWith
<1>8. /\ Grows({s, b}, Both(s, b, main, note))
      /\ \A l \in Lines : IsLog(lines'[l].log) /\ Len(lines'[l].log) <= MaxMain + MaxBranch
  <2>1. Both(s, b, main, note)[s] = main /\ Both(s, b, main, note)[b] = note
    BY <1>1 DEF Both
  <2>2. \A m \in {s, b} : /\ Len(lines[m].log) < MaxMain + MaxBranch
                          /\ lines'[m].log = Append(lines[m].log, Both(s, b, main, note)[m])
    BY <1>6, <1>7, <2>1
  <2>3. \A m \in Lines \ {s, b} : lines'[m].log = lines[m].log
    BY <1>6
  <2>4. {s, b} \in SUBSET Lines
    BY <1>1
  <2> QED
    BY <2>2, <2>3, <2>4, Growth
<1>9. ASSUME NEW l \in Lines
      PROVE  /\ lines'[l].status = lines[l].status /\ lines'[l].session = lines[l].session
             /\ ~Exists(l) => lines'[l] = lines[l]
  <2>1. CASE l = s
    BY <2>1, <1>6, <1>7
  <2>2. CASE l = b
    BY <2>2, <1>6, <1>7
  <2>3. CASE l # s /\ l # b
    BY <2>3, <1>6
  <2> QED
    BY <2>1, <2>2, <2>3
<1>10. Carried
  BY <1>9 DEF Carried, Exists, SessionOf
<1>11. ASSUME NEW l \in Lines
       PROVE  IF Exists(l)'
              THEN SessionOf(l)' \in Sessions /\ sessions'[SessionOf(l)'].status # "absent"
              ELSE SessionOf(l)' = None /\ lines'[l].log = <<>>
  <2>1. (Exists(l)' <=> Exists(l)) /\ SessionOf(l)' = SessionOf(l)
    BY <1>9 DEF Exists, SessionOf
  <2> QED
    BY <2>1, <1>9 DEF Standing
<1>12. /\ \A c \in Branches : Exists(c)' => lines'[c].status \in BranchStatuses
       /\ \A o \in Sessions : lines'[o].status = sessions'[o].status /\ SessionOf(o)' \in {None, o}
  BY <1>9 DEF Standing, Exists, SessionOf, Lines
<1>13. Standing'
  BY <1>4, <1>5, <1>8, <1>11, <1>12 DEF Standing, AreLines
<1> QED
  BY <1>8, <1>10, <1>13

LEMMA Publication ==
  ASSUME ConversationAssumption, ConversationInv, NEW r \in results, NEW k,
         PublishBranchResult(r, k)
  PROVE  /\ ConversationInv' /\ Carried
         /\ SessionOf(r.branch) \in Sessions /\ Writable(SessionOf(r.branch))
         /\ UNCHANGED <<sessions, results>>
         /\ \E s \in Sessions : \E main, note :
              /\ Grows({s, r.branch}, Both(s, r.branch, main, note))
              /\ main.type = "branch_result" /\ main.about = Id(r)
              /\ note.type = "branch_result_published" /\ r.branch \in Branches
              /\ main.key = MergeKey(r, "main") /\ note.key = MergeKey(r, "branch")
<1> PICK b, s, from : b = r.branch /\ s = SessionOf(b) /\ from = EventWith(b, ResultKey(r.version))
  OBVIOUS
<1> PICK main : main = PublicationEvent(r)
  OBVIOUS
<1> PICK note : note = NoteOfPublication(r, Following(s))
  OBVIOUS
<1> PICK x : x = [result |-> Id(r), branch |-> b, key |-> k, main |-> Following(s),
                  note |-> Following(b)]
  OBVIOUS
<1> PICK events : events = Both(s, b, main, note)
  OBVIOUS
<1>1. Standing /\ Keyed /\ Accepted /\ Numbered /\ Linked
  BY DEF ConversationInv
<1>2. /\ b \in Branches /\ s \in Sessions /\ Writable(s) /\ s # b /\ Exists(b) /\ Exists(s)
      /\ from = [line |-> b, at |-> from.at]
      /\ <<b, from.at>> \in Placed /\ EventOf(<<b, from.at>>).about = r.version
      /\ Len(lines[s].log) < MaxMain + MaxBranch
      /\ Len(lines[b].log) < MaxMain + MaxBranch
      /\ ~HasKey(s, MergeKey(r, "main")) /\ ~HasKey(b, MergeKey(r, "branch"))
  BY PublicationReady
<1>3. /\ lines' = Extended(Extended(lines, s, main), b, note)
      /\ merges' = merges \union {x} /\ UNCHANGED <<sessions, normalized, results>>
  BY DEF PublishBranchResult, Published
<1>4. /\ main.type = "branch_result" /\ main.key = MergeKey(r, "main") /\ main.about = Id(r)
      /\ main.from = from
  BY DEF PublicationEvent, Event
<1>5. /\ note.type = "branch_result_published" /\ note.key = MergeKey(r, "branch")
      /\ note.from = from /\ note.cause = Following(s)
  BY DEF NoteOfPublication, Event
<1>6. Standing' /\ Carried /\ Grows({s, b}, events)
  BY <1>1, <1>2, <1>3, PublicationWritten
<1>7. events[s] = main /\ events[b] = note /\ {s, b} \in SUBSET Lines
  BY <1>2 DEF Both, Lines
<1>8. Keyed'
  <2>1. results \subseteq results'
    BY <1>3
  <2>2. \A l \in {s, b} : ~HasKey(l, events[l].key)
    BY <1>2, <1>4, <1>5, <1>7
  <2>3. \A l \in {s, b}, v \in 1..MaxResults : events[l].key # ResultKey(v)
    BY <1>4, <1>5, <1>7, KeyKinds
  <2> QED
    <3>1. NewKeys({s, b}, events)
      BY <2>2, <2>3 DEF NewKeys
    <3> QED
      BY <1>1, <1>6, <1>7, <2>1, <3>1, KeyedGrows
<1>9. Accepted'
  <2>1. \A n, o \in normalized' : n.source = o.source => n.at = o.at
    BY <1>1, <1>3 DEF Accepted
  <2>2. \A l \in {s, b} : events[l].type # "user_message"
    BY <1>4, <1>5, <1>7
  <2> QED
    BY <1>1, <1>3, <1>6, <1>7, <2>1, <2>2, AcceptedGrows
<1>10. Numbered'
  <2>1. \A o \in Sessions : sessions[o].status # "absent" /\ Writable(o)' => Writable(o)
    BY <1>3 DEF Writable
  <2> QED
    BY <1>1, <1>3, <1>6, <1>7, <2>1, NumberedKept
<1> PICK p : p = <<s, Len(lines[s].log) + 1>>
  OBVIOUS
<1> PICK q : q = <<b, Len(lines[b].log) + 1>>
  OBVIOUS
<1>11. /\ p \in Placed' /\ q \in Placed' /\ p \notin Placed /\ q \notin Placed
       /\ EventOf(p)' = main /\ EventOf(q)' = note /\ Placed' = Placed \union {p, q}
       /\ \A o \in Placed : EventOf(o)' = EventOf(o)
  <2>1. Ends({s, b}) = {p, q}
    BY DEF Ends
  <2>2. events[p[1]] = main /\ events[q[1]] = note
    BY <1>7
  <2> QED
    BY <1>6, <2>1, <2>2 DEF Grows
<1>12. Linked'
  <2>1. PlaceOf(x.main) = p /\ PlaceOf(x.note) = q
    BY DEF PlaceOf, Following
  <2>2. PlaceOf(from) = <<b, from.at>>
    BY <1>2 DEF PlaceOf
  <2>3. LinkedRows(x)'
    <3>1. PlaceOf(x.main)' = p /\ PlaceOf(x.note)' = q
      BY <2>1 DEF PlaceOf
    <3>2. x.main = [line |-> x.main.line, at |-> x.main.at] /\ x.result = Id(r)
          /\ x.branch = b /\ x.main = Following(s)
      BY DEF Following
    <3>3. PlaceOf(main.from) \in Placed' /\ EventOf(PlaceOf(from))'.about = r.version
          /\ main.from.line = b
      BY <1>2, <1>4, <1>11, <2>2
    <3>4. x.result.version = r.version
      BY <3>2 DEF Id
    <3> QED
      BY <1>4, <1>5, <1>11, <2>1, <3>2, <3>3, <3>4 DEF LinkedRows, PlaceOf
  <2>4. ASSUME NEW m \in merges
        PROVE  LinkedRows(m)' /\ m.main # x.main
    <3>1. LinkedRows(m)
      BY <1>1 DEF Linked
    <3>2. LinkedRows(m)'
      BY <3>1, <1>11 DEF LinkedRows, PlaceOf
    <3>3. PlaceOf(m.main) \in Placed
      BY <3>1 DEF LinkedRows
    <3> QED
      BY <3>2, <3>3, <2>1, <1>11
  <2>5. Shown' = Shown \union {p}
    <3>1. Shown = {o \in Placed : o[1] \in Sessions /\ EventOf(o).type = "branch_result"}
      BY DEF Shown, EventOf
    <3>2. Shown' = {o \in Placed' : o[1] \in Sessions /\ EventOf(o)'.type = "branch_result"}
      BY DEF Shown, EventOf
    <3>3. p[1] = s /\ q[1] = b
      OBVIOUS
    <3>4. EventOf(p)'.type = "branch_result" /\ EventOf(q)'.type # "branch_result"
      BY <1>4, <1>5, <1>11
    <3>5. \A o \in Placed : EventOf(o)'.type = EventOf(o).type
      BY <1>11
    <3>6. Placed' = Placed \union {p, q} /\ p[1] \in Sessions
      BY <1>2, <1>11, <3>3
    <3> HIDE DEF EventOf
    <3> QED
      BY <3>1, <3>2, <3>4, <3>5, <3>6
  <2>6. ASSUME NEW o \in Shown'
        PROVE  \E m \in merges' : PlaceOf(m.main) = o
    <3>1. CASE o \in Shown
      BY <3>1, <1>1, <1>3 DEF Linked
    <3>2. CASE o = p
      BY <3>2, <1>3, <2>1
    <3> QED
      BY <3>1, <3>2, <2>5
  <2>7. \A m \in merges' : LinkedRows(m)'
    BY <1>3, <2>3, <2>4
  <2>8. \A m, o \in merges' : m.main = o.main => m = o
    BY <1>1, <1>3, <2>4 DEF Linked
  <2> QED
    BY <2>6, <2>7, <2>8 DEF Linked, PlaceOf
<1>13. ConversationInv'
  BY <1>6, <1>8, <1>9, <1>10, <1>12 DEF ConversationInv
<1>14. /\ Grows({s, r.branch}, Both(s, r.branch, main, note))
       /\ main.type = "branch_result" /\ main.about = Id(r)
       /\ note.type = "branch_result_published" /\ r.branch \in Branches
       /\ main.key = MergeKey(r, "main") /\ note.key = MergeKey(r, "branch")
  BY <1>2, <1>4, <1>5, <1>6
<1>15. \E s1 \in Sessions : \E m1, n1 :
         /\ Grows({s1, r.branch}, Both(s1, r.branch, m1, n1))
         /\ m1.type = "branch_result" /\ m1.about = Id(r)
         /\ n1.type = "branch_result_published" /\ r.branch \in Branches
         /\ m1.key = MergeKey(r, "main") /\ n1.key = MergeKey(r, "branch")
  BY <1>2, <1>14, Zenon
<1>16. /\ SessionOf(r.branch) \in Sessions /\ Writable(SessionOf(r.branch))
       /\ UNCHANGED <<sessions, results>>
  BY <1>2, <1>3
<1> QED
  BY <1>6, <1>13, <1>15, <1>16, Zenon

----------------------------------------------------------------------------
(* The invariant.                                                           *)

LEMMA NothingYet == ConversationAssumption /\ Init => ConversationInv
<1> SUFFICES ASSUME ConversationAssumption, Init PROVE ConversationInv
  OBVIOUS
<1>1. \A l \in Lines : lines[l] = NoLine
  BY DEF Init
<1>2. /\ NoLine.status = "absent" /\ NoLine.session = None /\ NoLine.log = <<>>
      /\ IsLine(NoLine)
  BY DEF NoLine, IsLine
<1>3. \A l \in Lines : ~Exists(l) /\ SessionOf(l) = None /\ lines[l].log = <<>>
  BY <1>1, <1>2 DEF Exists, SessionOf
<1>4. /\ MaxMain + MaxBranch \in Nat /\ None \notin Sessions /\ Len(<<>>) = 0
      /\ DOMAIN <<>> = {}
  BY EmptyLog DEF ConversationAssumption
<1>5. Standing
  <2>1. sessions \in SessionRows /\ \A s \in Sessions : sessions[s].status = "absent"
    BY DEF Init, SessionRows
  <2>2. DOMAIN lines = Lines /\ lines = [l \in Lines |-> lines[l]]
    BY DEF Init
  <2>3. \A l \in Lines : IsLine(lines[l]) /\ IsLog(lines[l].log)
                         /\ Len(lines[l].log) <= MaxMain + MaxBranch
    BY <1>1, <1>2, <1>4, EmptyLog
  <2>4. \A b \in Branches : ~Exists(b)
    BY <1>3 DEF Lines
  <2>5. \A s \in Sessions : lines[s].status = sessions[s].status /\ SessionOf(s) \in {None, s}
    BY <1>1, <1>2, <1>3, <2>1 DEF Lines
  <2> QED
    BY <1>3, <2>1, <2>2, <2>3, <2>4, <2>5 DEF Standing
<1>6. Placed = {}
  <2>1. \A p \in Lines \X (1..(MaxMain + MaxBranch)) : DOMAIN lines[p[1]].log = {}
    BY <1>3, <1>4
  <2> QED
    BY <2>1 DEF Placed
<1>7. Shown = {}
  BY <1>6 DEF Shown
<1>8. normalized = {} /\ results = {} /\ merges = {}
  BY DEF Init
<1>9. Keyed /\ Accepted /\ Numbered /\ Linked
  BY <1>6, <1>7, <1>8, FS_EmptySet DEF Keyed, Accepted, Numbered, Linked
<1> QED
  BY <1>5, <1>9 DEF ConversationInv

LEMMA AcceptKeeps ==
  ASSUME ConversationAssumption, ConversationInv, NEW x \in Sources, NEW k,
         NEW s \in Sessions, NEW place \in Places, NEW l \in Lines,
         AcceptNormalizedEvent(x, k, s, place, l)
  PROVE  /\ ConversationInv' /\ Carried /\ Grows({l}, One(l, Fact(x, k)))
         /\ SessionOf(l)' = s /\ sessions[s].status \in {"absent", "active"} /\ SourceNew(x)
         /\ sessions'[s].status = "active"
         /\ \A o \in Sessions \ {s} : sessions'[o] = sessions[o]
         /\ UNCHANGED results
<1>1. /\ SourceNew(x) /\ WithMainline(s)[l].session = s
      /\ WithSession(s, place)[s].status = "active"
      /\ ~HasKey(l, <<"normalized", k>>) /\ Len(WithMainline(s)[l].log) < Room(l)
      /\ sessions' = WithSession(s, place)
      /\ lines' = Extended(WithMainline(s), l, Fact(x, k))
      /\ normalized' = normalized \union
           {[source |-> x, key |-> k, session |-> s, at |-> Following(l)]}
      /\ UNCHANGED <<results, merges>>
  BY DEF AcceptNormalizedEvent, Unknown, SourceNew, Fact
<1> QED
  BY <1>1, FactTaken

LEMMA MemoryAcceptKeeps ==
  ASSUME ConversationAssumption, ConversationInv, NEW x \in Sources, NEW k,
         NEW s \in Sessions, NEW place \in Places, NEW l \in Lines,
         MemoryAcceptNormalizedEvent(x, k, s, place, l)
  PROVE  /\ ConversationInv'
         /\ \/ UNCHANGED <<sessions, lines, results>>
            \/ /\ Carried /\ Grows({l}, One(l, Fact(x, k)))
               /\ SessionOf(l)' = s /\ sessions[s].status \in {"absent", "active"} /\ SourceNew(x)
               /\ sessions'[s].status = "active"
               /\ \A o \in Sessions \ {s} : sessions'[o] = sessions[o]
               /\ UNCHANGED results
<1>1. CASE \E n \in normalized : SourceRepeated(n, x, k, s, l)
  <2>1. UNCHANGED <<sessions, lines, normalized, results, merges>>
    BY <1>1 DEF SourceRepeated
  <2> QED
    BY <2>1, RowsUnchanged
<1>2. CASE ~\E n \in normalized : SourceRepeated(n, x, k, s, l)
  <2> DEFINE written == WithSession(s, place)[s].status = "active"
  <2> PICK ls : ls = WithMainline(s)
    OBVIOUS
  <2>1. /\ SourceNew(x) /\ ls[l].session = s
        /\ ~HasKey(l, <<"normalized", k>>) /\ Len(ls[l].log) < Room(l)
        /\ sessions' = WithSession(s, place)
        /\ lines' = IF written THEN Extended(ls, l, Fact(x, k)) ELSE ls
        /\ normalized' = normalized \union
             {[source |-> x, key |-> k, session |-> s,
               at |-> IF written THEN Following(l) ELSE [line |-> l, at |-> 0]]}
        /\ UNCHANGED <<results, merges>>
    BY <1>2 DEF MemoryAcceptNormalizedEvent, Fact
  <2>2. CASE written
    <3>1. /\ WithMainline(s)[l].session = s /\ Len(WithMainline(s)[l].log) < Room(l)
          /\ lines' = Extended(WithMainline(s), l, Fact(x, k))
          /\ normalized' = normalized \union
               {[source |-> x, key |-> k, session |-> s, at |-> Following(l)]}
      BY <2>1, <2>2
    <3>2. /\ SourceNew(x) /\ ~HasKey(l, <<"normalized", k>>)
          /\ sessions' = WithSession(s, place) /\ UNCHANGED <<results, merges>>
      BY <2>1
    <3>3. /\ ConversationInv' /\ Carried /\ Grows({l}, One(l, Fact(x, k)))
          /\ SessionOf(l)' = s /\ sessions[s].status \in {"absent", "active"}
          /\ sessions'[s].status = "active"
          /\ \A o \in Sessions \ {s} : sessions'[o] = sessions[o]
      BY <2>2, <3>1, <3>2, FactTaken
    <3> QED
      BY <3>2, <3>3
  <2>3. CASE ~written
    <3>1. sessions[s].status # "absent"
      BY <2>3 DEF WithSession, ConversationInv, Standing, SessionRows
    <3>2. UNCHANGED <<sessions, lines, results, merges>>
      BY <2>1, <2>3, <3>1 DEF WithSession, WithMainline
    <3> PICK row : row = [source |-> x, key |-> k, session |-> s, at |-> [line |-> l, at |-> 0]]
      OBVIOUS
    <3>3. row.source = x /\ normalized' = normalized \union {row}
      BY <2>1, <2>3
    <3> QED
      BY <2>1, <3>2, <3>3, FactRefused
  <2> QED
    BY <2>2, <2>3
<1> QED
  BY <1>1, <1>2

LEMMA MemoryResultKeeps ==
  ASSUME ConversationAssumption, ConversationInv, NEW b \in Branches, NEW k, NEW status,
         MemoryCreateBranchResult(b, k, status), ~CreateBranchResult(b, k, status)
  PROVE  /\ ConversationInv' /\ UNCHANGED <<sessions, lines>>
         /\ \E row : /\ results' = results \union {row} /\ row.branch = b
                     /\ row.version = Cardinality(ResultsOf(b)) + 1
                     /\ Cardinality(ResultsOf(b)) < MaxResults
<1> PICK row : row = [branch |-> b, version |-> Cardinality(ResultsOf(b)) + 1,
                      status |-> status, key |-> k]
  OBVIOUS
<1>1. /\ Exists(b) /\ Cardinality(ResultsOf(b)) < MaxResults /\ ~Writable(SessionOf(b))
      /\ results' = results \union {row}
      /\ UNCHANGED <<sessions, lines, normalized, merges>>
      /\ row.branch = b /\ row.version = Cardinality(ResultsOf(b)) + 1
  BY DEF MemoryCreateBranchResult
<1>2. ConversationInv'
  BY <1>1, ResultRefused
<1> QED
  BY <1>1, <1>2

LEMMA SqliteKeeps ==
  ASSUME ConversationAssumption, ConversationInv, SqliteNext
  PROVE  ConversationInv'
<1>1. ASSUME NEW s \in Sessions, NEW place \in Places, CreateSession(s, place)
      PROVE  ConversationInv'
  <2>1. MemoryCreateSession(s, place)
    BY <1>1 DEF CreateSession, MemoryCreateSession
  <2> QED
    BY <2>1, SessionCreatedKeeps
<1>2. ASSUME NEW x \in Sources, NEW k \in Keys.accept, NEW s \in Sessions,
             NEW place \in Places, NEW l \in Lines, AcceptNormalizedEvent(x, k, s, place, l)
      PROVE  ConversationInv'
  BY <1>2, AcceptKeeps
<1>3. ASSUME NEW s \in Sessions, NEW k \in Keys.session, TransitionSession(s, k)
      PROVE  ConversationInv'
  BY <1>3, SessionArchived
<1>4. ASSUME NEW b \in Branches, NEW s \in Sessions, NEW k \in Keys.branch, NEW n \in 1..MaxMain,
             CreateBranch(b, s, k, n)
      PROVE  ConversationInv'
  BY <1>4, BranchCreated
<1>5. ASSUME NEW b \in Branches, NEW k \in Keys.status, NEW to \in Asked,
             TransitionBranch(b, k, to)
      PROVE  ConversationInv'
  BY <1>5, BranchMoved
<1>6. ASSUME NEW l \in Lines, NEW k \in Keys.note, AppendEvent(l, k)
      PROVE  ConversationInv'
  BY <1>6, EventAppended
<1>7. ASSUME NEW b \in Branches, NEW k \in Keys.result, NEW status \in Asked \cap ResultStatuses,
             CreateBranchResult(b, k, status)
      PROVE  ConversationInv'
  BY <1>7, ResultWritten
<1>8. ASSUME NEW r \in results, NEW k \in PublishKeys(r), PublishBranchResult(r, k)
      PROVE  ConversationInv'
  BY <1>8, Publication
<1> QED
  BY <1>1, <1>2, <1>3, <1>4, <1>5, <1>6, <1>7, <1>8 DEF SqliteNext

LEMMA MemoryKeeps ==
  ASSUME ConversationAssumption, ConversationInv, MemoryNext
  PROVE  ConversationInv'
<1>1. ASSUME NEW s \in Sessions, NEW place \in Places, MemoryCreateSession(s, place)
      PROVE  ConversationInv'
  BY <1>1, SessionCreatedKeeps
<1>2. ASSUME NEW x \in Sources, NEW k \in Keys.accept, NEW s \in Sessions,
             NEW place \in Places, NEW l \in Lines, MemoryAcceptNormalizedEvent(x, k, s, place, l)
      PROVE  ConversationInv'
  BY <1>2, MemoryAcceptKeeps
<1>3. ASSUME NEW s \in Sessions, NEW k \in Keys.session, MemoryTransitionSession(s, k)
      PROVE  ConversationInv'
  BY <1>3, SessionArchived DEF MemoryTransitionSession
<1>4. ASSUME NEW b \in Branches, NEW s \in Sessions, NEW k \in Keys.branch, NEW n \in 1..MaxMain,
             MemoryCreateBranch(b, s, k, n)
      PROVE  ConversationInv'
  BY <1>4, BranchCreated DEF MemoryCreateBranch
<1>5. ASSUME NEW b \in Branches, NEW k \in Keys.status, NEW to \in Asked,
             MemoryTransitionBranch(b, k, to)
      PROVE  ConversationInv'
  BY <1>5, BranchMoved DEF MemoryTransitionBranch
<1>6. ASSUME NEW l \in Lines, NEW k \in Keys.note, MemoryAppendEvent(l, k)
      PROVE  ConversationInv'
  BY <1>6, EventAppended DEF MemoryAppendEvent
<1>7. ASSUME NEW b \in Branches, NEW k \in Keys.result, NEW status \in Asked \cap ResultStatuses,
             MemoryCreateBranchResult(b, k, status)
      PROVE  ConversationInv'
  <2>1. CASE CreateBranchResult(b, k, status)
    BY <2>1, ResultWritten
  <2>2. CASE ~CreateBranchResult(b, k, status)
    BY <1>7, <2>2, MemoryResultKeeps
  <2> QED
    BY <2>1, <2>2
<1>8. ASSUME NEW r \in results, NEW k \in PublishKeys(r), MemoryPublishBranchResult(r, k)
      PROVE  ConversationInv'
  <2>1. CASE PublishBranchResult(r, k)
    BY <2>1, Publication
  <2>2. CASE ~PublishBranchResult(r, k)
    <3>1. UNCHANGED <<sessions, lines, normalized, results, merges>>
      BY <1>8, <2>2 DEF MemoryPublishBranchResult
    <3> QED
      BY <3>1, RowsUnchanged
  <2> QED
    BY <2>1, <2>2
<1> QED
  BY <1>1, <1>2, <1>3, <1>4, <1>5, <1>6, <1>7, <1>8 DEF MemoryNext

\* Whatever requests either store serves, keys, facts, results and publications
\* stay what the rows say of them.
THEOREM ConversationInvHolds == Spec => []ConversationInv
<1> USE ConversationAssumption
<1>1. Init => ConversationInv
  BY NothingYet
<1>2. ConversationInv /\ [Next]_vars => ConversationInv'
  <2> SUFFICES ASSUME ConversationInv, [Next]_vars PROVE ConversationInv'
    OBVIOUS
  <2>1. CASE Next
    BY <2>1, SqliteKeeps, MemoryKeeps DEF Next
  <2>2. CASE UNCHANGED vars
    BY <2>2, RowsUnchanged DEF vars
  <2> QED
    BY <2>1, <2>2
<1> QED
  BY <1>1, <1>2, PTL DEF Spec

LEMMA PublicationsOfInv == ConversationAssumption /\ ConversationInv => PublicationsLinked
<1> SUFFICES ASSUME ConversationAssumption, ConversationInv PROVE PublicationsLinked
  OBVIOUS
<1>1. ASSUME NEW m \in merges
      PROVE  LET shown == lines[m.main.line].log[m.main.at]
                 note == lines[m.note.line].log[m.note.at]
             IN  /\ shown.type = "branch_result" /\ shown.about = m.result
                 /\ note.type = "branch_result_published" /\ note.cause = m.main
                 /\ shown.from = note.from /\ shown.from.line = m.branch
                 /\ lines[m.branch].log[shown.from.at].about = m.result.version
  <2>1. LinkedRows(m)
    BY DEF ConversationInv, Linked
  <2> QED
    BY <2>1 DEF LinkedRows, EventOf, PlaceOf
<1>2. ASSUME NEW p \in Shown
      PROVE  Cardinality({m \in merges : m.main = [line |-> p[1], at |-> p[2]]}) = 1
  <2>1. PICK m \in merges : PlaceOf(m.main) = p
    BY DEF ConversationInv, Linked
  <2>2. m.main = [line |-> p[1], at |-> p[2]]
    BY <2>1 DEF ConversationInv, Linked, LinkedRows, PlaceOf
  <2>3. {o \in merges : o.main = [line |-> p[1], at |-> p[2]]} = {m}
    BY <2>2 DEF ConversationInv, Linked
  <2> QED
    BY <2>3, FS_Singleton
<1> QED
  BY <1>1, <1>2 DEF PublicationsLinked

LEMMA RecoveryOfInv == ConversationInv => RecoveryComplete
<1> SUFFICES ASSUME ConversationInv, NEW s \in Sessions, NEW r \in results,
                    SessionOf(r.branch) = s
             PROVE  r \in UnmergedResults(s) <=>
                      /\ HasKey(r.branch, ResultKey(r.version)) /\ ~Merged(r) /\ Writable(s)
                      /\ r.status = "completed"
                      /\ lines[r.branch].status \notin {"failed", "cancelled"}
  BY DEF RecoveryComplete
<1>1. Writable(s) => HasKey(r.branch, ResultKey(r.version))
  BY DEF ConversationInv, Numbered
<1> QED
  BY <1>1 DEF UnmergedResults, Writable

\* Every publication is linked on both lines, every result on a mainline has one,
\* and what a restart lists as unmerged is what publishBranchResult accepts, but
\* for the branches and results that failed or were cancelled: for any number of
\* sessions, branches and requests (getBranchResultTrace, getRecoveryState).
THEOREM PublicationsSoundHolds == Spec => []PublicationsSound
<1>1. ConversationInv => PublicationsSound
  BY ConversationAssumption, PublicationsOfInv, RecoveryOfInv DEF PublicationsSound
<1> QED
  BY <1>1, ConversationInvHolds, PTL

----------------------------------------------------------------------------
(* The contract.                                                            *)

LEMMA TakenSame ==
  ASSUME ConversationAssumption, Standing, Carried, NEW x, FactsOf(x)' = FactsOf(x)
  PROVE  TakenBy(x)' = TakenBy(x)
<1> PICK facts : facts = FactsOf(x)
  OBVIOUS
<1>1. CASE facts = {}
  BY <1>1 DEF TakenBy
<1>2. CASE facts # {}
  <2> PICK f : f = CHOOSE p \in facts : TRUE
    OBVIOUS
  <2>1. f \in facts
    BY <1>2
  <2>2. f \in Placed
    BY <2>1 DEF FactsOf
  <2>3. SessionOf(f[1])' = SessionOf(f[1])
    BY <2>2, PlaceFacts DEF Carried
  <2>4. TakenBy(x) = IF Cardinality(facts) > 1 THEN "twice" ELSE SessionOf(f[1])
    BY <1>2 DEF TakenBy
  <2>5. TakenBy(x)' = IF Cardinality(facts) > 1 THEN "twice" ELSE SessionOf(f[1])'
    BY <1>2 DEF TakenBy
  <2> QED
    BY <2>3, <2>4, <2>5
<1> QED
  BY <1>1, <1>2

LEMMA NoFacts == ASSUME NEW x, FactsOf(x) = {} PROVE TakenBy(x) = "nobody"
<1>1. ~(Cardinality({}) > 1)
  BY FS_EmptySet
<1> QED
  BY <1>1 DEF TakenBy

LEMMA OneMember == \A p : Cardinality({p}) = 1 /\ (CHOOSE f \in {p} : TRUE) = p
BY FS_Singleton

LEMMA FactsAre ==
  ASSUME NEW x
  PROVE  /\ FactsOf(x) = {p \in Placed : EventOf(p).type = "user_message" /\ EventOf(p).about = x}
         /\ FactsOf(x)' = {p \in Placed' : EventOf(p)'.type = "user_message"
                                           /\ EventOf(p)'.about = x}
BY DEF FactsOf, EventOf

LEMMA TakenKept ==
  ASSUME ConversationAssumption, Standing, Carried,
         NEW W \in SUBSET Lines, NEW events, Grows(W, events),
         \A l \in W : events[l].type # "user_message"
  PROVE  \A x : TakenBy(x)' = TakenBy(x)
<1> SUFFICES ASSUME NEW x PROVE TakenBy(x)' = TakenBy(x)
  OBVIOUS
<1>1. \A p \in Ends(W) : EventOf(p)'.type # "user_message"
  <2> SUFFICES ASSUME NEW p \in Ends(W) PROVE EventOf(p)'.type # "user_message"
    OBVIOUS
  <2>1. p[1] \in W /\ EventOf(p)' = events[p[1]]
    BY DEF Ends, Grows
  <2> QED
    BY <2>1
<1>2. Placed' = Placed \union Ends(W) /\ \A p \in Placed : EventOf(p)' = EventOf(p)
  BY DEF Grows
<1>3. FactsOf(x)' = FactsOf(x)
  BY <1>1, <1>2, FactsAre
<1> QED
  BY <1>3, TakenSame

LEMMA FactStands ==
  ASSUME ConversationAssumption, ConversationInv, Carried, NEW x, NEW k, NEW l \in Lines,
         SourceNew(x), Grows({l}, One(l, Fact(x, k)))
  PROVE  /\ TakenBy(x) = "nobody" /\ TakenBy(x)' = SessionOf(l)'
         /\ \A y : y # x => TakenBy(y)' = TakenBy(y)
<1> PICK p : p = <<l, Len(lines[l].log) + 1>>
  OBVIOUS
<1> PICK e : e = Fact(x, k)
  OBVIOUS
<1>1. e.type = "user_message" /\ e.about = x
  BY DEF Fact, Event
<1>2. /\ Placed' = Placed \union {p} /\ p \notin Placed /\ p[1] = l
      /\ \A q \in Placed : EventOf(q)' = EventOf(q)
  BY DEF Grows, Ends
<1>3. EventOf(p)' = e
  BY DEF Grows, Ends, One
<1>4. FactsOf(x) = {}
  <2> SUFFICES ASSUME NEW q \in FactsOf(x) PROVE FALSE
    OBVIOUS
  <2>1. q \in Placed /\ EventOf(q).type = "user_message" /\ EventOf(q).about = x
    BY FactsAre
  <2>2. PICK n \in normalized : n.source = x
    BY <2>1 DEF ConversationInv, Accepted
  <2> QED
    BY <2>2 DEF SourceNew
<1>5. FactsOf(x)' = {p}
  BY <1>1, <1>2, <1>3, <1>4, FactsAre
<1>6. TakenBy(x) = "nobody"
  BY <1>4, NoFacts
<1>7. TakenBy(x)' = SessionOf(l)'
  <2>1. Cardinality({p}) = 1
    BY OneMember
  <2>2. (CHOOSE f \in {p} : TRUE) = p
    BY OneMember
  <2>3. TakenBy(x)' = SessionOf((CHOOSE f \in {p} : TRUE)[1])'
    <3>1. ~(1 > 1) /\ {p} # {}
      OBVIOUS
    <3> QED
      BY <1>5, <2>1, <3>1 DEF TakenBy
  <2> QED
    BY <1>2, <2>2, <2>3
<1>8. ASSUME NEW y, y # x
      PROVE  TakenBy(y)' = TakenBy(y)
  <2>1. /\ FactsOf(y) = {q \in Placed : EventOf(q).type = "user_message" /\ EventOf(q).about = y}
        /\ FactsOf(y)' = {q \in Placed' : EventOf(q)'.type = "user_message"
                                          /\ EventOf(q)'.about = y}
    BY FactsAre
  <2>2. EventOf(p)'.about # y
    BY <1>1, <1>3, <1>8
  <2>3. FactsOf(y)' = FactsOf(y)
    BY <1>2, <2>1, <2>2
  <2> QED
    BY <2>3, TakenSame DEF ConversationInv
<1> QED
  BY <1>6, <1>7, <1>8

LEMMA WorkOf ==
  ASSUME ConversationInv, NEW w \in Works
  PROVE  /\ w.branch \in Branches /\ w.branch \in Lines /\ w.version \in 1..MaxResults
         /\ \A r \in results : Id(r) = w => /\ Exists(w.branch) /\ r.branch = w.branch
                                            /\ r.version = w.version
BY DEF Works, Id, ConversationInv, Numbered, Lines

LEMMA FinishedKept ==
  ASSUME ConversationAssumption, ConversationInv, Carried, results' = results,
         NEW W \in SUBSET Lines, NEW events, Grows(W, events),
         \A l \in W : \A v : events[l].key # ResultKey(v)
  PROVE  \A w \in Works : FinishedIn(w)' = FinishedIn(w)
<1> SUFFICES ASSUME NEW w \in Works PROVE FinishedIn(w)' = FinishedIn(w)
  OBVIOUS
<1>1. HasKey(w.branch, ResultKey(w.version))' <=> HasKey(w.branch, ResultKey(w.version))
  BY WorkOf DEF Grows, ResultKey
<1>2. CASE \E r \in results : Id(r) = w
  <2>1. SessionOf(w.branch)' = SessionOf(w.branch)
    BY <1>2, WorkOf DEF Carried
  <2> QED
    BY <1>1, <2>1 DEF FinishedIn, Id
<1>3. CASE ~\E r \in results : Id(r) = w
  BY <1>3 DEF FinishedIn, Id
<1> QED
  BY <1>2, <1>3

LEMMA ShownKept ==
  ASSUME NEW W \in SUBSET Lines, NEW events, Grows(W, events),
         \A l \in W : ~(l \in Sessions /\ events[l].type = "branch_result")
  PROVE  PublishedWorks' = PublishedWorks
<1>1. \A p \in Placed : EventOf(p)' = EventOf(p)
  BY DEF Grows
<1>2. ASSUME NEW p \in Ends(W)
      PROVE  ~(p[1] \in Sessions /\ EventOf(p)'.type = "branch_result")
  <2>1. p[1] \in W /\ EventOf(p)' = events[p[1]]
    BY DEF Ends, Grows
  <2> QED
    BY <2>1
<1>3. Shown = {p \in Placed : p[1] \in Sessions /\ EventOf(p).type = "branch_result"}
  BY DEF Shown, EventOf
<1>4. Shown' = {p \in Placed' : p[1] \in Sessions /\ EventOf(p)'.type = "branch_result"}
  BY DEF Shown, EventOf
<1>5. Shown' = Shown
  BY <1>1, <1>2, <1>3, <1>4 DEF Grows
<1>6. \A p \in Shown : EventOf(p)'.about = EventOf(p).about
  BY <1>1, <1>3
<1> QED
  BY <1>5, <1>6 DEF PublishedWorks, EventOf

\* A step that the contract does not see.
LEMMA Unseen ==
  ASSUME \A x \in Sources : TakenBy(x)' = TakenBy(x),
         \A w \in Works : FinishedIn(w)' = FinishedIn(w),
         PublishedWorks' = PublishedWorks,
         \A s \in Sessions : StandingOf(s)' = StandingOf(s)
  PROVE  UNCHANGED Contract!vars
BY DEF Contract!vars

LEMMA StandingStays ==
  ASSUME NEW s, sessions'[s].status = sessions[s].status
  PROVE  StandingOf(s)' = StandingOf(s)
BY DEF StandingOf

LEMMA NothingPromised == ConversationAssumption /\ Init => Contract!Init
<1> SUFFICES ASSUME ConversationAssumption, Init PROVE Contract!Init
  OBVIOUS
<1>1. \A l \in Lines : lines[l].log = <<>> /\ DOMAIN lines[l].log = {}
  BY EmptyLog DEF Init, NoLine
<1>2. Placed = {}
  BY <1>1 DEF Placed
<1>3. \A x : TakenBy(x) = "nobody"
  BY <1>2, NoFacts DEF FactsOf
<1>4. \A w : FinishedIn(w) = "nobody"
  BY DEF FinishedIn, Init
<1>5. PublishedWorks = {}
  BY <1>2 DEF PublishedWorks, Shown
<1>6. \A s \in Sessions : StandingOf(s) = "unborn"
  BY DEF StandingOf, Init
<1> QED
  BY <1>3, <1>4, <1>5, <1>6 DEF Contract!Init

LEMMA SessionOpens ==
  ASSUME ConversationAssumption, ConversationInv, NEW s \in Sessions, NEW place \in Places,
         MemoryCreateSession(s, place)
  PROVE  Contract!Next
<1>1. /\ Carried /\ Grows({}, [l \in {} |-> l]) /\ Standing
      /\ sessions'[s].status = "active" /\ sessions[s].status = "absent"
      /\ \A o \in Sessions \ {s} : sessions'[o] = sessions[o]
      /\ results' = results
  BY SessionCreated DEF MemoryCreateSession, ConversationInv
<1>2. \A x : TakenBy(x)' = TakenBy(x)
  BY <1>1, TakenKept
<1>3. \A w \in Works : FinishedIn(w)' = FinishedIn(w)
  BY <1>1, FinishedKept
<1>4. PublishedWorks' = PublishedWorks
  BY <1>1, ShownKept
<1>5. StandingOf(s) = "unborn" /\ StandingOf(s)' = "open"
      /\ \A o \in Sessions \ {s} : StandingOf(o)' = StandingOf(o)
  BY <1>1, StandingStays DEF StandingOf
<1>6. Contract!Open(s)
  BY <1>2, <1>3, <1>4, <1>5 DEF Contract!Open
<1> QED
  BY <1>6 DEF Contract!Next

LEMMA FactIsTaken ==
  ASSUME ConversationAssumption, ConversationInv, NEW x \in Sources, NEW k,
         NEW s \in Sessions, NEW l \in Lines,
         Carried, Grows({l}, One(l, Fact(x, k))), SourceNew(x),
         SessionOf(l)' = s, sessions[s].status \in {"absent", "active"},
         sessions'[s].status = "active",
         \A o \in Sessions \ {s} : sessions'[o] = sessions[o],
         UNCHANGED results
  PROVE  Contract!Next
<1>1. /\ TakenBy(x) = "nobody" /\ TakenBy(x)' = s
      /\ \A y : y # x => TakenBy(y)' = TakenBy(y)
  BY FactStands
<1>2. \A m \in {l} : One(l, Fact(x, k))[m].type # "branch_result"
                     /\ \A v : One(l, Fact(x, k))[m].key # ResultKey(v)
  BY KeyKinds DEF One, Fact, Event
<1>3. \A w \in Works : FinishedIn(w)' = FinishedIn(w)
  BY <1>2, FinishedKept
<1>4. PublishedWorks' = PublishedWorks
  BY <1>2, ShownKept
<1>5. /\ StandingOf(s) # "closed" /\ StandingOf(s)' = "open"
      /\ \A o \in Sessions \ {s} : StandingOf(o)' = StandingOf(o)
  BY StandingStays DEF StandingOf
<1>6. Contract!Take(x, s)
  BY <1>1, <1>3, <1>4, <1>5 DEF Contract!Take
<1> QED
  BY <1>6 DEF Contract!Next

LEMMA SessionCloses ==
  ASSUME ConversationAssumption, ConversationInv, NEW s \in Sessions, NEW k,
         TransitionSession(s, k)
  PROVE  Contract!Next
<1> PICK e : e = Event("session_status_changed", <<"session", k>>, "archived", NoEvent, NoEvent)
  OBVIOUS
<1>1. Carried /\ Grows({s}, One(s, e)) /\ {s} \in SUBSET Lines /\ Standing
  BY SessionArchived DEF Lines, ConversationInv
<1>2. \A m \in {s} : /\ One(s, e)[m].type \notin {"branch_result", "user_message"}
                     /\ \A v : One(s, e)[m].key # ResultKey(v)
  BY KeyKinds DEF One, Event
<1>3. /\ sessions[s].status = "active" /\ sessions'[s].status = "archived"
      /\ \A o \in Sessions \ {s} : sessions'[o] = sessions[o]
      /\ results' = results
  BY DEF TransitionSession, ConversationInv, Standing, SessionRows
<1>4. \A x : TakenBy(x)' = TakenBy(x)
  BY <1>1, <1>2, TakenKept
<1>5. \A w \in Works : FinishedIn(w)' = FinishedIn(w)
  BY <1>1, <1>2, <1>3, FinishedKept
<1>6. PublishedWorks' = PublishedWorks
  BY <1>1, <1>2, ShownKept
<1>7. /\ StandingOf(s) = "open" /\ StandingOf(s)' = "closed"
      /\ \A o \in Sessions \ {s} : StandingOf(o)' = StandingOf(o)
  BY <1>3, StandingStays DEF StandingOf
<1>8. Contract!Close(s)
  BY <1>4, <1>5, <1>6, <1>7 DEF Contract!Close
<1> QED
  BY <1>8 DEF Contract!Next

\* Branches, their status and plain events are not part of the contract.
LEMMA NoteUnseen ==
  ASSUME ConversationAssumption, ConversationInv, NEW l \in Lines, NEW e,
         Carried, Grows({l}, One(l, e)), e.type \notin {"branch_result", "user_message"},
         \A v : e.key # ResultKey(v), UNCHANGED <<sessions, results>>
  PROVE  UNCHANGED Contract!vars
<1>1. \A m \in {l} : /\ One(l, e)[m].type \notin {"branch_result", "user_message"}
                     /\ \A v : One(l, e)[m].key # ResultKey(v)
  BY DEF One
<1>2. \A x \in Sources : TakenBy(x)' = TakenBy(x)
  BY <1>1, TakenKept DEF ConversationInv
<1>3. \A w \in Works : FinishedIn(w)' = FinishedIn(w)
  BY <1>1, FinishedKept
<1>4. PublishedWorks' = PublishedWorks
  BY <1>1, ShownKept
<1>5. \A s \in Sessions : StandingOf(s)' = StandingOf(s)
  BY StandingStays
<1> QED
  BY <1>2, <1>3, <1>4, <1>5, Unseen

LEMMA LinesUnseen ==
  ASSUME UNCHANGED <<sessions, lines, results>>
  PROVE  UNCHANGED Contract!vars
<1>1. Placed' = Placed
  BY DEF Placed
<1>2. \A x \in Sources : TakenBy(x)' = TakenBy(x)
  BY <1>1 DEF TakenBy, FactsOf, SessionOf
<1>3. \A w \in Works : FinishedIn(w)' = FinishedIn(w)
  BY DEF FinishedIn, HasKey, SessionOf, Id, ResultKey
<1>4. PublishedWorks' = PublishedWorks
  BY <1>1 DEF PublishedWorks, Shown
<1>5. \A s \in Sessions : StandingOf(s)' = StandingOf(s)
  BY StandingStays
<1> QED
  BY <1>2, <1>3, <1>4, <1>5, Unseen

LEMMA ResultFinishes ==
  ASSUME ConversationAssumption, ConversationInv, NEW b \in Branches, NEW k, NEW status,
         CreateBranchResult(b, k, status)
  PROVE  Contract!Next
<1>1. PICK e, row : /\ Grows({b}, One(b, e)) /\ e.type = "branch_result"
                    /\ e.key = ResultKey(row.version)
                    /\ row.branch = b /\ row.version = Cardinality(ResultsOf(b)) + 1
                    /\ results' = results \union {row}
  BY ResultWritten
<1> PICK s : s = SessionOf(b)
  OBVIOUS
<1>2. /\ Carried /\ Standing /\ Numbered /\ b \in Lines /\ b \notin Sessions
      /\ {b} \in SUBSET Lines
  <2>1. Carried
    BY ResultWritten
  <2> QED
    BY <2>1 DEF ConversationInv, Lines, ConversationAssumption
<1>3. /\ Exists(b) /\ Writable(s) /\ Cardinality(ResultsOf(b)) < MaxResults
      /\ sessions' = sessions
  BY DEF CreateBranchResult, Appendable
<1>4. s \in Sessions /\ SessionOf(b)' = s
  BY <1>2, <1>3, LineOfSession DEF Carried
<1> PICK w : w = [branch |-> b, version |-> row.version]
  OBVIOUS
<1>5. w \in Works /\ Id(row) = w /\ \A r \in results : Id(r) # w
  BY <1>1, <1>2, <1>3, NextVersion DEF Works, Id
<1>6. One(b, e)[b].key = ResultKey(row.version) /\ One(b, e)[b].type = "branch_result"
  BY <1>1 DEF One
<1>7. FinishedIn(w) = "nobody"
  BY <1>5 DEF FinishedIn
<1>8. FinishedIn(w)' = s
  <2>1. HasKey(b, ResultKey(row.version))'
    BY <1>1, <1>2, <1>6 DEF Grows
  <2>2. row \in results' /\ Id(row)' = w
    BY <1>1, <1>5 DEF Id
  <2>3. HasKey(w.branch, ResultKey(w.version))' /\ SessionOf(w.branch)' = s
    BY <2>1, <1>4
  <2> QED
    BY <2>2, <2>3 DEF FinishedIn
<1>9. ASSUME NEW o \in Works, o # w
      PROVE  FinishedIn(o)' = FinishedIn(o)
  <2>1. o = [branch |-> o.branch, version |-> o.version] /\ o.branch \in Lines
    BY WorkOf DEF Works
  <2>2. ~(o.branch = b /\ o.version = row.version)
    BY <2>1, <1>9
  <2>3. HasKey(o.branch, ResultKey(o.version))' <=> HasKey(o.branch, ResultKey(o.version))
    <3>1. HasKey(o.branch, ResultKey(o.version))'
            <=> \/ HasKey(o.branch, ResultKey(o.version))
                \/ o.branch \in {b} /\ One(b, e)[o.branch].key = ResultKey(o.version)
      BY <1>1, <2>1 DEF Grows, ResultKey
    <3> QED
      BY <1>6, <2>2, <3>1, KeyKinds
  <2>4. (\E r \in results' : Id(r)' = o) <=> (\E r \in results : Id(r) = o)
    BY <1>1, <1>5, <1>9 DEF Id
  <2>5. CASE \E r \in results : Id(r) = o
    <3>1. SessionOf(o.branch)' = SessionOf(o.branch)
      BY <1>2, <2>5, WorkOf DEF Carried
    <3> QED
      BY <2>3, <2>4, <3>1 DEF FinishedIn
  <2>6. CASE ~\E r \in results : Id(r) = o
    BY <2>4, <2>6 DEF FinishedIn
  <2> QED
    BY <2>5, <2>6
<1>10. \A m \in {b} : One(b, e)[m].type # "user_message" /\ m \notin Sessions
  BY <1>2, <1>6
<1>11. \A x : TakenBy(x)' = TakenBy(x)
  BY <1>1, <1>2, <1>10, TakenKept
<1>12. PublishedWorks' = PublishedWorks
  BY <1>1, <1>2, <1>10, ShownKept
<1>13. \A o \in Sessions : StandingOf(o)' = StandingOf(o)
  BY <1>3, StandingStays
<1>14. StandingOf(s) = "open"
  BY <1>3 DEF Writable, StandingOf
<1>15. Contract!Finish(w, s)
  BY <1>4, <1>5, <1>7, <1>8, <1>9, <1>11, <1>12, <1>13, <1>14 DEF Contract!Finish
<1> QED
  BY <1>4, <1>5, <1>15 DEF Contract!Next

LEMMA RefusedUnseen ==
  ASSUME ConversationAssumption, ConversationInv, NEW b \in Branches, NEW row,
         UNCHANGED <<sessions, lines>>, results' = results \union {row}, row.branch = b,
         row.version = Cardinality(ResultsOf(b)) + 1, Cardinality(ResultsOf(b)) < MaxResults
  PROVE  UNCHANGED Contract!vars
<1>1. Placed' = Placed
  BY DEF Placed
<1>2. \A x \in Sources : TakenBy(x)' = TakenBy(x)
  BY <1>1 DEF TakenBy, FactsOf, SessionOf
<1>3. /\ row.version \in 1..MaxResults /\ \A r \in results : Id(r) # Id(row)
  BY NextVersion DEF ConversationInv
<1>4. ~HasKey(b, ResultKey(row.version))
  <2> SUFFICES ASSUME HasKey(b, ResultKey(row.version)) PROVE FALSE
    OBVIOUS
  <2>1. b \in Lines
    BY DEF Lines
  <2>2. PICK p \in Placed : p[1] = b /\ EventOf(p).key = ResultKey(row.version)
    BY <2>1, KeyPlaced DEF ConversationInv
  <2>3. \E r \in results : Id(r) = [branch |-> b, version |-> row.version]
    BY <1>3, <2>2 DEF ConversationInv, Keyed
  <2> QED
    BY <1>3, <2>3 DEF Id
<1>5. ASSUME NEW w \in Works
      PROVE  FinishedIn(w)' = FinishedIn(w)
  <2>1. HasKey(w.branch, ResultKey(w.version))' <=> HasKey(w.branch, ResultKey(w.version))
    BY DEF HasKey, ResultKey
  <2>2. SessionOf(w.branch)' = SessionOf(w.branch)
    BY DEF SessionOf
  <2>3. CASE Id(row) = w
    <3>1. ~HasKey(w.branch, ResultKey(w.version))
      BY <1>4, <2>3 DEF Id
    <3> QED
      BY <2>1, <3>1 DEF FinishedIn
  <2>4. CASE Id(row) # w
    BY <2>1, <2>2, <2>4 DEF FinishedIn, Id
  <2> QED
    BY <2>3, <2>4
<1>6. PublishedWorks' = PublishedWorks
  BY <1>1 DEF PublishedWorks, Shown
<1>7. \A s \in Sessions : StandingOf(s)' = StandingOf(s)
  BY StandingStays
<1> QED
  BY <1>2, <1>5, <1>6, <1>7, Unseen

LEMMA ResultPublished ==
  ASSUME ConversationAssumption, ConversationInv, NEW r \in results, NEW k,
         PublishBranchResult(r, k)
  PROVE  Contract!Next
<1> PICK b : b = r.branch
  OBVIOUS
<1>1. \E s \in Sessions : \E main, note :
        /\ Grows({s, r.branch}, Both(s, r.branch, main, note))
        /\ main.type = "branch_result" /\ main.about = Id(r)
        /\ note.type = "branch_result_published" /\ r.branch \in Branches
        /\ main.key = MergeKey(r, "main") /\ note.key = MergeKey(r, "branch")
  BY Publication, Zenon
<1>2. PICK s \in Sessions : \E main, note :
        /\ Grows({s, b}, Both(s, b, main, note))
        /\ main.type = "branch_result" /\ main.about = Id(r)
        /\ note.type = "branch_result_published" /\ b \in Branches
        /\ main.key = MergeKey(r, "main") /\ note.key = MergeKey(r, "branch")
  BY <1>1
<1> PICK main, note :
        /\ Grows({s, b}, Both(s, b, main, note))
        /\ main.type = "branch_result" /\ main.about = Id(r)
        /\ note.type = "branch_result_published" /\ b \in Branches
        /\ main.key = MergeKey(r, "main") /\ note.key = MergeKey(r, "branch")
  BY <1>2
<1>3. /\ Carried /\ Standing /\ sessions' = sessions /\ results' = results
      /\ SessionOf(b) \in Sessions /\ Writable(SessionOf(b))
  BY Publication DEF ConversationInv
<1>4. s \in Lines /\ b \in Lines /\ s # b /\ b \notin Sessions /\ {s, b} \in SUBSET Lines
  BY <1>2 DEF Lines, ConversationAssumption
<1> PICK events : events = Both(s, b, main, note)
  OBVIOUS
<1>5. events[s] = main /\ events[b] = note
  BY <1>4 DEF Both
<1>6. \A x : TakenBy(x)' = TakenBy(x)
  BY <1>2, <1>3, <1>4, <1>5, TakenKept
<1>7. \A w \in Works : FinishedIn(w)' = FinishedIn(w)
  <2>1. \A l \in {s, b} : \A v : events[l].key # ResultKey(v)
    BY <1>2, <1>5, KeyKinds
  <2> QED
    BY <1>2, <1>3, <1>4, <2>1, FinishedKept
<1> PICK w : w = Id(r)
  OBVIOUS
<1>8. w \in Works
  <2>1. r.branch \in Branches /\ r.version \in 1..Cardinality(ResultsOf(r.branch))
        /\ r.version <= MaxResults
    BY DEF ConversationInv, Numbered
  <2>2. r.version \in 1..MaxResults
    BY <2>1 DEF ConversationAssumption
  <2> QED
    BY <2>1, <2>2 DEF Works, Id
<1>9. w \notin PublishedWorks
  <2> SUFFICES ASSUME w \in PublishedWorks PROVE FALSE
    OBVIOUS
  <2>1. PICK p \in Shown : EventOf(p).about = w
    BY DEF PublishedWorks, EventOf
  <2>2. PICK m \in merges : PlaceOf(m.main) = p
    BY DEF ConversationInv, Linked
  <2>3. m.result = w
    BY <2>1, <2>2 DEF ConversationInv, Linked, LinkedRows
  <2> QED
    BY <2>3 DEF PublishBranchResult, Unpublished, Merged
<1>10. PublishedWorks' = PublishedWorks \union {w}
  <2> PICK p : p = <<s, Len(lines[s].log) + 1>>
    OBVIOUS
  <2> PICK q : q = <<b, Len(lines[b].log) + 1>>
    OBVIOUS
  <2>1. /\ EventOf(p)' = main /\ EventOf(q)' = note /\ Placed' = Placed \union {p, q}
        /\ \A o \in Placed : EventOf(o)' = EventOf(o)
    <3>1. Ends({s, b}) = {p, q}
      BY DEF Ends
    <3>2. events[p[1]] = main /\ events[q[1]] = note
      BY <1>5
    <3> QED
      BY <1>2, <3>1, <3>2 DEF Grows
  <2>2. Shown = {o \in Placed : o[1] \in Sessions /\ EventOf(o).type = "branch_result"}
    BY DEF Shown, EventOf
  <2>3. Shown' = {o \in Placed' : o[1] \in Sessions /\ EventOf(o)'.type = "branch_result"}
    BY DEF Shown, EventOf
  <2>4. p[1] \in Sessions /\ q[1] \notin Sessions
    BY <1>4
  <2>5. EventOf(p)'.type = "branch_result" /\ EventOf(p)'.about = w
    BY <1>2, <2>1
  <2>6. \A o \in Placed : EventOf(o)'.type = EventOf(o).type /\ EventOf(o)'.about = EventOf(o).about
    BY <2>1
  <2>7. Shown' = Shown \union {p}
    BY <2>1, <2>2, <2>3, <2>4, <2>5, <2>6
  <2>8. \A o \in Shown : EventOf(o)'.about = EventOf(o).about
    BY <2>2, <2>6
  <2>9. PublishedWorks = {EventOf(o).about : o \in Shown}
    BY DEF PublishedWorks, EventOf
  <2>10. PublishedWorks' = {EventOf(o)'.about : o \in Shown'}
    BY DEF PublishedWorks, EventOf
  <2> QED
    BY <2>5, <2>7, <2>8, <2>9, <2>10
<1>11. FinishedIn(w) = SessionOf(b) /\ StandingOf(SessionOf(b)) = "open"
  <2>1. HasKey(r.branch, ResultKey(r.version))
    BY DEF PublishBranchResult
  <2>2. w.branch = b /\ w.version = r.version
    BY DEF Id
  <2> QED
    BY <1>3, <2>1, <2>2 DEF FinishedIn, StandingOf, Writable
<1>12. \A o \in Sessions : StandingOf(o)' = StandingOf(o)
  BY <1>3, StandingStays
<1>13. Contract!Publish(w)
  BY <1>3, <1>6, <1>7, <1>8, <1>9, <1>10, <1>11, <1>12 DEF Contract!Publish
<1> QED
  BY <1>8, <1>13 DEF Contract!Next

LEMMA AppendUnseen ==
  ASSUME ConversationAssumption, ConversationInv, NEW l \in Lines, NEW k, AppendEvent(l, k)
  PROVE  UNCHANGED Contract!vars
<1> PICK e : e = Event("note", <<"note", k>>, None, NoEvent, NoEvent)
  OBVIOUS
<1>1. Carried /\ Grows({l}, One(l, e))
  BY EventAppended
<1>2. e.type \notin {"branch_result", "user_message"} /\ \A v : e.key # ResultKey(v)
  BY KeyKinds DEF Event
<1>3. UNCHANGED <<sessions, results>>
  BY DEF AppendEvent
<1> QED
  BY <1>1, <1>2, <1>3, NoteUnseen

LEMMA MoveUnseen ==
  ASSUME ConversationAssumption, ConversationInv, NEW b \in Branches, NEW k, NEW to,
         TransitionBranch(b, k, to)
  PROVE  UNCHANGED Contract!vars
<1>1. PICK e : /\ Grows({b}, One(b, e)) /\ e.type = "branch_status_changed"
               /\ \A v : e.key # ResultKey(v)
  BY BranchMoved
<1>2. Carried /\ b \in Lines
  BY BranchMoved DEF Lines
<1>3. UNCHANGED <<sessions, results>>
  BY DEF TransitionBranch
<1> QED
  BY <1>1, <1>2, <1>3, NoteUnseen

LEMMA CreateUnseen ==
  ASSUME ConversationAssumption, ConversationInv, NEW b \in Branches, NEW s \in Sessions,
         NEW k, NEW n \in 1..MaxMain, CreateBranch(b, s, k, n)
  PROVE  UNCHANGED Contract!vars
<1>1. PICK e : /\ Grows({b}, One(b, e)) /\ e.type = "branch_created"
               /\ \A v : e.key # ResultKey(v)
  BY BranchCreated
<1>2. Carried /\ b \in Lines
  BY BranchCreated DEF Lines
<1>3. UNCHANGED <<sessions, results>>
  BY DEF CreateBranch
<1> QED
  BY <1>1, <1>2, <1>3, NoteUnseen

LEMMA SqliteServes ==
  ASSUME ConversationAssumption, ConversationInv, SqliteNext
  PROVE  Contract!Next \/ UNCHANGED Contract!vars
<1>1. ASSUME NEW s \in Sessions, NEW place \in Places, CreateSession(s, place)
      PROVE  Contract!Next
  <2>1. MemoryCreateSession(s, place)
    BY <1>1 DEF CreateSession, MemoryCreateSession
  <2> QED
    BY <2>1, SessionOpens
<1>2. ASSUME NEW x \in Sources, NEW k \in Keys.accept, NEW s \in Sessions,
             NEW place \in Places, NEW l \in Lines, AcceptNormalizedEvent(x, k, s, place, l)
      PROVE  Contract!Next
  <2>1. /\ ConversationInv' /\ Carried /\ Grows({l}, One(l, Fact(x, k)))
        /\ SessionOf(l)' = s /\ sessions[s].status \in {"absent", "active"} /\ SourceNew(x)
        /\ sessions'[s].status = "active"
        /\ \A o \in Sessions \ {s} : sessions'[o] = sessions[o]
        /\ UNCHANGED results
    BY <1>2, AcceptKeeps, Zenon
  <2> QED
    BY <2>1, FactIsTaken
<1>3. ASSUME NEW s \in Sessions, NEW k \in Keys.session, TransitionSession(s, k)
      PROVE  Contract!Next
  BY <1>3, SessionCloses
<1>4. ASSUME NEW b \in Branches, NEW s \in Sessions, NEW k \in Keys.branch, NEW n \in 1..MaxMain,
             CreateBranch(b, s, k, n)
      PROVE  UNCHANGED Contract!vars
  BY <1>4, CreateUnseen
<1>5. ASSUME NEW b \in Branches, NEW k \in Keys.status, NEW to \in Asked,
             TransitionBranch(b, k, to)
      PROVE  UNCHANGED Contract!vars
  BY <1>5, MoveUnseen
<1>6. ASSUME NEW l \in Lines, NEW k \in Keys.note, AppendEvent(l, k)
      PROVE  UNCHANGED Contract!vars
  BY <1>6, AppendUnseen
<1>7. ASSUME NEW b \in Branches, NEW k \in Keys.result, NEW status \in Asked \cap ResultStatuses,
             CreateBranchResult(b, k, status)
      PROVE  Contract!Next
  BY <1>7, ResultFinishes
<1>8. ASSUME NEW r \in results, NEW k \in PublishKeys(r), PublishBranchResult(r, k)
      PROVE  Contract!Next
  BY <1>8, ResultPublished
<1> QED
  BY <1>1, <1>2, <1>3, <1>4, <1>5, <1>6, <1>7, <1>8 DEF SqliteNext

LEMMA MemoryServes ==
  ASSUME ConversationAssumption, ConversationInv, MemoryNext
  PROVE  Contract!Next \/ UNCHANGED Contract!vars
<1>1. ASSUME NEW s \in Sessions, NEW place \in Places, MemoryCreateSession(s, place)
      PROVE  Contract!Next
  BY <1>1, SessionOpens
<1>2. ASSUME NEW x \in Sources, NEW k \in Keys.accept, NEW s \in Sessions,
             NEW place \in Places, NEW l \in Lines, MemoryAcceptNormalizedEvent(x, k, s, place, l)
      PROVE  Contract!Next \/ UNCHANGED Contract!vars
  <2>1. CASE UNCHANGED <<sessions, lines, results>>
    BY <2>1, LinesUnseen
  <2>2. CASE ~UNCHANGED <<sessions, lines, results>>
    <3>1. /\ Carried /\ Grows({l}, One(l, Fact(x, k)))
          /\ SessionOf(l)' = s /\ sessions[s].status \in {"absent", "active"} /\ SourceNew(x)
          /\ sessions'[s].status = "active"
          /\ \A o \in Sessions \ {s} : sessions'[o] = sessions[o]
          /\ UNCHANGED results
      BY <1>2, <2>2, MemoryAcceptKeeps
    <3> QED
      BY <3>1, FactIsTaken
  <2> QED
    BY <2>1, <2>2
<1>3. ASSUME NEW s \in Sessions, NEW k \in Keys.session, MemoryTransitionSession(s, k)
      PROVE  Contract!Next
  BY <1>3, SessionCloses DEF MemoryTransitionSession
<1>4. ASSUME NEW b \in Branches, NEW s \in Sessions, NEW k \in Keys.branch, NEW n \in 1..MaxMain,
             MemoryCreateBranch(b, s, k, n)
      PROVE  UNCHANGED Contract!vars
  BY <1>4, CreateUnseen DEF MemoryCreateBranch
<1>5. ASSUME NEW b \in Branches, NEW k \in Keys.status, NEW to \in Asked,
             MemoryTransitionBranch(b, k, to)
      PROVE  UNCHANGED Contract!vars
  BY <1>5, MoveUnseen DEF MemoryTransitionBranch
<1>6. ASSUME NEW l \in Lines, NEW k \in Keys.note, MemoryAppendEvent(l, k)
      PROVE  UNCHANGED Contract!vars
  BY <1>6, AppendUnseen DEF MemoryAppendEvent
<1>7. ASSUME NEW b \in Branches, NEW k \in Keys.result, NEW status \in Asked \cap ResultStatuses,
             MemoryCreateBranchResult(b, k, status)
      PROVE  Contract!Next \/ UNCHANGED Contract!vars
  <2>1. CASE CreateBranchResult(b, k, status)
    BY <2>1, ResultFinishes
  <2>2. CASE ~CreateBranchResult(b, k, status)
    <3>1. /\ UNCHANGED <<sessions, lines>>
          /\ \E row : /\ results' = results \union {row} /\ row.branch = b
                      /\ row.version = Cardinality(ResultsOf(b)) + 1
                      /\ Cardinality(ResultsOf(b)) < MaxResults
      BY <1>7, <2>2, MemoryResultKeeps
    <3> QED
      BY <3>1, RefusedUnseen
  <2> QED
    BY <2>1, <2>2
<1>8. ASSUME NEW r \in results, NEW k \in PublishKeys(r), MemoryPublishBranchResult(r, k)
      PROVE  Contract!Next \/ UNCHANGED Contract!vars
  <2>1. CASE PublishBranchResult(r, k)
    BY <2>1, ResultPublished
  <2>2. CASE ~PublishBranchResult(r, k)
    <3>1. UNCHANGED <<sessions, lines, results>>
      BY <1>8, <2>2 DEF MemoryPublishBranchResult
    <3> QED
      BY <3>1, LinesUnseen
  <2> QED
    BY <2>1, <2>2
<1> QED
  BY <1>1, <1>2, <1>3, <1>4, <1>5, <1>6, <1>7, <1>8 DEF MemoryNext

\* Either store implements the contract of conversation/store.ts: each step of a
\* store is a step of Ledger or one that Ledger does not see, for any number of
\* sessions, branches, sources, keys and results.
THEOREM KeepsContractHolds == Spec => KeepsContract
<1> USE ConversationAssumption
<1>1. Init => Contract!Init
  BY NothingPromised
<1>2. ConversationInv /\ [Next]_vars => [Contract!Next]_(Contract!vars)
  <2> SUFFICES ASSUME ConversationInv, [Next]_vars
               PROVE  Contract!Next \/ UNCHANGED Contract!vars
    OBVIOUS
  <2>1. CASE Next
    BY <2>1, SqliteServes, MemoryServes DEF Next
  <2>2. CASE UNCHANGED vars
    <3>1. UNCHANGED <<sessions, lines, results>>
      BY <2>2 DEF vars
    <3> QED
      BY <3>1, LinesUnseen
  <2> QED
    BY <2>1, <2>2
<1> QED
  BY <1>1, <1>2, ConversationInvHolds, PTL DEF Spec, KeepsContract, Contract!Spec
=============================================================================
