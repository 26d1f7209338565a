-------------------------- MODULE Schedules_proofs --------------------------
(***************************************************************************)
(* Proofs about Schedules: its types, the order of the occurrences of a    *)
(* schedule, and that a schedule that skips overlaps has one intent at     *)
(* work, for any rules, limits, plans and number of schedules.             *)
(***************************************************************************)
EXTENDS Schedules, TLAPS, WellFoundedInduction

\* A non-empty set of naturals has a least element.
LEMMA LeastExists ==
  ASSUME NEW T, T \subseteq Nat, T # {}
  PROVE  \E t \in T : \A u \in T : t <= u
<1>1. PICK t \in T : \A u \in T : ~ (<<u, t>> \in OpToRel(<, Nat))
  BY NatLessThanWellFounded, WFMin, Zenon
<1>2. ASSUME NEW u \in T PROVE t <= u
  <2>1. ~ (u < t)
    BY <1>1, <1>2, Zenon DEF OpToRel
  <2> QED BY <2>1
<1> QED BY <1>1, <1>2

\* Quotients: the next multiple lies behind.
LEMMA QuotientBound ==
  ASSUME NEW a \in Nat, NEW b \in Nat \ {0}
  PROVE  (a \div b) \in Nat /\ a < (a \div b + 1) * b
<1>1. (a \div b) \in Nat
  BY SMT
<1>2. a = b * (a \div b) + (a % b) /\ (a % b) < b
  BY SMT
<1> DEFINE q == a \div b
           r == a % b
<1>3. q \in Nat /\ r \in Nat
  BY <1>1, SMT
<1>4. a = b * q + r /\ r < b
  BY <1>2
<1> HIDE DEF q, r
<1>5. (q + 1) * b = b * q + b
  BY <1>3, SMT
<1>6. b * q \in Nat
  BY <1>3, SMT
<1> DEFINE p == b * q
<1> HIDE DEF p
<1>7. a < p + b
  BY <1>3, <1>4, <1>6, SMT DEF p
<1>8. a < (q + 1) * b
  BY <1>5, <1>7 DEF p
<1> QED BY <1>1, <1>8 DEF q

\* nextScheduleTime(): the next time lies strictly after the baseline, for every
\* rule, zone and baseline, or there is none.
LEMMA NextTimeLater ==
  ASSUME NEW rule, RuleOK(rule), NEW after \in Nat, NextTime(rule, after) # NoTime
  PROVE  NextTime(rule, after) \in Nat /\ after < NextTime(rule, after)
<1> USE DEF RuleOK
<1>1. CASE rule.kind = "once"
  BY <1>1 DEF NextTime, Once
<1>2. CASE rule.kind = "interval"
  <2>1. rule.at \in Nat /\ rule.every \in Nat \ {0}
    BY <1>2
  <2>2. CASE rule.at > after
    BY <1>2, <2>1, <2>2 DEF NextTime, Interval
  <2>3. CASE ~ (rule.at > after)
    <3> DEFINE n == ((after - rule.at) \div rule.every + 1) * rule.every
    <3>1. after - rule.at \in Nat
      BY <2>1, <2>3
    <3>2. ((after - rule.at) \div rule.every) \in Nat /\ after - rule.at < n
      BY <2>1, <3>1, QuotientBound
    <3>3. n \in Nat
      BY <2>1, <3>2, SMT
    <3>4. NextTime(rule, after) = rule.at + n
      BY <1>2, <2>3 DEF NextTime, Interval
    <3> HIDE DEF n
    <3> QED BY <2>1, <3>2, <3>3, <3>4
  <2> QED BY <2>2, <2>3
<1>3. CASE rule.kind = "daily"
  <2> DEFINE Hits == {t \in (after + 1)..(after + 3 * Day) :
                        /\ LocalTime(t) = rule.at
                        /\ LocalDay(t) = LocalDay(after) => LocalTime(after) < rule.at}
  <2>1. NextTime(rule, after) =
          IF Hits = {} THEN NoTime ELSE CHOOSE t \in Hits : \A u \in Hits : t <= u
    BY <1>3 DEF NextTime, Daily
  <2>2. Hits # {}
    BY <2>1
  <2>3. \A t \in Hits : t \in Nat /\ after < t
    BY ZoneAssumption
  <2> HIDE DEF Hits
  <2>4. \E t \in Hits : \A u \in Hits : t <= u
    BY <2>2, <2>3, LeastExists
  <2>5. NextTime(rule, after) \in Hits
    BY <2>1, <2>2, <2>4
  <2> QED BY <2>3, <2>5
<1> QED BY <1>1, <1>2, <1>3

----------------------------------------------------------------------------
(* The invariant is kept by what leaves the schedules and the times of      *)
(* their occurrences alone, whatever it does to the intents.               *)

\* The step from one row of occurrences to the next takes and drops none, and
\* puts none to work that was at rest.
SameTaken ==
  \A s \in Schedules : \A n \in Numbers :
    /\ occ'[s][n].due = occ[s][n].due /\ occ'[s][n].born = occ[s][n].born
    /\ occ'[s][n].state = "none" <=> occ[s][n].state = "none"
    /\ occ'[s][n].state \in {"queued", "claimed"} =>
         occ[s][n].state \in {"queued", "claimed"}

LEMMA Numbering == Numbers \subseteq Nat \ {0}
BY SchedulesAssumption DEF Numbers

LEMMA SameTakenKeeps ==
  ASSUME SchedulesInv, TypeOK', SameTaken, sched' = sched, now <= now',
         pass' \subseteq pass
  PROVE  SchedulesInv'
<1> USE DEF SchedulesInv
<1>1. \A s \in Schedules, n \in Numbers : Taken(s, n)' <=> Taken(s, n)
  BY DEF SameTaken, Taken
<1>2. Counted'
  BY <1>1 DEF Counted
<1>3. Timely'
  <2> SUFFICES ASSUME NEW s \in Schedules, NEW n \in Numbers, Taken(s, n)'
               PROVE  (occ[s][n].due <= occ[s][n].born /\ occ[s][n].born <= now)'
    BY DEF Timely
  <2>1. occ[s][n].due <= occ[s][n].born /\ occ[s][n].born <= now
    BY <1>1 DEF Timely
  <2>2. occ[s][n].born \in Nat /\ now \in Nat /\ now' \in Nat
    BY DEF TypeOK, OccRows
  <2> QED BY <2>1, <2>2 DEF SameTaken
<1>4. Ahead'
  BY <1>1 DEF Ahead, SameTaken
<1>5. Selected'
  <2> SUFFICES ASSUME NEW s \in pass' PROVE Due(s)'
    BY DEF Selected
  <2>1. s \in Schedules /\ Due(s)
    BY DEF Selected, TypeOK
  <2>2. sched[s].next \in Nat /\ now \in Nat /\ now' \in Nat
    BY <2>1 DEF TypeOK, ScheduleRows
  <2> QED BY <2>1, <2>2 DEF Due
<1>6. InOrder'
  BY DEF InOrder, SameTaken
<1>7. OneAtATime'
  BY DEF OneAtATime, SameTaken
<1> QED BY <1>2, <1>3, <1>4, <1>5, <1>6, <1>7

\* It is kept, too, when one schedule gets a new row that counts the same
\* occurrences, and looks past the present if it may fire and could not before.
LEMMA NewRowKeeps ==
  ASSUME SchedulesInv, TypeOK', NEW s \in Schedules, NEW row,
         sched' = [sched EXCEPT ![s] = row], UNCHANGED <<occ, now>>,
         pass' \subseteq pass \ {s},
         row.fired = sched[s].fired, row.status # "absent",
         row.overlap = sched[s].overlap \/ sched[s].status = "absent",
         row.status \in {"active", "paused"} =>
           \/ sched[s].status \in {"active", "paused"} /\ row.next = sched[s].next
           \/ now < row.next
  PROVE  SchedulesInv'
<1> USE DEF SchedulesInv
<1>1. sched'[s] = row /\ \A u \in Schedules \ {s} : sched'[u] = sched[u]
  BY DEF TypeOK
<1>2. Counted'
  BY <1>1 DEF Counted, Taken
<1>3. Timely'
  BY DEF Timely, Taken
<1>4. Ahead'
  <2> SUFFICES ASSUME NEW u \in Schedules, sched'[u].status \in {"active", "paused"},
                      NEW n \in Numbers, Taken(u, n)'
               PROVE  (occ[u][n].born < sched[u].next)'
    BY DEF Ahead
  <2>1. Taken(u, n)
    BY DEF Taken
  <2>2. CASE u # s
    BY <1>1, <2>1, <2>2 DEF Ahead
  <2>3. CASE u = s /\ row.next = sched[s].next
    <3>1. CASE sched[s].status \in {"active", "paused"}
      BY <1>1, <2>1, <2>3, <3>1 DEF Ahead
    <3>2. CASE now < row.next
      BY <1>1, <2>1, <2>3, <3>2 DEF Timely, TypeOK, OccRows, ScheduleRows
    <3> QED BY <1>1, <2>3, <3>1, <3>2
  <2>4. CASE u = s /\ now < row.next
    <3>1. occ[s][n].born <= now /\ occ[s][n].born \in Nat /\ now \in Nat
      BY <2>1, <2>4 DEF Timely, TypeOK, OccRows
    <3>2. row.next \in Nat
      BY <1>1 DEF TypeOK, ScheduleRows
    <3> QED BY <1>1, <2>4, <3>1, <3>2
  <2> QED BY <1>1, <2>2, <2>3, <2>4
<1>5. Selected'
  BY <1>1 DEF Selected, Due, TypeOK
<1>6. InOrder'
  BY DEF InOrder
<1>7. OneAtATime'
  <2> SUFFICES ASSUME NEW u \in Schedules, sched'[u].overlap = "skip",
                      NEW m \in Numbers, NEW n \in Numbers,
                      occ[u][m].state \in {"queued", "claimed"},
                      occ[u][n].state \in {"queued", "claimed"}
               PROVE  m = n
    BY DEF OneAtATime
  <2>1. CASE u # s \/ row.overlap = sched[s].overlap
    BY <1>1, <2>1 DEF OneAtATime
  <2>2. CASE u = s /\ sched[s].status = "absent"
    BY <2>2, Numbering DEF Counted, Taken
  <2> QED BY <2>1, <2>2
<1> QED BY <1>2, <1>3, <1>4, <1>5, <1>6, <1>7

----------------------------------------------------------------------------
(* Each action in turn.                                                     *)

LEMMA NextTimeOf ==
  ASSUME TypeOK, NEW rule \in Rules, NextTime(rule, now) # NoTime
  PROVE  NextTime(rule, now) \in Nat /\ now < NextTime(rule, now)
BY NextTimeLater, SchedulesAssumption DEF TypeOK

LEMMA InitKept == Init => SchedulesInv
<1> SUFFICES ASSUME Init PROVE SchedulesInv
  OBVIOUS
<1>1. TypeOK
  <2>1. (CHOOSE rule \in Rules : TRUE) \in Rules
    BY SchedulesAssumption
  <2>2. NoSchedule \in ScheduleRows
    BY <2>1, SchedulesAssumption DEF NoSchedule, ScheduleRows
  <2>3. NoOccurrence \in OccRows
    BY SchedulesAssumption DEF NoOccurrence, OccRows, OccStates
  <2>4. sched \in [Schedules -> ScheduleRows] /\ occ \in [Schedules -> [Numbers -> OccRows]]
    BY <2>2, <2>3 DEF Init
  <2>5. crashes \in 0..MaxCrashes
    BY SchedulesAssumption DEF Init
  <2> QED BY <2>4, <2>5 DEF Init, TypeOK, TaskStates
<1>2. \A s \in Schedules, n \in Numbers : ~Taken(s, n)
  BY DEF Init, Taken, NoOccurrence
<1>3. Counted
  BY <1>2, Numbering DEF Counted, Init, NoSchedule
<1>4. Timely /\ Ahead /\ Selected
  BY <1>2 DEF Timely, Ahead, Selected, Init
<1>5. InOrder /\ OneAtATime
  BY <1>2 DEF InOrder, OneAtATime, Taken
<1> QED BY <1>1, <1>3, <1>4, <1>5 DEF SchedulesInv

LEMMA AdvanceKeeps == SchedulesInv /\ Advance => SchedulesInv'
<1> SUFFICES ASSUME SchedulesInv, Advance PROVE SchedulesInv'
  OBVIOUS
<1>1. TypeOK' /\ now <= now'
  BY DEF SchedulesInv, TypeOK, Advance
<1>2. SameTaken
  BY DEF SameTaken, Advance
<1> QED BY <1>1, <1>2, SameTakenKeeps DEF Advance

\* An occurrence that is put to rest, or queued again, changes its state alone.
LEMMA RowState ==
  ASSUME NEW r \in OccRows, NEW state \in OccStates
  PROVE  [r EXCEPT !.state = state] \in OccRows
BY DEF OccRows

LEMMA OccState ==
  ASSUME TypeOK, NEW s \in Schedules, NEW n \in Numbers, NEW state \in OccStates \ {"none"},
         occ[s][n].state \in {"queued", "claimed"},
         occ' = [occ EXCEPT ![s][n].state = state]
  PROVE  occ' \in [Schedules -> [Numbers -> OccRows]] /\ SameTaken
<1>1. [occ[s][n] EXCEPT !.state = state] \in OccRows
  BY RowState DEF TypeOK
<1>2. occ' = [occ EXCEPT ![s] = [occ[s] EXCEPT ![n] = [occ[s][n] EXCEPT !.state = state]]]
  BY DEF TypeOK
<1>3. occ'[s][n] = [occ[s][n] EXCEPT !.state = state]
  BY <1>2 DEF TypeOK
<1>4. \A u \in Schedules, m \in Numbers : u # s \/ m # n => occ'[u][m] = occ[u][m]
  BY <1>2 DEF TypeOK
<1>5. occ'[s][n].state = state
      /\ occ'[s][n].due = occ[s][n].due /\ occ'[s][n].born = occ[s][n].born
  BY <1>3 DEF TypeOK, OccRows
<1>6. SameTaken
  <2> SUFFICES ASSUME NEW u \in Schedules, NEW m \in Numbers
               PROVE  /\ occ'[u][m].due = occ[u][m].due
                      /\ occ'[u][m].born = occ[u][m].born
                      /\ occ'[u][m].state = "none" <=> occ[u][m].state = "none"
                      /\ occ'[u][m].state \in {"queued", "claimed"} =>
                           occ[u][m].state \in {"queued", "claimed"}
    BY DEF SameTaken
  <2>1. CASE u = s /\ m = n
    BY <2>1, <1>5
  <2>2. CASE u # s \/ m # n
    BY <2>2, <1>4
  <2> QED BY <2>1, <2>2
<1>7. occ' \in [Schedules -> [Numbers -> OccRows]]
  BY <1>1, <1>2 DEF TypeOK
<1> QED BY <1>6, <1>7

LEMMA StateKeeps ==
  ASSUME SchedulesInv, now' = now, task' = task, sched' = sched,
         revoked' \in BOOLEAN, pass' \subseteq pass, crashes' \in 0..MaxCrashes,
         occ' \in [Schedules -> [Numbers -> OccRows]], SameTaken
  PROVE  SchedulesInv'
<1>1. TypeOK' /\ now <= now'
  BY DEF SchedulesInv, TypeOK
<1> QED BY <1>1, SameTakenKeeps

LEMMA RevokeGrantKeeps == SchedulesInv /\ RevokeGrant => SchedulesInv'
<1> SUFFICES ASSUME SchedulesInv, RevokeGrant PROVE SchedulesInv'
  OBVIOUS
<1> USE DEF SchedulesInv
<1>1. occ' \in [Schedules -> [Numbers -> OccRows]]
  <2>1. \A s \in Schedules, n \in Numbers :
          occ[s][n] \in OccRows /\ [occ[s][n] EXCEPT !.state = "ended"] \in OccRows
    BY RowState DEF TypeOK, OccStates
  <2> QED BY <2>1 DEF RevokeGrant
<1>2. SameTaken
  BY DEF RevokeGrant, SameTaken, TypeOK, OccRows
<1> QED BY <1>1, <1>2, StateKeeps DEF RevokeGrant, TypeOK

LEMMA ControlTaskKeeps ==
  ASSUME SchedulesInv, NEW status \in TaskStates, ControlTask(status)
  PROVE  SchedulesInv'
<1>1. TypeOK' /\ now <= now'
  BY DEF SchedulesInv, TypeOK, ControlTask
<1>2. SameTaken
  BY DEF SameTaken, ControlTask
<1> QED BY <1>1, <1>2, SameTakenKeeps DEF ControlTask

LEMMA ClaimKeeps ==
  ASSUME SchedulesInv, NEW s \in Schedules, NEW n \in Numbers, Claim(s, n)
  PROVE  SchedulesInv'
<1> USE DEF SchedulesInv
<1>1. PICK state \in {"claimed", "ended"} :
        /\ state \in OccStates \ {"none"} /\ occ[s][n].state = "queued"
        /\ occ' = [occ EXCEPT ![s][n].state = state]
  BY DEF Claim, OccStates
<1>2. occ' \in [Schedules -> [Numbers -> OccRows]] /\ SameTaken
  BY <1>1, OccState
<1>3. UNCHANGED <<now, revoked, task, sched, pass, crashes>>
  BY DEF Claim
<1> QED BY <1>2, <1>3, StateKeeps DEF TypeOK

LEMMA SettleKeeps ==
  ASSUME SchedulesInv, NEW s \in Schedules, NEW n \in Numbers, Settle(s, n)
  PROVE  SchedulesInv'
<1> USE DEF SchedulesInv
<1>1. PICK state \in {"ended", "queued"} :
        occ' = [occ EXCEPT ![s][n].state = state]
  BY DEF Settle
<1>2. state \in OccStates \ {"none"} /\ occ[s][n].state = "claimed"
  BY DEF Settle, OccStates
<1>3. occ' \in [Schedules -> [Numbers -> OccRows]] /\ SameTaken
  BY <1>1, <1>2, OccState
<1>4. UNCHANGED <<now, revoked, task, sched, pass, crashes>>
  BY DEF Settle
<1> QED BY <1>3, <1>4, StateKeeps DEF TypeOK

LEMMA CrashKeeps == SchedulesInv /\ Crash => SchedulesInv'
<1> SUFFICES ASSUME SchedulesInv, Crash PROVE SchedulesInv'
  OBVIOUS
<1> USE DEF SchedulesInv
<1>1. PICK again \in SUBSET Claimed :
        occ' = [s \in Schedules |-> [n \in Numbers |->
          IF <<s, n>> \in Claimed
            THEN [occ[s][n] EXCEPT !.state = IF <<s, n>> \in again THEN "queued" ELSE "ended"]
            ELSE occ[s][n]]]
  BY DEF Crash
<1>2. occ' \in [Schedules -> [Numbers -> OccRows]]
  <2>1. \A s \in Schedules, n \in Numbers :
          /\ occ[s][n] \in OccRows
          /\ [occ[s][n] EXCEPT !.state = IF <<s, n>> \in again THEN "queued" ELSE "ended"]
               \in OccRows
    BY RowState DEF TypeOK, OccStates
  <2> QED BY <1>1, <2>1
<1>3. SameTaken
  <2>1. \A s \in Schedules, n \in Numbers :
          <<s, n>> \in Claimed => occ[s][n].state = "claimed"
    BY DEF Claimed, Intents, Intent
  <2>2. \A s \in Schedules, n \in Numbers :
          \/ occ'[s][n] = occ[s][n]
          \/ /\ <<s, n>> \in Claimed
             /\ \E state \in {"queued", "ended"} :
                  occ'[s][n] = [occ[s][n] EXCEPT !.state = state]
    BY <1>1
  <2>3. SUFFICES ASSUME NEW s \in Schedules, NEW n \in Numbers
                 PROVE  /\ occ'[s][n].due = occ[s][n].due
                        /\ occ'[s][n].born = occ[s][n].born
                        /\ occ'[s][n].state = "none" <=> occ[s][n].state = "none"
                        /\ occ'[s][n].state \in {"queued", "claimed"} =>
                             occ[s][n].state \in {"queued", "claimed"}
    BY DEF SameTaken
  <2>4. CASE occ'[s][n] = occ[s][n]
    BY <2>4
  <2>5. CASE occ'[s][n] # occ[s][n]
    <3>1. PICK state \in {"queued", "ended"} :
            occ'[s][n] = [occ[s][n] EXCEPT !.state = state]
      BY <2>2, <2>5
    <3>2. occ[s][n] \in OccRows
      BY DEF TypeOK
    <3>3. occ[s][n].state = "claimed"
      BY <2>1, <2>2, <2>5
    <3> QED BY <3>1, <3>2, <3>3 DEF OccRows
  <2> QED BY <2>4, <2>5
<1>4. crashes' \in 0..MaxCrashes
  BY SchedulesAssumption DEF Crash, TypeOK
<1>5. UNCHANGED <<now, revoked, task, sched>> /\ pass' \subseteq pass
  BY DEF Crash
<1> QED BY <1>2, <1>3, <1>4, <1>5, StateKeeps DEF TypeOK

LEMMA CreateScheduleKeeps ==
  ASSUME SchedulesInv, NEW plan \in Plans, CreateSchedule(plan)
  PROVE  SchedulesInv'
<1> USE DEF SchedulesInv
<1> DEFINE next == NextTime(plan.rule, now)
           expires == Lesser(GrantEnd, now + Lifetime)
           row == [status |-> "active", rule |-> plan.rule, revision |-> 1,
                   next |-> next, fired |-> 0, missed |-> plan.missed,
                   overlap |-> plan.overlap, expires |-> expires, stopped |-> FALSE]
<1>1. plan.id \in Schedules /\ plan.rule \in Rules
      /\ plan.missed \in {"skip", "coalesce"} /\ plan.overlap \in {"skip", "queue"}
  BY SchedulesAssumption
<1>2. next \in Nat /\ now < next
  BY <1>1, NextTimeOf DEF CreateSchedule
<1>3. expires \in Nat
  BY SchedulesAssumption DEF Lesser, TypeOK
<1>4. sched' = [sched EXCEPT ![plan.id] = row]
  BY DEF CreateSchedule
<1> HIDE DEF next, expires
<1>5. row \in ScheduleRows
  BY <1>1, <1>2, <1>3, SchedulesAssumption DEF ScheduleRows
<1>6. TypeOK'
  BY <1>1, <1>4, <1>5 DEF CreateSchedule, TypeOK
<1>7. sched[plan.id].status = "absent" /\ sched[plan.id].fired = 0
  BY <1>1 DEF CreateSchedule, Counted
<1>8. pass' \subseteq pass \ {plan.id} /\ UNCHANGED <<occ, now>>
  BY DEF CreateSchedule, Free
<1>9. row.fired = 0 /\ row.status = "active" /\ row.next = next
  OBVIOUS
<1> HIDE DEF row
<1> QED BY <1>1, <1>2, <1>4, <1>6, <1>7, <1>8, <1>9, NewRowKeeps

LEMMA UpdateScheduleKeeps ==
  ASSUME SchedulesInv, NEW s \in Schedules,
         NEW statuses \in {{}, {"active"}, {"paused"}, {"cancelled"}},
         NEW rules \in {{}} \cup {{rule} : rule \in Rules},
         UpdateSchedule(s, statuses, rules)
  PROVE  SchedulesInv'
<1> USE DEF SchedulesInv
<1> DEFINE old == sched[s]
           rule == IF rules = {} THEN old.rule ELSE CHOOSE r \in rules : TRUE
           status == IF statuses = {} THEN old.status ELSE CHOOSE x \in statuses : TRUE
           next == IF rules # {} \/ statuses = {"active"} THEN NextTime(rule, now)
                   ELSE old.next
           row == [old EXCEPT !.status = status, !.rule = rule, !.next = next,
                              !.revision = @ + 1]
<1>1. old \in ScheduleRows
  BY DEF TypeOK
<1>2. rule \in Rules
  BY <1>1 DEF ScheduleRows
<1>3. status \in {"active", "paused", "completed", "cancelled"}
      /\ (statuses # {} => statuses = {status})
      /\ (status = "completed" => old.status = "completed" /\ statuses = {})
  BY <1>1 DEF ScheduleRows, UpdateSchedule
<1>4. next \in Nat /\ (next = old.next \/ now < next)
  BY <1>1, <1>2, NextTimeOf DEF UpdateSchedule, ScheduleRows
<1>5. sched' = [sched EXCEPT ![s] = row]
  BY <1>1 DEF UpdateSchedule, TypeOK, ScheduleRows
<1>6. old.status \in {"active", "paused"} \/ status = "cancelled"
  BY <1>3 DEF UpdateSchedule
<1>7. old.revision < MaxRevision /\ pass' \subseteq pass \ {s}
      /\ UNCHANGED <<occ, now, revoked, task, crashes, pass>>
  BY DEF UpdateSchedule, Free
<1> HIDE DEF rule, status, next
<1>8. row \in ScheduleRows
  <2>1. old.revision + 1 \in 0..MaxRevision
    BY <1>1, <1>7, SchedulesAssumption DEF ScheduleRows
  <2> QED BY <1>1, <1>2, <1>3, <1>4, <2>1 DEF ScheduleRows
<1>9. TypeOK'
  BY <1>5, <1>7, <1>8 DEF TypeOK
<1>10. row.fired = old.fired /\ row.overlap = old.overlap /\ row.status = status
       /\ row.next = next
  BY <1>1 DEF ScheduleRows
<1> HIDE DEF row
<1>11. row.status \in {"active", "paused"} =>
         \/ sched[s].status \in {"active", "paused"} /\ row.next = sched[s].next
         \/ now < row.next
  BY <1>4, <1>6, <1>10
<1> QED BY <1>3, <1>5, <1>7, <1>9, <1>10, <1>11, NewRowKeeps

----------------------------------------------------------------------------
(* The tick.                                                                *)

LEMMA StartTickKeeps == SchedulesInv /\ StartTick => SchedulesInv'
<1> SUFFICES ASSUME SchedulesInv, StartTick PROVE SchedulesInv'
  OBVIOUS
<1> USE DEF SchedulesInv, StartTick
<1>1. TypeOK'
  BY DEF TypeOK
<1>2. Counted' /\ Timely' /\ Ahead'
  BY DEF Counted, Timely, Ahead, Taken
<1>3. Selected'
  BY DEF Selected, Due
<1>4. InOrder' /\ OneAtATime'
  BY DEF InOrder, OneAtATime
<1> QED BY <1>1, <1>2, <1>3, <1>4

\* A schedule that a tick ends keeps its occurrences.
LEMMA EndedKeeps ==
  ASSUME SchedulesInv, NEW s \in Schedules, NEW status \in {"completed", "cancelled"},
         NEW stopped \in BOOLEAN,
         sched' = [sched EXCEPT ![s] = [@ EXCEPT !.status = status, !.stopped = stopped]],
         pass' = pass \ {s}, UNCHANGED <<now, revoked, task, occ, crashes>>
  PROVE  SchedulesInv'
<1> USE DEF SchedulesInv
<1> DEFINE row == [sched[s] EXCEPT !.status = status, !.stopped = stopped]
<1>1. sched' = [sched EXCEPT ![s] = row] /\ sched[s] \in ScheduleRows
  BY DEF TypeOK
<1>2. row \in ScheduleRows /\ row.status = status
      /\ row.fired = sched[s].fired /\ row.overlap = sched[s].overlap
  BY <1>1 DEF ScheduleRows
<1> HIDE DEF row
<1>3. TypeOK'
  BY <1>1, <1>2 DEF TypeOK
<1> QED BY <1>1, <1>2, <1>3, NewRowKeeps

LEMMA StopKeeps ==
  ASSUME SchedulesInv, NEW s \in Schedules, Stop(s)
  PROVE  SchedulesInv'
<1>1. sched \in [Schedules -> ScheduleRows]
  BY DEF SchedulesInv, TypeOK
<1>2. sched[s].stopped \in BOOLEAN
  BY <1>1 DEF ScheduleRows
<1>3. PICK status \in {"completed", "cancelled"} :
        sched' = [sched EXCEPT ![s] =
                    [@ EXCEPT !.status = status, !.stopped = sched[s].stopped]]
  BY <1>1 DEF Stop, Cancelled, ScheduleRows
<1> QED BY <1>2, <1>3, EndedKeeps DEF Stop

LEMMA PostponeKeeps ==
  ASSUME SchedulesInv, NEW s \in Schedules, Postpone(s)
  PROVE  SchedulesInv'
<1>1. CASE UNCHANGED sched
  <2>1. TypeOK' /\ now <= now' /\ pass' \subseteq pass
    BY <1>1 DEF Postpone, SchedulesInv, TypeOK
  <2>2. SameTaken
    BY DEF SameTaken, Postpone
  <2> QED BY <1>1, <2>1, <2>2, SameTakenKeeps
<1>2. CASE sched' = [sched EXCEPT ![s].status = "completed", ![s].stopped = TRUE]
  <2>1. sched' = [sched EXCEPT ![s] = [@ EXCEPT !.status = "completed", !.stopped = TRUE]]
    BY <1>2 DEF SchedulesInv, TypeOK
  <2> QED BY <2>1, EndedKeeps DEF Postpone
<1> QED BY <1>1, <1>2 DEF Postpone

\* The row of a schedule after its occurrence looks past the present, or the
\* schedule is completed.
LEMMA MovedRow ==
  ASSUME TypeOK, NEW row \in ScheduleRows, row.fired < MaxOccurrences
  PROVE  /\ Moved(row) \in ScheduleRows
         /\ Moved(row).fired = row.fired + 1 /\ Moved(row).overlap = row.overlap
         /\ \/ Moved(row).status = "completed"
            \/ Moved(row).status = "active" /\ now < Moved(row).next
<1> DEFINE next == NextTime(row.rule, now)
           last == next = NoTime \/ next >= row.expires \/ row.fired + 1 >= MaxOccurrences
           later == IF next = NoTime THEN row.next ELSE next
           status == IF last THEN "completed" ELSE "active"
<1>1. next # NoTime => next \in Nat /\ now < next
  BY NextTimeOf DEF ScheduleRows
<1>2. later \in Nat /\ (status = "active" => now < later)
  BY <1>1 DEF ScheduleRows
<1>3. status \in {"completed", "active"}
  OBVIOUS
<1>4. Moved(row) = [row EXCEPT !.fired = row.fired + 1, !.next = later, !.status = status]
  BY DEF Moved, ScheduleRows
<1>5. row.fired + 1 \in 0..MaxOccurrences
  BY SchedulesAssumption DEF ScheduleRows
<1> HIDE DEF next, last, later, status
<1>6. Moved(row) \in ScheduleRows
  BY <1>2, <1>3, <1>4, <1>5 DEF ScheduleRows
<1>7. /\ Moved(row).fired = row.fired + 1 /\ Moved(row).overlap = row.overlap
      /\ Moved(row).status = status /\ Moved(row).next = later
  BY <1>4 DEF ScheduleRows
<1> QED BY <1>2, <1>3, <1>6, <1>7

LEMMA FireKeeps ==
  ASSUME SchedulesInv, NEW s \in Schedules, Fire(s)
  PROVE  SchedulesInv'
<1> USE DEF SchedulesInv
<1> DEFINE old == sched[s]
           row == Moved(old)
           state == IF Skips(s) THEN "skipped" ELSE "queued"
           new == [state |-> state, revision |-> old.revision, due |-> old.next,
                   born |-> now]
<1>1. old \in ScheduleRows /\ now \in Nat
  BY DEF TypeOK
<1>2. old.fired < MaxOccurrences /\ old.fired + 1 \in Numbers
  BY <1>1, SchedulesAssumption DEF Fire, Exhausted, ScheduleRows, Numbers
<1> PICK k \in Numbers : k = old.fired + 1
  BY <1>2
<1>3. old.status = "active" /\ old.next <= now
  BY DEF Fire, Turn, Selected, Due
<1>4. /\ row \in ScheduleRows /\ row.fired = old.fired + 1 /\ row.overlap = old.overlap
      /\ \/ row.status = "completed"
         \/ row.status = "active" /\ now < row.next
  BY <1>1, <1>2, MovedRow
<1>5. state \in {"skipped", "queued"} /\ (state = "queued" => ~Skips(s))
  OBVIOUS
<1>6. /\ sched' = [sched EXCEPT ![s] = row]
      /\ occ' = [occ EXCEPT ![s][k] = new]
      /\ pass' = pass \ {s} /\ UNCHANGED <<now, revoked, task, crashes>>
  BY DEF Fire
<1> HIDE DEF row, state
<1>7. new \in OccRows
  BY <1>1, <1>5 DEF OccRows, OccStates, ScheduleRows
<1>8. new.state = state /\ new.due = old.next /\ new.born = now
  OBVIOUS
<1>9. old.next \in Nat /\ k \in Nat /\ old.fired \in Nat /\ k = old.fired + 1
  BY <1>1, <1>2, Numbering DEF ScheduleRows
<1> HIDE DEF new
<1>10. sched'[s] = row /\ \A u \in Schedules \ {s} : sched'[u] = sched[u]
  BY <1>6 DEF TypeOK
<1>11. /\ occ'[s][k] = new
       /\ \A u \in Schedules, n \in Numbers : u # s \/ n # k => occ'[u][n] = occ[u][n]
  BY <1>2, <1>6 DEF TypeOK
<1>12. TypeOK'
  BY <1>2, <1>4, <1>6, <1>7 DEF TypeOK
<1>13. /\ Taken(s, k)'
       /\ \A u \in Schedules, n \in Numbers : u # s \/ n # k => (Taken(u, n)' <=> Taken(u, n))
  <2>1. occ'[s][k].state # "none"
    BY <1>5, <1>8, <1>11
  <2>2. \A u \in Schedules, n \in Numbers :
          u # s \/ n # k => occ'[u][n].state = occ[u][n].state
    BY <1>11
  <2> QED BY <2>1, <2>2 DEF Taken
<1>14. \A n \in Numbers : Taken(s, n) => n < k
  BY <1>9, Numbering DEF Counted
<1>15. Counted'
  <2> SUFFICES ASSUME NEW u \in Schedules
               PROVE  (/\ \A n \in Numbers : Taken(u, n) <=> n <= sched[u].fired
                       /\ sched[u].status = "absent" => sched[u].fired = 0)'
    BY DEF Counted
  <2>1. CASE u # s
    BY <2>1, <1>10, <1>13 DEF Counted
  <2>2. CASE u = s
    <3>1. \A n \in Numbers : Taken(s, n)' <=> n <= k
      <4> SUFFICES ASSUME NEW n \in Numbers PROVE Taken(s, n)' <=> n <= k
        OBVIOUS
      <4>1. n \in Nat
        BY Numbering
      <4>2. CASE n = k
        BY <4>1, <4>2, <1>13
      <4>3. CASE n # k
        <5>1. Taken(s, n)' <=> n <= old.fired
          BY <4>3, <1>13 DEF Counted
        <5> QED BY <4>1, <4>3, <5>1, <1>9
      <4> QED BY <4>2, <4>3
    <3> QED BY <2>2, <3>1, <1>4, <1>10
  <2> QED BY <2>1, <2>2
<1>16. Timely'
  BY <1>3, <1>1, <1>9, <1>6, <1>8, <1>11, <1>13 DEF Timely
<1>17. Ahead'
  <2> SUFFICES ASSUME NEW u \in Schedules, sched'[u].status \in {"active", "paused"},
                      NEW n \in Numbers, Taken(u, n)'
               PROVE  (occ[u][n].born < sched[u].next)'
    BY DEF Ahead
  <2>1. CASE u # s
    BY <2>1, <1>10, <1>11, <1>13 DEF Ahead
  <2>2. CASE u = s
    <3>1. occ'[s][n].born <= now' /\ occ'[s][n].born \in Nat
      BY <2>2, <1>12, <1>16 DEF Timely, TypeOK, OccRows
    <3>2. now' = now /\ now < row.next /\ row.next \in Nat
      BY <2>2, <1>4, <1>6, <1>10 DEF ScheduleRows
    <3> QED BY <2>2, <3>1, <3>2, <1>1, <1>10
  <2> QED BY <2>1, <2>2
<1>18. Selected'
  BY <1>6, <1>10 DEF Selected, Due, TypeOK
<1>19. InOrder'
  <2> SUFFICES ASSUME NEW u \in Schedules, NEW m \in Numbers, NEW n \in Numbers, m < n,
                      Taken(u, m)', Taken(u, n)'
               PROVE  (occ[u][m].due <= occ[u][m].born /\ occ[u][m].born < occ[u][n].due)'
    BY DEF InOrder, Taken
  <2>1. CASE u # s \/ (m # k /\ n # k)
    BY <2>1, <1>11, <1>13 DEF InOrder, Taken
  <2>2. CASE u = s /\ n = k
    <3>1. m # k /\ m \in Nat
      BY <2>2, Numbering, <1>9
    <3>2. Taken(s, m) /\ occ'[s][m] = occ[s][m]
      BY <2>2, <3>1, <1>11, <1>13
    <3>3. occ[s][m].born < old.next
      BY <3>2, <1>3 DEF Ahead
    <3> QED BY <2>2, <3>2, <3>3, <1>8, <1>11 DEF Timely
  <2>3. CASE u = s /\ m = k /\ n # k
    BY <2>3, <1>9, <1>13, <1>14, Numbering
  <2> QED BY <2>1, <2>2, <2>3
<1>20. OneAtATime'
  <2> SUFFICES ASSUME NEW u \in Schedules, sched'[u].overlap = "skip",
                      NEW m \in Numbers, NEW n \in Numbers,
                      occ'[u][m].state \in {"queued", "claimed"},
                      occ'[u][n].state \in {"queued", "claimed"}
               PROVE  m = n
    BY DEF OneAtATime
  <2>1. sched[u].overlap = "skip"
    BY <1>4, <1>10
  <2>2. CASE u # s \/ (m # k /\ n # k)
    BY <2>1, <2>2, <1>11 DEF OneAtATime
  <2>3. CASE u = s /\ (m = k \/ n = k)
    <3>1. state = "queued"
      BY <2>3, <1>5, <1>8, <1>11
    <3>2. ~Overlaps(s)
      BY <2>1, <2>3, <3>1, <1>5 DEF Skips
    <3> QED BY <2>3, <3>2, <1>11 DEF Overlaps
  <2> QED BY <2>2, <2>3
<1> QED BY <1>12, <1>15, <1>16, <1>17, <1>18, <1>19, <1>20

----------------------------------------------------------------------------
LEMMA NextKeeps == SchedulesInv /\ [Next]_vars => SchedulesInv'
<1> SUFFICES ASSUME SchedulesInv, [Next]_vars PROVE SchedulesInv'
  OBVIOUS
<1>1. CASE UNCHANGED vars
  BY <1>1 DEF vars, SchedulesInv, TypeOK, Counted, Timely, Ahead, Selected, Due, Taken,
              InOrder, OneAtATime
<1>2. CASE Advance \/ RevokeGrant \/ StartTick \/ Crash
  BY <1>2, AdvanceKeeps, RevokeGrantKeeps, StartTickKeeps, CrashKeeps
<1>3. CASE \E status \in TaskStates : ControlTask(status)
  BY <1>3, ControlTaskKeeps
<1>4. CASE \E plan \in Plans : CreateSchedule(plan)
  BY <1>4, CreateScheduleKeeps
<1>5. CASE \E s \in Schedules :
             \E statuses \in {{}, {"active"}, {"paused"}, {"cancelled"}},
                rules \in {{}} \cup {{rule} : rule \in Rules} :
               UpdateSchedule(s, statuses, rules)
  BY <1>5, UpdateScheduleKeeps
<1>6. CASE \E s \in Schedules : Occurrence(s)
  BY <1>6, StopKeeps, FireKeeps, PostponeKeeps DEF Occurrence
<1>7. CASE \E s \in Schedules : \E n \in Numbers : Claim(s, n) \/ Settle(s, n)
  BY <1>7, ClaimKeeps, SettleKeeps
<1> QED BY <1>1, <1>2, <1>3, <1>4, <1>5, <1>6, <1>7 DEF Next

\* The invariant of the schedules holds in every behaviour: each transaction of a
\* tick, each revision and each settlement keeps it.
THEOREM Invariance == Spec => []SchedulesInv
<1>1. Init => SchedulesInv
  BY InitKept
<1>2. SchedulesInv /\ [Next]_vars => SchedulesInv'
  BY NextKeeps
<1> QED BY <1>1, <1>2, PTL DEF Spec

\* Every row keeps its type: whatever revises, pauses, resumes or crashes, no
\* schedule makes more than maxOccurrences occurrences.
THEOREM ScheduleTypes == Spec => []TypeOK
<1>1. SchedulesInv => TypeOK
  BY DEF SchedulesInv
<1> QED BY <1>1, Invariance, PTL

\* No occurrence becomes due before the one before it was taken: a moment fires
\* once, and a late tick catches up once.
THEOREM OccurrencesInOrder == Spec => []InOrder
<1>1. SchedulesInv => InOrder
  BY DEF SchedulesInv
<1> QED BY <1>1, Invariance, PTL

\* A schedule that skips overlaps never has two intents at work.
THEOREM NoOverlap == Spec => []OneAtATime
<1>1. SchedulesInv => OneAtATime
  BY DEF SchedulesInv
<1> QED BY <1>1, Invariance, PTL
=============================================================================
