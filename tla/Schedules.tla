----------------------------- MODULE Schedules -----------------------------
(***************************************************************************)
(* Schedules and the occurrences they produce (execution/schedules.ts): a  *)
(* tick of the pump turns every schedule that is due into one intent or a  *)
(* recorded skip, each in a transaction of its own, and moves the schedule *)
(* to its next time.  What happens to an accepted intent is modelled by    *)
(* Execution; here it is claimed, settled, or queued again.                *)
(*                                                                         *)
(* All schedules stand under one grant, some belong to one task.  "pass"   *)
(* holds the schedules the running tick has selected and not yet handled:  *)
(* the tick is one synchronous stretch, only a crash can interrupt it.     *)
(*                                                                         *)
(* When a schedule is due next (execution/time.ts) is said by its rule: a  *)
(* single moment, an interval in elapsed time, or a time of the local day. *)
(* The unit is the minute, the grain in which the code scans for a local   *)
(* time.  The local clock of the zone is ahead by Shift during summer      *)
(* time, from SpringAt until FallAt: it jumps over some local times and    *)
(* repeats others.  A local day has Day minutes.                           *)
(*                                                                         *)
(* No definition uses the operators named Wrong...: each one is a mistake  *)
(* in the operator that follows it, which a property has to notice.        *)
(***************************************************************************)
EXTENDS Integers, FiniteSets

CONSTANTS
  Day, SpringAt, FallAt, Shift,   \* the local clock
  Schedules,
  OfTask,            \* the schedules that belong to the task
  Rules,
  Plans,             \* the schedules callers ask for
  MaxOccurrences,    \* maxOccurrences of a schedule, skipped ones included
  GrantEnd,          \* the moment the grant expires
  Lifetime,          \* maxScheduleLifetimeHours
  Late,              \* twice the poll interval
  MaxPending, MaxRunsPerHour, MaxRunsPerGrant, Hour,
  Horizon,           \* bound: the last moment of a behaviour
  MaxRevision,       \* bound: revisions of a schedule
  MaxCrashes         \* bound: process kills

ASSUME ZoneAssumption ==
  /\ Day \in Nat \ {0} /\ Shift \in 0..(Day - 1)
  /\ SpringAt \in Nat /\ FallAt \in Nat

(* ------------------------------ due times ------------------------------- *)

Local(t) == IF SpringAt <= t /\ t < FallAt THEN t + Shift ELSE t
LocalDay(t) == Local(t) \div Day
LocalTime(t) == Local(t) % Day

NoTime == -1

Once(at, after) == IF at > after THEN at ELSE NoTime

WrongInterval(start, every, after) ==
  IF start > after THEN start
  ELSE start + ((after - start + every - 1) \div every) * every

Interval(start, every, after) ==
  IF start > after THEN start
  ELSE start + ((after - start) \div every + 1) * every

\* The scan ends after three days (and raises an error if it found no time, which
\* no real zone leads to; here it is NoTime).  A repeated time of the same day is left
\* out if the baseline already shows it or a later one.
Daily(time, after) ==
  LET Hits == {t \in (after + 1)..(after + 3 * Day) :
                 /\ LocalTime(t) = time
                 /\ LocalDay(t) = LocalDay(after) => LocalTime(after) < time}
  IN  IF Hits = {} THEN NoTime ELSE CHOOSE t \in Hits : \A u \in Hits : t <= u

\* nextScheduleTime(): a rule is [kind, at, every], where "at" is the moment,
\* the start of the interval, or the time of the day.
NextTime(rule, after) ==
  CASE rule.kind = "once"     -> Once(rule.at, after)
    [] rule.kind = "interval" -> Interval(rule.at, rule.every, after)
    [] rule.kind = "daily"    -> Daily(rule.at, after)

RuleOK(rule) ==
  /\ rule \in [kind : {"once", "interval", "daily"}, at : Nat, every : Nat]
  /\ rule.kind = "interval" => rule.every > 0
  /\ rule.kind = "daily" => rule.at < Day

(* --------------------------- the schedules ------------------------------ *)

ASSUME SchedulesAssumption ==
  /\ OfTask \subseteq Schedules
  /\ Rules # {} /\ \A rule \in Rules : RuleOK(rule)
  /\ Plans \subseteq [id: Schedules, rule: Rules, missed: {"skip", "coalesce"},
                      overlap: {"skip", "queue"}]
  /\ {GrantEnd, Lifetime, Late, Hour, Horizon, MaxCrashes} \subseteq Nat
  /\ {MaxOccurrences, MaxPending, MaxRunsPerHour, MaxRunsPerGrant, MaxRevision}
       \subseteq Nat \ {0}

VARIABLES
  now,
  revoked,     \* of the grant
  task,        \* status of the task
  sched,       \* agent_schedules
  occ,         \* schedule_occurrences with the state of their intents
  pass, crashes

vars == <<now, revoked, task, sched, occ, pass, crashes>>

Numbers == 1..MaxOccurrences   \* the n-th occurrence makes "fired" equal to n

\* "ended" stands for "done" and "blocked", which no schedule tells apart.
OccStates == {"none", "skipped", "queued", "claimed", "ended"}
TaskStates == {"open", "paused", "cancelled", "completed"}

ScheduleRows ==
  [status: {"absent", "active", "paused", "completed", "cancelled"},
   rule: Rules, revision: 0..MaxRevision, next: Nat, fired: 0..MaxOccurrences,
   missed: {"skip", "coalesce"}, overlap: {"skip", "queue"}, expires: Nat, stopped: BOOLEAN]

OccRows == [state: OccStates, revision: 0..MaxRevision, due: Nat, born: Nat]

NoSchedule == [status |-> "absent", rule |-> CHOOSE rule \in Rules : TRUE,
               revision |-> 0, next |-> 0, fired |-> 0, missed |-> "skip",
               overlap |-> "skip", expires |-> 0, stopped |-> FALSE]
NoOccurrence == [state |-> "none", revision |-> 0, due |-> 0, born |-> 0]

Init ==
  /\ now = 0 /\ revoked = FALSE /\ task = "open" /\ pass = {} /\ crashes = 0
  /\ sched = [s \in Schedules |-> NoSchedule]
  /\ occ = [s \in Schedules |-> [n \in Numbers |-> NoOccurrence]]

----------------------------------------------------------------------------
Free == pass = {}

GrantLive == ~revoked /\ now < GrantEnd

\* authorize() with the task of the schedule
Authorized(s) == GrantLive /\ (s \in OfTask => task = "open")

Intent(p) == occ[p[1]][p[2]]
Intents == {p \in Schedules \X Numbers : Intent(p).state \notin {"none", "skipped"}}
Pending == {p \in Intents : Intent(p).state \in {"queued", "claimed"}}

Advance ==
  /\ Free /\ now < Horizon
  /\ now' = now + 1
  /\ UNCHANGED <<revoked, task, sched, occ, pass, crashes>>

RevokeGrant ==
  /\ Free /\ ~revoked
  /\ revoked' = TRUE
  /\ occ' = [s \in Schedules |-> [n \in Numbers |->
       IF occ[s][n].state = "queued" THEN [occ[s][n] EXCEPT !.state = "ended"]
       ELSE occ[s][n]]]
  /\ UNCHANGED <<now, task, sched, pass, crashes>>

\* controlTask() and updateTask()
ControlTask(status) ==
  /\ Free /\ task \notin {"completed", "cancelled"} /\ task # status
  /\ task' = status
  /\ UNCHANGED <<now, revoked, sched, occ, pass, crashes>>

Lesser(m, n) == IF m < n THEN m ELSE n

\* createSchedule(): within the life of the grant, for a time to come.
CreateSchedule(plan) ==
  LET s == plan.id
      next == NextTime(plan.rule, now)
      expires == Lesser(GrantEnd, now + Lifetime)
  IN  /\ Free /\ sched[s].status = "absent" /\ Authorized(s)
      /\ next # NoTime /\ next < expires
      /\ sched' = [sched EXCEPT ![s] =
           [status |-> "active", rule |-> plan.rule, revision |-> 1, next |-> next,
            fired |-> 0, missed |-> plan.missed, overlap |-> plan.overlap,
            expires |-> expires, stopped |-> FALSE]]
      /\ UNCHANGED <<now, revoked, task, occ, pass, crashes>>

\* updateSchedule(): "statuses" and "rules" hold what the patch sets, if it does;
\* a new instruction alone is a patch as well.  A new rule and a resumption look
\* for the next time from now on.
UpdateSchedule(s, statuses, rules) ==
  LET old == sched[s]
      rule == IF rules = {} THEN old.rule ELSE CHOOSE r \in rules : TRUE
      status == IF statuses = {} THEN old.status ELSE CHOOSE x \in statuses : TRUE
      next == IF rules # {} \/ statuses = {"active"} THEN NextTime(rule, now)
              ELSE old.next
  IN  /\ Free /\ GrantLive /\ old.revision < MaxRevision
      /\ \/ old.status \in {"active", "paused"}
         \/ old.status = "completed" /\ statuses = {"cancelled"}
      /\ next # NoTime /\ next < old.expires
      /\ sched' = [sched EXCEPT ![s].status = status, ![s].rule = rule,
                                ![s].next = next, ![s].revision = @ + 1]
      /\ UNCHANGED <<now, revoked, task, occ, pass, crashes>>

----------------------------------------------------------------------------
(* tick()                                                                  *)

Due(s) == sched[s].status = "active" /\ sched[s].next <= now

StartTick ==
  /\ Free /\ \E s \in Schedules : Due(s)
  /\ pass' = {s \in Schedules : Due(s)}
  /\ UNCHANGED <<now, revoked, task, sched, occ, crashes>>

\* The rows were selected in the order of their time.
Turn(s) == s \in pass /\ \A u \in pass : sched[s].next <= sched[u].next

Exhausted(s) == sched[s].expires <= now \/ sched[s].fired >= MaxOccurrences

WrongCancelled(row) == row
Cancelled(row) == [row EXCEPT !.status = "cancelled"]

\* A schedule whose grant or task is gone, or that has come to its end.
Stop(s) ==
  /\ Turn(s) /\ pass' = pass \ {s}
  /\ \/ ~Authorized(s) /\ sched' = [sched EXCEPT ![s] = Cancelled(@)]
     \/ /\ Authorized(s) /\ Exhausted(s)
        /\ sched' = [sched EXCEPT ![s].status = "completed"]
  /\ UNCHANGED <<now, revoked, task, occ, crashes>>

WrongOverlaps(s) == \E n \in Numbers : occ[s][n].state = "claimed"
Overlaps(s) == \E n \in Numbers : occ[s][n].state \in {"queued", "claimed"}

Skips(s) ==
  \/ sched[s].missed = "skip" /\ now - sched[s].next > Late
  \/ sched[s].overlap = "skip" /\ Overlaps(s)

\* The limits of accept(): queue and rate first, then the budget of the grant.
Crowded ==
  \/ Cardinality(Pending) >= MaxPending
  \/ Cardinality({p \in Intents : Intent(p).born > now - Hour}) >= MaxRunsPerHour
Spent == Cardinality(Intents) >= MaxRunsPerGrant

\* The row after its occurrence.  A schedule without a next time keeps the last.
Moved(row) ==
  LET next == NextTime(row.rule, now)
      last == next = NoTime \/ next >= row.expires \/ row.fired + 1 >= MaxOccurrences
  IN  [row EXCEPT !.fired = @ + 1, !.next = IF next = NoTime THEN @ ELSE next,
                  !.status = IF last THEN "completed" ELSE "active"]

Fire(s) ==
  LET state == IF Skips(s) THEN "skipped" ELSE "queued"
  IN  /\ Turn(s) /\ pass' = pass \ {s}
      /\ Authorized(s) /\ ~Exhausted(s) /\ (Skips(s) \/ ~(Crowded \/ Spent))
      /\ occ' = [occ EXCEPT ![s][sched[s].fired + 1] =
           [state |-> state, revision |-> sched[s].revision, due |-> sched[s].next,
            born |-> now]]
      /\ sched' = [sched EXCEPT ![s] = Moved(@)]
      /\ UNCHANGED <<now, revoked, task, crashes>>

\* A limit rolls the occurrence back: it stays due until there is room, unless
\* the grant itself has no runs left.
Postpone(s) ==
  /\ Turn(s) /\ pass' = pass \ {s}
  /\ Authorized(s) /\ ~Exhausted(s) /\ ~Skips(s)
  /\ \/ Crowded /\ UNCHANGED sched
     \/ /\ ~Crowded /\ Spent
        /\ sched' = [sched EXCEPT ![s].status = "completed", ![s].stopped = TRUE]
  /\ UNCHANGED <<now, revoked, task, occ, crashes>>

----------------------------------------------------------------------------
(* The intents.                                                            *)

\* validateIntent(): the revision that produced the intent is still in force.
\* "here" says that an earlier attempt of the intent completed its task.
InForce(s, n, here) ==
  /\ GrantLive /\ (s \in OfTask => task = "open" \/ here)
  /\ occ[s][n].revision = sched[s].revision
  /\ sched[s].status \notin {"paused", "cancelled"} /\ now < sched[s].expires

Writing == \E s \in OfTask, n \in Numbers : occ[s][n].state = "claimed"

Claim(s, n) ==
  /\ Free /\ occ[s][n].state = "queued" /\ (s \in OfTask => ~Writing)
  /\ \E here \in {h \in BOOLEAN : h => task = "completed"} :
       occ' = [occ EXCEPT ![s][n].state =
                 IF InForce(s, n, here) THEN "claimed" ELSE "ended"]
  /\ UNCHANGED <<now, revoked, task, sched, pass, crashes>>

\* finish(), or the deferral of the attempt
Settle(s, n) ==
  /\ Free /\ occ[s][n].state = "claimed"
  /\ \E state \in {"ended", "queued"} :
       occ' = [occ EXCEPT ![s][n].state = state]
  /\ UNCHANGED <<now, revoked, task, sched, pass, crashes>>

Claimed == {p \in Intents : Intent(p).state = "claimed"}

\* The process is killed and recovered: the rest of a tick is forgotten, and
\* claimed work is queued again or at its end.
Crash ==
  /\ crashes < MaxCrashes /\ crashes' = crashes + 1
  /\ pass' = {}
  /\ \E again \in SUBSET Claimed :
       occ' = [s \in Schedules |-> [n \in Numbers |->
         IF <<s, n>> \in Claimed
           THEN [occ[s][n] EXCEPT !.state = IF <<s, n>> \in again THEN "queued" ELSE "ended"]
           ELSE occ[s][n]]]
  /\ UNCHANGED <<now, revoked, task, sched>>

----------------------------------------------------------------------------
Occurrence(s) == Stop(s) \/ Fire(s) \/ Postpone(s)

Next ==
  \/ Advance \/ RevokeGrant \/ \E status \in TaskStates : ControlTask(status)
  \/ \E plan \in Plans : CreateSchedule(plan)
  \/ \E s \in Schedules :
       \/ \E statuses \in {{}, {"active"}, {"paused"}, {"cancelled"}},
             rules \in {{}} \cup {{rule} : rule \in Rules} :
            UpdateSchedule(s, statuses, rules)
       \/ Occurrence(s)
       \/ \E n \in Numbers : Claim(s, n) \/ Settle(s, n)
  \/ StartTick \/ Crash

Spec == Init /\ [][Next]_vars

\* The poll timer starts ticks and a tick runs to its end; time passes however
\* often the timer fires.
Fairness ==
  /\ SF_vars(Advance) /\ WF_vars(StartTick)
  /\ WF_vars(\E s \in Schedules : Occurrence(s))

FairSpec == Spec /\ Fairness

----------------------------------------------------------------------------
(* Properties.                                                             *)

\* Every row is of its type; in particular revisions and resumptions never
\* renew the budget of occurrences.
TypeOK ==
  /\ now \in Nat /\ revoked \in BOOLEAN /\ task \in TaskStates
  /\ sched \in [Schedules -> ScheduleRows]
  /\ occ \in [Schedules -> [Numbers -> OccRows]]
  /\ pass \subseteq Schedules /\ crashes \in 0..MaxCrashes

\* Whatever is missed, revised, paused, resumed or crashed, the occurrences of a
\* schedule follow one another: none becomes due before the one before it was
\* taken, so a moment fires once and a late tick catches up once (schedules.ts:153).
InOrder ==
  \A s \in Schedules : \A m, n \in Numbers :
    m < n /\ occ[s][m].state # "none" /\ occ[s][n].state # "none" =>
      occ[s][m].due <= occ[s][m].born /\ occ[s][m].born < occ[s][n].due

\* A schedule that skips overlaps never has two intents at work, although they
\* are deferred, queued again after a crash, and revised (schedules.ts:174).
OneAtATime ==
  \A s \in Schedules : sched[s].overlap = "skip" =>
    \A m, n \in Numbers :
      occ[s][m].state \in {"queued", "claimed"} /\ occ[s][n].state \in {"queued", "claimed"}
        => m = n

\* No schedule stays active for ever: it pauses, completes or is cancelled, even
\* if queues are full and ticks are cut off by crashes (schedules.ts:169).
EveryEnds == \A s \in Schedules : sched[s].status = "active" ~> sched[s].status # "active"

\* The comment on nextScheduleTime and the test of calendar rules say that a
\* repeated local time is taken once a day (time.ts:3): one rule fires at most
\* once on a local day.
OncePerDay ==
  \A s \in Schedules : \A m, n \in Numbers :
    sched[s].rule.kind = "daily" /\ m # n
      /\ occ[s][m].state # "none" /\ occ[s][n].state # "none"
      /\ occ[s][m].revision = occ[s][n].revision
    => LocalDay(occ[s][m].due) # LocalDay(occ[s][n].due)
----------------------------------------------------------------------------
(* The inductive invariant behind InOrder and OneAtATime (proved in         *)
(* Schedules_proofs).                                                      *)

Taken(s, n) == occ[s][n].state # "none"

\* "fired" counts the occurrences of a schedule.
Counted ==
  \A s \in Schedules :
    /\ \A n \in Numbers : Taken(s, n) <=> n <= sched[s].fired
    /\ sched[s].status = "absent" => sched[s].fired = 0

Timely == \A s \in Schedules : \A n \in Numbers :
  Taken(s, n) => occ[s][n].due <= occ[s][n].born /\ occ[s][n].born <= now

\* A schedule that may still fire looks past everything it has taken.
Ahead == \A s \in Schedules : sched[s].status \in {"active", "paused"} =>
  \A n \in Numbers : Taken(s, n) => occ[s][n].born < sched[s].next

\* What a tick has selected is still due when its turn comes.
Selected == \A s \in pass : Due(s)

SchedulesInv ==
  TypeOK /\ Counted /\ Timely /\ Ahead /\ Selected /\ InOrder /\ OneAtATime
=============================================================================
