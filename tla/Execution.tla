----------------------------- MODULE Execution -----------------------------
(***************************************************************************)
(* The durable execution queue of the runtime and the background runs it   *)
(* drives: grants, intents, run traces, operations and results, which live *)
(* in one SQLite database (execution/store.ts, execution/operations.ts,    *)
(* trace/sqlite-store.ts), and the in-memory side that claims an intent,   *)
(* runs the agent or a reminder, calls tools and delivers the result       *)
(* (runtime/runtime-core.ts, run-coordinator.ts, delivery.ts).             *)
(*                                                                         *)
(* A database transaction is one step.  The process is single-threaded:    *)
(* between two awaits a handler runs without interruption, but the process *)
(* may be killed between two of its transactions.  "turn" holds the intent *)
(* whose handler is inside such a stretch; only Crash is possible then.    *)
(*                                                                         *)
(* Time is relative: a grant has a remaining life, an intent a remaining   *)
(* backoff and an age, and Tick moves all of them.                         *)
(*                                                                         *)
(* No definition uses the operators named Wrong...: each one is a mistake  *)
(* in the operator that follows it, which a property has to notice.        *)
(***************************************************************************)
EXTENDS Integers, FiniteSets

CONSTANTS
  Grants, Tasks,
  None,              \* no task, no key
  Keys,              \* idempotency keys the callers use
  Kinds,             \* subset of {"agent", "reminder"}
  Natives,           \* subset of BOOLEAN: are results delivered natively?
  External, Local,   \* tool calls (a tool and its input) with effect "external"
                     \* and "transactional"
  FinishTool,        \* the local call of runtime.finish, or "none"
  MaxIntents,        \* bound: requests accepted in a behaviour
  MaxCrashes,        \* bound: process kills in a behaviour
  MaxAttempts, MaxModelCalls, MaxToolCalls,
  MaxPending, MaxRunsPerHour, MaxRunsPerGrant, MaxConcurrent,
  GrantLife, Hour, Retention, BaseDelay, MaxDelay

ASSUME ExecutionAssumption ==
  /\ Grants # {} /\ None \notin Tasks
  /\ Kinds \subseteq {"agent", "reminder"} /\ Natives \subseteq BOOLEAN
  /\ External \cap Local = {} /\ "none" \notin External \cup Local
  /\ FinishTool \in {"none"} \cup Local
  /\ {MaxIntents, MaxCrashes, MaxModelCalls, MaxToolCalls, Hour} \subseteq Nat
  /\ {MaxAttempts, MaxPending, MaxRunsPerHour, MaxRunsPerGrant, MaxConcurrent,
      GrantLife, BaseDelay, MaxDelay} \subseteq Nat \ {0}
  /\ Retention \in Nat /\ Retention >= Hour   \* retentionHours is at least 1

Intents == 1..MaxIntents         \* in the order of acceptance (ordinal)
CallNumbers == 1..MaxToolCalls   \* tool-call:<intent>:<sequence>
Tools == External \cup Local

Outcome == INSTANCE Outcome WITH Calls <- CallNumbers, Artifacts <- {}

VARIABLES
  (* Durable: the tables of the runtime database. *)
  grants,    \* execution_grants
  tasks,     \* agent_tasks: status, and the run that completed the task
  intents,   \* execution_intents
  runs,      \* run_traces and run_events, folded by Outcome
  calls,     \* execution_operations of the tool calls
  send,      \* execution_operations of the delivery
  result,    \* execution_results
  usage,     \* execution_usage
  (* Volatile: the process. *)
  boot, proc, turn,
  (* The outside world and the bound on crashes. *)
  world, crashes

db   == <<grants, tasks, intents, runs, calls, send, result, usage>>
vars == <<db, boot, proc, turn, world, crashes>>

States    == {"absent", "queued", "claimed", "done", "blocked", "collected"}
Statuses  == {"accepted", "running"} \cup Outcome!Verdicts
Terminal  == {"succeeded", "failed", "blocked", "uncertain"}
OpStates  == {"none", "started", "succeeded", "failed", "blocked", "uncertain"}
Results   == {"none", "silent", "notify"}
AsyncPoints == {"idle", "model", "thinking", "tool", "acting", "permit",
                "sending", "native", "opening", "ended"}
SyncPoints  == {"claimed", "calling", "opened", "closed", "defer", "save", "deliver",
                "handing", "stamping", "acked", "ending"}

GrantRows  == [status: {"unissued", "valid", "revoked"}, life: 0..GrantLife]
TaskRows   == [status: {"open", "paused", "cancelled", "completed"},
               by: {0} \cup Intents]
IntentRows == [state: States, attempts: 0..MaxAttempts, wait: 0..MaxDelay,
               age: 0..(Retention + 1), grant: Grants, task: Tasks \cup {None},
               key: Keys \cup {None}, kind: {"agent", "reminder"}, native: BOOLEAN,
               origin: {0} \cup Intents, stale: BOOLEAN]
RunRows    == [status: Statuses, log: Outcome!Outcomes,
               receipted: SUBSET CallNumbers, refused: BOOLEAN, touched: BOOLEAN]
CallRows   == [name: {"none"} \cup Tools, state: OpStates]
UsageRows  == [models: 0..MaxModelCalls, tools: 0..MaxToolCalls]
Boots      == {"up", "down", "reconciled", "recovered"}
Handlers   == [pc: AsyncPoints \cup SyncPoints, seq: 0..MaxToolCalls,
               halted: BOOLEAN, recovery: BOOLEAN, out: Results,
               mem: Outcome!Outcomes]
Worlds     == [sent: Nat, arrived: BOOLEAN, acted: [CallNumbers -> Nat]]

NewIntent == [state |-> "absent", attempts |-> 0, wait |-> 0, age |-> 0,
              grant |-> CHOOSE g \in Grants : TRUE, task |-> None,
              key |-> None, kind |-> "agent",
              native |-> FALSE, origin |-> 0, stale |-> FALSE]
NewRun   == [status |-> "accepted", log |-> Outcome!NewOutcome,
             receipted |-> {}, refused |-> FALSE, touched |-> FALSE]
NoCalls  == [n \in CallNumbers |-> [name |-> "none", state |-> "none"]]
IdleProc == [pc |-> "idle", seq |-> 0, halted |-> FALSE, recovery |-> FALSE,
             out |-> "none", mem |-> Outcome!NewOutcome]
NewWorld == [sent |-> 0, arrived |-> FALSE, acted |-> [n \in CallNumbers |-> 0]]

Init ==
  /\ grants = [g \in Grants |-> [status |-> "unissued", life |-> 0]]
  /\ tasks = [t \in Tasks |-> [status |-> "open", by |-> 0]]
  /\ intents = [i \in Intents |-> NewIntent]
  /\ runs = [i \in Intents |-> NewRun]
  /\ calls = [i \in Intents |-> NoCalls]
  /\ send = [i \in Intents |-> "none"]
  /\ result = [i \in Intents |-> "none"]
  /\ usage = [i \in Intents |-> [models |-> 0, tools |-> 0]]
  /\ boot = "up" /\ turn = 0 /\ crashes = 0
  /\ proc = [i \in Intents |-> IdleProc]
  /\ world = [i \in Intents |-> NewWorld]

----------------------------------------------------------------------------
(* Reading the tables.                                                     *)

Rows == {i \in Intents : intents[i].state \notin {"absent", "collected"}}
Pending == {i \in Rows : intents[i].state \in {"queued", "claimed"}}
Active == {i \in Intents : proc[i].pc # "idle"}

\* authorize(): an issued grant, neither revoked nor expired.
Live(g) == grants[g].status = "valid" /\ grants[g].life > 0

\* validateIntent(): checked again at every model, tool and delivery boundary.
Valid(i) ==
  LET row == intents[i]
  IN  /\ Live(row.grant)
      /\ row.task # None =>
           \/ tasks[row.task].status = "open"
           \/ tasks[row.task].status = "completed" /\ tasks[row.task].by = i
      /\ ~row.stale

\* The effect of the delivery operation depends on where the result goes.
Unknown(i) ==
  \/ send[i] = "uncertain"
  \/ send[i] = "started" /\ ~intents[i].native
  \/ \E n \in CallNumbers :
        \/ calls[i][n].state = "uncertain"
        \/ calls[i][n].state = "started" /\ calls[i][n].name \in External

\* started or uncertain, whatever the effect
Undecided(i) ==
  \/ send[i] \in {"started", "uncertain"}
  \/ \E n \in CallNumbers : calls[i][n].state \in {"started", "uncertain"}

NoOperation(i) ==
  send[i] = "none" /\ \A n \in CallNumbers : calls[i][n].state = "none"

----------------------------------------------------------------------------
(* Grants, tasks, schedules and time.                                      *)

Free == turn = 0 /\ boot = "up"

\* issueGrant(): repeating the input does not renew an issued grant.
IssueGrant(g) ==
  /\ Free /\ grants[g].status = "unissued"
  /\ grants' = [grants EXCEPT ![g] = [status |-> "valid", life |-> GrantLife]]
  /\ UNCHANGED <<tasks, intents, runs, calls, send, result, usage, boot, proc,
                 turn, world, crashes>>

\* revokeGrant(): queued work is blocked, running work meets the next check.
RevokeGrant(g) ==
  /\ Free /\ grants[g].status # "unissued"
  /\ grants' = [grants EXCEPT ![g].status = "revoked"]
  /\ intents' = [i \in Intents |->
       IF intents[i].state = "queued" /\ intents[i].grant = g
       THEN [intents[i] EXCEPT !.state = "blocked"] ELSE intents[i]]
  /\ UNCHANGED <<tasks, runs, calls, send, result, usage, boot, proc, turn,
                 world, crashes>>

\* controlTask() and the status changes of updateTask() by other runs.
ControlTask(t, status) ==
  /\ Free /\ tasks[t].status \notin {"completed", "cancelled"}
  /\ tasks[t].status # status
  /\ tasks' = [tasks EXCEPT ![t].status = status]
  /\ UNCHANGED <<grants, intents, runs, calls, send, result, usage, boot, proc,
                 turn, world, crashes>>

\* The schedule that produced the intent is revised, paused, cancelled or
\* expires: its revision never comes back.
Supersede(i) ==
  /\ Free /\ i \in Pending /\ ~intents[i].stale /\ intents[i].origin = 0
  /\ intents' = [intents EXCEPT ![i].stale = TRUE]
  /\ UNCHANGED <<grants, tasks, runs, calls, send, result, usage, boot, proc,
                 turn, world, crashes>>

Less(n) == IF n = 0 THEN 0 ELSE n - 1
Older(n) == IF n > Retention THEN n ELSE n + 1

Tick ==
  /\ turn = 0
  /\ grants' = [g \in Grants |-> [grants[g] EXCEPT !.life = Less(@)]]
  /\ intents' = [i \in Intents |->
       IF i \in Rows THEN [intents[i] EXCEPT !.wait = Less(@), !.age = Older(@)]
       ELSE intents[i]]
  /\ UNCHANGED <<tasks, runs, calls, send, result, usage, boot, proc, turn,
                 world, crashes>>

----------------------------------------------------------------------------
(* Accepting work.                                                         *)

\* Runs outlive collected intents: the same request finds its old run again.
Predecessors(origin, k) ==
  {j \in Intents : /\ intents[j].state = "collected"
                   /\ intents[j].origin = origin /\ intents[j].key = k}

\* accept(): capacity, rate and the budget of the grant, then intent and run
\* in one transaction.  A known request returns its intent and changes nothing.
Accept(g, t, k, kind, native, origin) ==
  \E i \in Intents :
    /\ intents[i].state = "absent" /\ \A j \in 1..(i - 1) : intents[j].state # "absent"
    /\ \A j \in Rows : intents[j].origin # origin \/ intents[j].key # k
    /\ Live(g) /\ (t # None => tasks[t].status = "open")
    /\ Cardinality(Pending) < MaxPending
    /\ Cardinality({j \in Rows : intents[j].age < Hour}) < MaxRunsPerHour
    /\ Cardinality({j \in Rows : intents[j].grant = g}) < MaxRunsPerGrant
    /\ intents' = [intents EXCEPT ![i] =
         [state |-> "queued", attempts |-> 0, wait |-> 0, age |-> 0, grant |-> g,
          task |-> t, key |-> k, kind |-> kind, native |-> native,
          origin |-> origin, stale |-> FALSE]]
    /\ \/ Predecessors(origin, k) = {} /\ UNCHANGED <<runs, usage>>
       \/ \E j \in Predecessors(origin, k) :
            /\ \A l \in Predecessors(origin, k) : l <= j
            /\ runs' = [runs EXCEPT ![i] = runs[j]]
            /\ usage' = [usage EXCEPT ![i] = usage[j]]
    /\ UNCHANGED <<grants, tasks, calls, send, result, boot, proc, turn, world,
                   crashes>>

Submit == Free /\ \E g \in Grants, t \in Tasks \cup {None}, k \in Keys,
                     kind \in Kinds, native \in Natives :
                    Accept(g, t, k, kind, native, 0)

\* retryDelivery(): only a confirmed failure to send, and the stored result.
RetryDelivery(o, k) ==
  /\ Free /\ o \in Rows /\ result[o] = "notify"
  /\ runs[o].status = "failed" /\ runs[o].refused /\ ~Undecided(o)
  /\ Accept(intents[o].grant, None, k, intents[o].kind, intents[o].native, o)

\* collect(): settled, old, under a dead grant, and nothing left undecided.
WrongCollectable(i) ==
  intents[i].state \in {"done", "blocked"} /\ intents[i].age > Retention /\ ~Undecided(i)

Collectable(i) ==
  /\ intents[i].state \in {"done", "blocked"} /\ intents[i].age > Retention
  /\ (grants[intents[i].grant].life = 0 \/ grants[intents[i].grant].status = "revoked")
  /\ ~Undecided(i)

Collect ==
  /\ Free /\ \E i \in Intents : Collectable(i)
  /\ intents' = [i \in Intents |->
       IF Collectable(i) THEN [intents[i] EXCEPT !.state = "collected"] ELSE intents[i]]
  /\ calls' = [i \in Intents |-> IF Collectable(i) THEN NoCalls ELSE calls[i]]
  /\ send' = [i \in Intents |-> IF Collectable(i) THEN "none" ELSE send[i]]
  /\ result' = [i \in Intents |-> IF Collectable(i) THEN "none" ELSE result[i]]
  /\ UNCHANGED <<grants, tasks, runs, usage, boot, proc, turn, world, crashes>>

----------------------------------------------------------------------------
(* The handler of one claimed intent.  At and Go tie the point a handler   *)
(* has reached to the ownership of the event loop.                         *)

At(i, pc) ==
  boot = "up" /\ proc[i].pc = pc /\ turn = IF pc \in SyncPoints THEN i ELSE 0

Go(i, p) ==
  /\ proc' = [proc EXCEPT ![i] = p]
  /\ turn' = IF p.pc \in SyncPoints THEN i ELSE 0

To(i, pc) == Go(i, [proc[i] EXCEPT !.pc = pc])

\* recorder.fail() is remembered by the attempt only, it is not an event.
Stop(i, status) ==
  Go(i, [proc[i] EXCEPT !.pc = "ending", !.mem = Outcome!Fail(@, status)])

\* recorder.emit(): the event is persisted and observed by the live outcome.
Emit(i, log) == runs' = [runs EXCEPT ![i].log = log]

\* tool_call_started and response_sending: the trace remembers them for good.
Touch(i, log) == runs' = [runs EXCEPT ![i].log = log, ![i].touched = TRUE]

\* runnable(): due, and for a task nobody runs the earliest due intent.
Due(i) == intents[i].state = "queued" /\ intents[i].wait = 0

Rivals(i) ==
  {j \in Intents : intents[i].task # None /\ intents[j].task = intents[i].task}

WrongTaskHeld(i) == \E j \in Rivals(i) : intents[j].state \in {"claimed", "blocked"}
WrongTaskBusy(i) == \E j \in Rivals(i) : j < i /\ intents[j].state = "claimed"
TaskBusy(i) == \E j \in Rivals(i) : intents[j].state = "claimed"

Runnable ==
  {i \in Intents : Due(i) /\ ~TaskBusy(i) /\ ~\E j \in Rivals(i) : Due(j) /\ j < i}

\* #pump: as many candidates as there are free slots, in order.
Offered(i) ==
  /\ i \in Runnable
  /\ Cardinality({j \in Runnable : j < i}) + Cardinality(Active) < MaxConcurrent

\* claim(): authorization and attempts are settled before the slot is taken.
Claimable(i) == Valid(i) /\ intents[i].attempts < MaxAttempts

Claim(i) ==
  /\ Free /\ Offered(i) /\ proc[i].pc = "idle"
  /\ Claimable(i) /\ ~TaskBusy(i)
  /\ intents' = [intents EXCEPT ![i].state = "claimed", ![i].attempts = @ + 1,
                                ![i].wait = 0]
  /\ Go(i, [IdleProc EXCEPT !.pc = "claimed"])
  /\ UNCHANGED <<grants, tasks, runs, calls, send, result, usage, boot, world,
                 crashes>>

\* blockRun(): the trace of a refused intent ends as well.
BlockRun(i) ==
  IF runs[i].status \in {"accepted", "running", "interrupted"}
  THEN runs' = [runs EXCEPT ![i].status = "blocked"]
  ELSE UNCHANGED runs

Refuse(i) ==
  /\ Free /\ Offered(i) /\ proc[i].pc = "idle"
  /\ ~Claimable(i)
  /\ intents' = [intents EXCEPT ![i].state = "blocked"]
  /\ BlockRun(i)
  /\ UNCHANGED <<grants, tasks, calls, send, result, usage, boot, proc, turn,
                 world, crashes>>

\* begin(): only a run that has not ended starts (again).
WrongStartable(i) == runs[i].status # "running"
Startable(i) == runs[i].status \in {"accepted", "interrupted"}

\* executeBackground(): the attempt is recorded, then a stored result, of this
\* run or of the run whose delivery is retried, goes before any work.
StoredElsewhere(i) == IF intents[i].origin # 0 THEN result[intents[i].origin] ELSE "none"
WrongStored(i) == result[i]
Stored(i) ==
  IF result[i] # "none" THEN result[i] ELSE StoredElsewhere(i)

Begin(i) ==
  /\ At(i, "claimed") /\ Startable(i)
  /\ runs' = [runs EXCEPT ![i].status = "running", ![i].log = Outcome!NewOutcome]
  /\ IF Stored(i) # "none"
     THEN Go(i, [proc[i] EXCEPT !.pc = "save", !.out = Stored(i)])
     ELSE IF intents[i].kind = "reminder"
          THEN Go(i, [proc[i] EXCEPT !.pc = "save", !.out = "notify"])
          ELSE To(i, "model")
  /\ UNCHANGED <<grants, tasks, intents, calls, send, result, usage, boot, world,
                 crashes>>

\* The run of a collected intent had already ended: its trace takes no events.
BeginRefused(i) ==
  /\ At(i, "claimed") /\ ~Startable(i)
  /\ To(i, "ended")
  /\ UNCHANGED <<grants, tasks, intents, runs, calls, send, result, usage, boot,
                 world, crashes>>

----------------------------------------------------------------------------
(* The agent loop: model steps and tool calls.                             *)

\* checkpoint(), then consume("model"): budgets are spent across attempts.
StartModel(i) ==
  /\ At(i, "model") /\ Valid(i) /\ usage[i].models < MaxModelCalls
  /\ usage' = [usage EXCEPT ![i].models = @ + 1]
  /\ To(i, "thinking")
  /\ UNCHANGED <<grants, tasks, intents, runs, calls, send, result, boot, world,
                 crashes>>

\* A checkpoint without authorization, an exhausted budget, an input that does
\* not fit, or the step limit of the loop; only some reach the trace.
ModelRefused(i) ==
  /\ At(i, "model")
  /\ Stop(i, "failed")
  /\ runs' = runs \/ Emit(i, Outcome!ModelFailed(runs[i].log))
  /\ UNCHANGED <<grants, tasks, intents, calls, send, result, usage, boot, world,
                 crashes>>

\* A final text: background work stays silent unless runtime.finish said more.
ReplyText(i) ==
  /\ At(i, "thinking")
  /\ Go(i, [proc[i] EXCEPT !.pc = "save", !.out = "silent"])
  /\ UNCHANGED <<grants, tasks, intents, runs, calls, send, result, usage, boot,
                 world, crashes>>

\* model_call_failed is recorded before the decision to retry.
ReplyFailed(i, retryable) ==
  /\ At(i, "thinking")
  /\ Emit(i, Outcome!ModelFailed(runs[i].log))
  /\ Go(i, [proc[i] EXCEPT !.pc = IF retryable THEN "defer" ELSE "ending",
                           !.mem = Outcome!ModelFailed(@)])
  /\ UNCHANGED <<grants, tasks, intents, calls, send, result, usage, boot, world,
                 crashes>>

Backoff(attempts) ==
  LET delay == BaseDelay * 2^(attempts - 1)
  IN  IF delay \in 0..MaxDelay THEN delay ELSE MaxDelay

\* retryModel(): nothing but model calls may have happened in this run.
MayRetry(i) ==
  /\ intents[i].state = "claimed" /\ intents[i].attempts < MaxAttempts
  /\ result[i] = "none" /\ runs[i].status = "running" /\ Valid(i)
  /\ usage[i].models < MaxModelCalls /\ NoOperation(i)
  /\ ~runs[i].touched

Defer(i) ==
  /\ At(i, "defer")
  /\ IF MayRetry(i)
     THEN /\ runs' = [runs EXCEPT ![i].status = "interrupted"]
          /\ intents' = [intents EXCEPT ![i].state = "queued",
                                        ![i].wait = Backoff(intents[i].attempts)]
          /\ To(i, "ended")
     ELSE Stop(i, "failed") /\ UNCHANGED <<runs, intents>>
  /\ UNCHANGED <<grants, tasks, calls, send, result, usage, boot, world, crashes>>

\* The receipt of the operation precedes the event in the trace.
Receipt(i, status) ==
  calls' = [calls EXCEPT ![i][proc[i].seq].state = status]

\* The deadline of the run: the handler stops waiting.  The outcome of a tool
\* that is acting is unknown, a result that arrives later is dropped; an external
\* tool that was not even called yet is treated alike.
Aborted(i) ==
  IF calls[i][proc[i].seq].name \in External THEN "uncertain" ELSE "failed"

Deadline(i) ==
  /\ \/ At(i, "thinking") /\ UNCHANGED calls
     \/ At(i, "tool") /\ Receipt(i, Aborted(i))
     \/ At(i, "acting") /\ Receipt(i, Aborted(i))
  /\ Stop(i, "failed")
  /\ UNCHANGED <<grants, tasks, intents, runs, send, result, usage, boot, world,
                 crashes>>

\* The model answered with tool calls: the first of them, or the next.
Choosing(i) == At(i, "thinking") \/ At(i, "calling")

\* The limit of the loop, or the authorization is gone when a tool is asked for.
ToolRefused(i) ==
  /\ Choosing(i) /\ (proc[i].seq = MaxToolCalls \/ ~Valid(i))
  /\ Stop(i, "failed")
  /\ UNCHANGED <<grants, tasks, intents, runs, calls, send, result, usage, boot,
                 world, crashes>>

\* What the stored operation of the n-th call says about calling it (again).
Fresh(i, n, name) ==
  LET op == calls[i][n]
  IN  \/ op.state = "none"
      \/ op.state = "started" /\ op.name = name /\ name \in Local
Replayed(i, n, name) ==
  calls[i][n].name = name /\ calls[i][n].state \in {"succeeded", "blocked"}

\* A recorded answer is handed back; a conflict or an unknown outcome halts
\* the tools of this attempt; otherwise the operation starts.
CallTool(i, name) ==
  LET n == proc[i].seq + 1
      p == [proc[i] EXCEPT !.seq = n]
      opens == ~p.halted /\ Fresh(i, n, name) /\ usage[i].tools < MaxToolCalls
  IN  /\ Choosing(i) /\ Valid(i) /\ n \in CallNumbers
      /\ \/ /\ opens
            /\ usage' = [usage EXCEPT ![i].tools = @ + 1]
            /\ calls' = [calls EXCEPT ![i][n] = [name |-> name, state |-> "started"]]
            /\ Go(i, [p EXCEPT !.pc = "opened"])
         \/ /\ ~opens
            /\ \E next \in {"calling", "model"} :
                 Go(i, [p EXCEPT !.pc = next, !.halted = @ \/ ~Replayed(i, n, name)])
            /\ UNCHANGED <<usage, calls>>
         \/ /\ \E next \in {"calling", "model"} : Go(i, [p EXCEPT !.pc = next])
            /\ UNCHANGED <<usage, calls>>   \* disabled for the workspace
      /\ UNCHANGED <<grants, tasks, intents, runs, send, result, boot, world,
                     crashes>>

\* tool_call_started
OpenTool(i) ==
  LET n == proc[i].seq
  IN  /\ At(i, "opened")
      /\ Touch(i, Outcome!ToolStarted(runs[i].log, n))
      /\ Go(i, [proc[i] EXCEPT !.pc = "tool", !.mem = Outcome!ToolStarted(@, n)])
      /\ UNCHANGED <<grants, tasks, intents, calls, send, result, usage, boot,
                     world, crashes>>

\* Permission denied, or the tool refused before it had any effect.
DenyTool(i) ==
  /\ At(i, "tool")
  /\ \E status \in {"blocked", "failed"} : Receipt(i, status)
  /\ To(i, "closed")
  /\ UNCHANGED <<grants, tasks, intents, runs, send, result, usage, boot, world,
                 crashes>>

RunExternal(i) ==
  LET n == proc[i].seq
  IN  /\ At(i, "tool") /\ calls[i][n].name \in External
      /\ world' = [world EXCEPT ![i].acted[n] = @ + 1]
      /\ To(i, "acting")
      /\ UNCHANGED <<grants, tasks, intents, runs, calls, send, result, usage,
                     boot, crashes>>

\* transactionalTool(): the change and its receipt commit together.
\* runtime.finish stores the result, task.update may complete the own task.
RunLocal(i) ==
  LET n == proc[i].seq
      t == intents[i].task
  IN  /\ At(i, "tool") /\ calls[i][n].name \in Local
      /\ Receipt(i, "succeeded")
      /\ IF calls[i][n].name = FinishTool
         THEN /\ result' \in {[result EXCEPT ![i] = r] : r \in {"silent", "notify"}}
              /\ UNCHANGED tasks
         ELSE /\ UNCHANGED result
              /\ tasks' \in {tasks} \cup
                   IF t # None /\ tasks[t].status = "open"
                   THEN {[tasks EXCEPT ![t] = [status |-> "completed", by |-> i]]}
                   ELSE {}
      /\ To(i, "closed")
      /\ UNCHANGED <<grants, intents, runs, send, usage, boot, world, crashes>>

\* An external tool that throws leaves an unknown outcome; the class of the
\* error tells whether the tool was aborted.
AnswerTool(i) ==
  /\ At(i, "acting")
  /\ \/ Receipt(i, "succeeded") /\ To(i, "closed")
     \/ /\ Receipt(i, "uncertain")
        /\ \E recovery \in BOOLEAN :
              Go(i, [proc[i] EXCEPT !.pc = "closed", !.recovery = recovery])
  /\ UNCHANGED <<grants, tasks, intents, runs, send, result, usage, boot, world,
                 crashes>>

Observed(o, n, status, recovery) ==
  IF status \in {"succeeded", "blocked"} THEN Outcome!ToolAnswered(o, n)
  ELSE Outcome!ToolFailed(o, n, recovery)

CloseTool(i) ==
  LET n == proc[i].seq
      status == calls[i][n].state
      mem == IF status = "uncertain" THEN Outcome!Fail(proc[i].mem, "uncertain")
             ELSE proc[i].mem
      p == [proc[i] EXCEPT !.recovery = FALSE,
              !.halted = @ \/ status \in {"failed", "uncertain"},
              !.mem = Observed(mem, n, status, proc[i].recovery)]
  IN  /\ At(i, "closed")
      /\ Emit(i, Observed(runs[i].log, n, status, proc[i].recovery))
      /\ IF result[i] # "none"
         THEN Go(i, [p EXCEPT !.pc = "save", !.out = result[i]])
         ELSE \E next \in {"calling", "model"} : Go(i, [p EXCEPT !.pc = next])
      /\ UNCHANGED <<grants, tasks, intents, calls, send, result, usage, boot,
                     world, crashes>>

----------------------------------------------------------------------------
(* The result and its delivery.                                            *)

SaveResult(i) ==
  /\ At(i, "save")
  /\ result' = [result EXCEPT ![i] = proc[i].out]
  /\ To(i, "deliver")
  /\ UNCHANGED <<grants, tasks, intents, runs, calls, send, usage, boot, world,
                 crashes>>

\* Nothing was handed out yet, or only a native append that may be repeated.
Sendable(i) == send[i] = "none" \/ (send[i] = "started" /\ intents[i].native)

\* After the result: authorization again, then the delivery operation decides.
Deliver(i) ==
  /\ At(i, "deliver")
  /\ \/ ~Valid(i) /\ Stop(i, "failed") /\ UNCHANGED runs
     \/ /\ Valid(i) /\ result[i] = "silent"
        /\ Emit(i, Outcome!Completed(runs[i].log))
        /\ Go(i, [proc[i] EXCEPT !.pc = "ending", !.mem = Outcome!Completed(@)])
     \/ /\ Valid(i) /\ result[i] = "notify" /\ send[i] = "succeeded"
        /\ Emit(i, Outcome!ResponseSent(runs[i].log, intents[i].native, {}))
        /\ Go(i, [proc[i] EXCEPT !.pc = "ending",
                    !.mem = Outcome!ResponseSent(@, intents[i].native, {})])
     \/ /\ Valid(i) /\ result[i] = "notify" /\ Sendable(i)
        /\ To(i, IF intents[i].native THEN "native" ELSE "permit")
        /\ UNCHANGED runs
     \/ /\ Valid(i) /\ result[i] = "notify"
        /\ send[i] # "succeeded" /\ ~Sendable(i)
        /\ Stop(i, "uncertain") /\ UNCHANGED runs
  /\ UNCHANGED <<grants, tasks, intents, calls, send, result, usage, boot, world,
                 crashes>>

\* The permission answer arrives; authorization or the channel may be gone.
PermitRefused(i) ==
  /\ At(i, "permit")
  /\ \E status \in {"blocked", "failed"} : Stop(i, status)
  /\ UNCHANGED <<grants, tasks, intents, runs, calls, send, result, usage, boot,
                 world, crashes>>

WrongStartSend(i) ==
  /\ At(i, "permit")
  /\ send' = [send EXCEPT ![i] = "started"]
  /\ To(i, "handing")
  /\ UNCHANGED <<grants, tasks, intents, runs, calls, result, usage, boot, world,
                 crashes>>

StartSend(i) ==
  /\ At(i, "permit") /\ Valid(i)
  /\ send' = [send EXCEPT ![i] = "started"]
  /\ To(i, "handing")
  /\ UNCHANGED <<grants, tasks, intents, runs, calls, result, usage, boot, world,
                 crashes>>

\* response_sending, and the message is handed to the channel.
HandOut(i) ==
  /\ At(i, "handing")
  /\ Touch(i, Outcome!ResponseSending(runs[i].log))
  /\ Go(i, [proc[i] EXCEPT !.pc = "sending", !.mem = Outcome!ResponseSending(@)])
  /\ \E arrives \in BOOLEAN :
       world' = [world EXCEPT ![i].sent = @ + 1, ![i].arrived = @ \/ arrives]
  /\ UNCHANGED <<grants, tasks, intents, calls, send, result, usage, boot, crashes>>

\* The answer of the channel; the deadline and a thrown error count as
\* "uncertain", and a channel that reports "failed" has not sent.
AnswerSend(i, status) ==
  /\ At(i, "sending")
  /\ status = "succeeded" => world[i].arrived
  /\ status = "failed" => ~world[i].arrived
  /\ send' = [send EXCEPT ![i] = status]
  /\ To(i, "acked")
  /\ UNCHANGED <<grants, tasks, intents, runs, calls, result, usage, boot, world,
                 crashes>>

\* A native session is read first, which is awaited, and then receives the
\* message as a line event with the identity of the delivery: appending it again
\* changes nothing.  The append is awaited too, before its operation is recorded.
WrongLine(w) == [w EXCEPT !.arrived = TRUE, !.sent = w.sent + 1]
Line(w) == IF w.arrived THEN w ELSE [w EXCEPT !.arrived = TRUE, !.sent = w.sent + 1]

AppendNative(i) ==
  /\ At(i, "native")
  /\ \/ /\ world' = [world EXCEPT ![i] = Line(world[i])]
        /\ To(i, "opening")
     \/ Stop(i, "failed") /\ UNCHANGED world   \* no such session, or it is closed
  /\ UNCHANGED <<grants, tasks, intents, runs, calls, send, result, usage, boot,
                 crashes>>

OpenNative(i) ==
  /\ At(i, "opening")
  /\ send' = [send EXCEPT ![i] = "started"]
  /\ To(i, "stamping")
  /\ UNCHANGED <<grants, tasks, intents, runs, calls, result, usage, boot, world,
                 crashes>>

StampNative(i) ==
  /\ At(i, "stamping")
  /\ send' = [send EXCEPT ![i] = "succeeded"]
  /\ To(i, "acked")
  /\ UNCHANGED <<grants, tasks, intents, runs, calls, result, usage, boot, world,
                 crashes>>

WrongSendObserved(o, status, native) ==
  IF status = "failed" THEN Outcome!ResponseFailed(o)
  ELSE Outcome!ResponseSent(o, native, {})

SendObserved(o, status, native) ==
  CASE status = "succeeded" -> Outcome!ResponseSent(o, native, {})
    [] status = "uncertain" -> Outcome!ResponseUncertain(o)
    [] OTHER                -> Outcome!ResponseFailed(o)

ReportSend(i) ==
  /\ At(i, "acked")
  /\ runs' = [runs EXCEPT ![i].log = SendObserved(@, send[i], intents[i].native),
                          ![i].refused = @ \/ send[i] = "failed"]
  /\ Go(i, [proc[i] EXCEPT !.pc = "ending",
              !.mem = SendObserved(@, send[i], intents[i].native)])
  /\ UNCHANGED <<grants, tasks, intents, calls, send, result, usage, boot, world,
                 crashes>>

----------------------------------------------------------------------------
(* The end of an attempt.                                                  *)

\* recorder.finish(): the live outcome becomes the status of the run.
EndRun(i) ==
  /\ At(i, "ending")
  /\ runs' = [runs EXCEPT ![i].status = Outcome!Verdict(proc[i].mem)]
  /\ To(i, "ended")
  /\ UNCHANGED <<grants, tasks, intents, calls, send, result, usage, boot, world,
                 crashes>>

\* finish(): the intent follows the status of its run, if it is still claimed.
WrongStateAfter(status) == IF status \in {"accepted", "interrupted"} THEN "queued" ELSE "done"

StateAfter(status) ==
  CASE status \in {"uncertain", "running"}         -> "blocked"
    [] status \in {"accepted", "interrupted"}      -> "queued"
    [] status \in {"succeeded", "failed", "blocked"} -> "done"

Finish(i) ==
  /\ At(i, "ended")
  /\ intents' = IF intents[i].state = "claimed"
                THEN [intents EXCEPT ![i].state = StateAfter(runs[i].status)]
                ELSE intents
  /\ Go(i, IdleProc)
  /\ UNCHANGED <<grants, tasks, runs, calls, send, result, usage, boot, world,
                 crashes>>

----------------------------------------------------------------------------
(* Crash and recovery (recoverRuns() in runtime-context-store.ts): three   *)
(* passes before the process takes work again.                             *)

Crash ==
  /\ boot # "down"
  /\ crashes < MaxCrashes
  /\ boot' = "down" /\ turn' = 0 /\ crashes' = crashes + 1
  /\ proc' = [i \in Intents |-> IdleProc]
  /\ UNCHANGED <<db, world>>

\* reconcile(): receipts that never reached the trace are appended to it, each
\* under a key of its own operation; external work without a receipt and
\* uncertain work stay as they are.
Unfinished(i) == runs[i].status \in {"accepted", "running"}

Reconcilable(i) == i \in Pending /\ Unfinished(i)

Appended(i) ==
  {n \in CallNumbers \ runs[i].receipted :
     /\ calls[i][n].state \notin {"none", "uncertain"}
     /\ ~(calls[i][n].state = "started" /\ calls[i][n].name \in External)}

SendAppended(o, i) ==
  IF send[i] \in {"succeeded", "failed"} THEN SendObserved(o, send[i], intents[i].native)
  ELSE o

Reconciled(i) ==
  LET answered == [runs[i].log EXCEPT !.pending = @ \ Appended(i)]
      sent == SendAppended(answered, i)
  IN  [runs[i] EXCEPT
         !.receipted = @ \cup Appended(i),
         !.refused = @ \/ send[i] = "failed",
         !.log = IF result[i] = "silent" THEN Outcome!Completed(sent) ELSE sent]

Reconcile ==
  /\ boot = "down"
  /\ runs' = [i \in Intents |-> IF Reconcilable(i) THEN Reconciled(i) ELSE runs[i]]
  /\ boot' = "reconciled"
  /\ UNCHANGED <<grants, tasks, intents, calls, send, result, usage, proc, turn,
                 world, crashes>>

\* runs.recover(): every run that was active gets the verdict of its events.
RecoverRuns ==
  /\ boot = "reconciled"
  /\ runs' = [i \in Intents |->
       IF intents[i].state # "absent" /\ Unfinished(i)
       THEN [runs[i] EXCEPT !.status = Outcome!Verdict(runs[i].log)] ELSE runs[i]]
  /\ boot' = "recovered"
  /\ UNCHANGED <<grants, tasks, intents, calls, send, result, usage, proc, turn,
                 world, crashes>>

\* recover(): only intents without unknown side effects are queued again.
WrongRecoveredState(i) ==
  IF runs[i].status = "uncertain" THEN "blocked"
  ELSE IF runs[i].status \in {"succeeded", "failed", "blocked"} THEN "done" ELSE "queued"

WrongRecoveredRow(i) ==
  IF Unknown(i) \/ runs[i].status = "uncertain" THEN "blocked"
  ELSE IF runs[i].status \in {"succeeded", "failed", "blocked"} THEN "done"
       ELSE intents[i].state

RecoveredState(i) ==
  IF Unknown(i) \/ runs[i].status = "uncertain" THEN "blocked"
  ELSE IF runs[i].status \in {"succeeded", "failed", "blocked"} THEN "done"
       ELSE "queued"

RecoverIntents ==
  /\ boot = "recovered"
  /\ intents' = [i \in Intents |->
       IF i \in Pending THEN [intents[i] EXCEPT !.state = RecoveredState(i)]
       ELSE intents[i]]
  /\ boot' = "up"
  /\ UNCHANGED <<grants, tasks, runs, calls, send, result, usage, proc, turn,
                 world, crashes>>

----------------------------------------------------------------------------
AgentStep(i) ==
  \/ StartModel(i) \/ ModelRefused(i) \/ ReplyText(i) \/ Defer(i) \/ Deadline(i)
  \/ \E retryable \in BOOLEAN : ReplyFailed(i, retryable)
  \/ ToolRefused(i) \/ \E name \in Tools : CallTool(i, name)
  \/ OpenTool(i) \/ DenyTool(i) \/ RunExternal(i) \/ RunLocal(i)
  \/ AnswerTool(i) \/ CloseTool(i)

DeliveryStep(i) ==
  \/ SaveResult(i) \/ Deliver(i) \/ PermitRefused(i) \/ StartSend(i) \/ HandOut(i)
  \/ \E status \in {"succeeded", "failed", "uncertain"} : AnswerSend(i, status)
  \/ AppendNative(i) \/ OpenNative(i) \/ StampNative(i) \/ ReportSend(i)

RunStep(i) ==
  \/ Begin(i) \/ BeginRefused(i) \/ AgentStep(i) \/ DeliveryStep(i)
  \/ EndRun(i) \/ Finish(i)

Pump(i) == Claim(i) \/ Refuse(i)

Restart == Reconcile \/ RecoverRuns \/ RecoverIntents

Host ==
  \/ \E g \in Grants : IssueGrant(g) \/ RevokeGrant(g)
  \/ \E t \in Tasks, status \in {"open", "paused", "cancelled"} : ControlTask(t, status)
  \/ \E i \in Intents : Supersede(i)
  \/ Submit \/ \E o \in Intents, k \in Keys : RetryDelivery(o, k)
  \/ Collect

Next ==
  \/ Host \/ Tick \/ Crash \/ Restart
  \/ \E i \in Intents : Pump(i) \/ RunStep(i)

Spec == Init /\ [][Next]_vars

\* The poll timer keeps pumping, started handlers are driven by the event loop
\* and bounded by their deadline, time passes, and the process is restarted.
Fairness ==
  /\ WF_vars(\E i \in Intents : Pump(i))
  /\ \A i \in Intents : WF_vars(RunStep(i))
  /\ WF_vars(Tick) /\ WF_vars(Restart)

FairSpec == Spec /\ Fairness

----------------------------------------------------------------------------
(* Properties.                                                             *)

\* Every table and every handler holds values of its type.
TypeOK ==
  /\ grants \in [Grants -> GrantRows] /\ tasks \in [Tasks -> TaskRows]
  /\ intents \in [Intents -> IntentRows] /\ runs \in [Intents -> RunRows]
  /\ calls \in [Intents -> [CallNumbers -> CallRows]]
  /\ send \in [Intents -> OpStates] /\ result \in [Intents -> Results]
  /\ usage \in [Intents -> UsageRows]
  /\ boot \in Boots /\ turn \in {0} \cup Intents
  /\ proc \in [Intents -> Handlers]
  /\ world \in [Intents -> Worlds] /\ crashes \in 0..MaxCrashes

\* a run in progress, in the queue or in the process
Advancing(i) == intents[i].state = "claimed" \/ proc[i].pc \notin {"idle", "ended"}

\* One task has one advancer: two runs of a task are never in progress at once,
\* neither in the queue nor in the process (store.ts:455).
SingleAdvancer ==
  \A i, j \in Intents :
    i # j /\ intents[i].task = intents[j].task /\ intents[i].task # None =>
      ~(Advancing(i) /\ Advancing(j))

\* A result is handed to its channel at most once, whatever crashes, restarts,
\* retries and deadlines do (delivery.ts:62).
SentOnce == \A i \in Intents : world[i].sent <= 1

\* A run that is recorded as succeeded and has a message has delivered it, and a
\* run with a confirmed failure to send has not: retrying it duplicates nothing.
VerdictMatchesWorld ==
  \A i \in Rows :
    /\ runs[i].status = "succeeded" /\ result[i] = "notify" => world[i].arrived
    /\ runs[i].refused => ~world[i].arrived

\* The retry of a delivery never asks a model and never calls a tool, even if
\* the original is collected before the retry runs (store.ts:590).
RetryOnlyDelivers ==
  \A i \in Intents :
    intents[i].origin # 0 =>
      usage[i].models = 0 /\ \A n \in CallNumbers : world[i].acted[n] = 0

\* Collecting records gives nobody a second budget: counting collected intents
\* too, a grant never starts more runs than it allows (store.ts:930).
GrantBudgetKept ==
  \A g \in Grants :
    Cardinality({i \in Intents : intents[i].state # "absent" /\ intents[i].grant = g})
      <= MaxRunsPerGrant

\* A stored result is final: later attempts neither change it nor ask the model
\* or a tool again (operations.ts:9, run-coordinator.ts:441).
ResultFinal ==
  [][\A i \in Intents :
       result[i] # "none" /\ intents'[i].state # "collected" =>
         result'[i] = result[i] /\ usage'[i] = usage[i]]_vars

\* A run that ended stays as it ended (sqlite-store.ts:339).
VerdictFinal ==
  [][\A i \in Intents :
       intents[i].state # "absent" /\ runs[i].status \in Terminal =>
         runs'[i].status = runs[i].status]_vars

\* Work with an unknown outcome is never taken up again.
UnknownNotResumed ==
  [][\A i \in Intents : intents[i].state # "claimed" /\ intents'[i].state = "claimed" =>
       ~Unknown(i)]_vars

\* the session of a native delivery is being read, after the last check
SessionAwaited(i) == proc[i].pc = "native"

\* Without authorization by grant, task and schedule no message leaves, although
\* permission is asked in between, and no native delivery is begun: only one that
\* was authorized when it asked for its session still appends (delivery.ts:95-106).
SentAuthorized ==
  [][\A i \in Intents :
       ~Valid(i) /\ ~SessionAwaited(i) =>
         world'[i].sent = world[i].sent /\ ~SessionAwaited(i)']_vars

\* Seen from outside, the queue with its attempts, crashes and recoveries does
\* every deed at most once, announces it before, and never closes a request as
\* done, nor collects it, while the outcome of a deed is unknown.  Deed 0 is the
\* message; a native append is inside the database and is no deed.
PhaseOf(state) ==
  CASE state = "absent" -> "absent"
    [] state \in {"queued", "claimed"} -> "open"
    [] state \in {"done", "blocked"} -> state
    [] state = "collected" -> "forgotten"

DeedsOf(i) ==
  [d \in 0..MaxToolCalls |->
     IF d # 0 THEN world[i].acted[d]
     ELSE IF intents[i].native THEN 0 ELSE world[i].sent]

Promise == INSTANCE Effects WITH
  Requests <- Intents, Deeds <- 0..MaxToolCalls,
  phase <- [i \in Intents |-> PhaseOf(intents[i].state)],
  doubt <- [i \in Intents |-> Unknown(i)],
  count <- [i \in Intents |-> DeedsOf(i)]

\* The execution layer keeps the abstract promise of Effects, step by step.
EffectsPromised == Promise!Spec

\* The comment above reconcile() says that confirmed local transactions can be
\* resumed and that only unknown external actions stay blocked (store.ts:729):
\* a run ends uncertain only because of an outcome somebody has to look up.
UncertainHasCause ==
  \A i \in Rows : runs[i].status = "uncertain" => Unknown(i)

\* The comment on RunOutcome says that live execution and recovery share it and
\* that a successful reply does not cover an undecided side effect (outcome.ts:3).
SuccessCoversNothing ==
  \A i \in Rows : runs[i].status = "succeeded" => ~Unknown(i)

\* Accepted work is settled in the end: done, or blocked for a reason.
EverySettles ==
  \A i \in Intents :
    intents[i].state \in {"queued", "claimed"} ~>
      intents[i].state \in {"done", "blocked", "collected"}
=============================================================================
