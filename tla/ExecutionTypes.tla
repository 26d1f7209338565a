--------------------------- MODULE ExecutionTypes ---------------------------
(***************************************************************************)
(* Type correctness of Execution: every row, every handler and every       *)
(* outcome that a step computes is one.                                    *)
(***************************************************************************)
EXTENDS ExecutionInvariant, TLAPS

\* What the fold of the trace computes from an outcome is an outcome.
LEMMA NewOutcomeType == Outcome!NewOutcome \in Outcome!Outcomes
BY DEF Outcome!NewOutcome, Outcome!Outcomes, Outcome!Failures

\* A failure noted by the attempt leaves an outcome (outcome.ts:70).
LEMMA FailType ==
  ASSUME NEW o \in Outcome!Outcomes, NEW status \in {"failed", "blocked", "uncertain"}
  PROVE  Outcome!Fail(o, status) \in Outcome!Outcomes
BY DEF Outcome!Fail, Outcome!Outcomes, Outcome!Failures

\* The events of a tool call leave an outcome (outcome.ts:20).
LEMMA ToolType ==
  ASSUME NEW o \in Outcome!Outcomes, NEW n \in CallNumbers, NEW recovery \in BOOLEAN
  PROVE  /\ Outcome!ToolStarted(o, n) \in Outcome!Outcomes
         /\ Outcome!ToolAnswered(o, n) \in Outcome!Outcomes
         /\ Outcome!ToolFailed(o, n, recovery) \in Outcome!Outcomes
<1>1. /\ Outcome!ToolStarted(o, n) \in Outcome!Outcomes
      /\ Outcome!ToolAnswered(o, n) \in Outcome!Outcomes
  BY DEF Outcome!ToolStarted, Outcome!ToolAnswered, Outcome!Outcomes
<1>2. QED
  BY <1>1, FailType DEF Outcome!ToolFailed

\* The events of the model and of the reply leave an outcome (outcome.ts:24).
LEMMA ReplyType ==
  ASSUME NEW o \in Outcome!Outcomes, NEW native \in BOOLEAN
  PROVE  /\ Outcome!ModelFailed(o) \in Outcome!Outcomes
         /\ Outcome!ResponseSending(o) \in Outcome!Outcomes
         /\ Outcome!ResponseSent(o, native, {}) \in Outcome!Outcomes
         /\ Outcome!ResponseFailed(o) \in Outcome!Outcomes
         /\ Outcome!ResponseUncertain(o) \in Outcome!Outcomes
         /\ Outcome!Completed(o) \in Outcome!Outcomes
<1>1. /\ Outcome!ModelFailed(o) \in Outcome!Outcomes
      /\ Outcome!ResponseUncertain(o) \in Outcome!Outcomes
  BY FailType DEF Outcome!ModelFailed, Outcome!ResponseUncertain
<1>2. [o EXCEPT !.responding = FALSE] \in Outcome!Outcomes
  BY DEF Outcome!Outcomes
<1>3. Outcome!ResponseFailed(o) \in Outcome!Outcomes
  BY <1>2, FailType DEF Outcome!ResponseFailed
<1>4. /\ Outcome!ResponseSending(o) \in Outcome!Outcomes
      /\ Outcome!ResponseSent(o, native, {}) \in Outcome!Outcomes
      /\ Outcome!Completed(o) \in Outcome!Outcomes
  BY DEF Outcome!ResponseSending, Outcome!ResponseSent, Outcome!Completed,
         Outcome!Outcomes
<1>5. QED
  BY <1>1, <1>3, <1>4

\* The verdict of every outcome is one of the five statuses (outcome.ts:81).
LEMMA VerdictType ==
  ASSUME NEW o \in Outcome!Outcomes
  PROVE  Outcome!Verdict(o) \in Outcome!Verdicts
BY DEF Outcome!Verdict, Outcome!Verdicts, Outcome!Outcomes, Outcome!Failures,
       Outcome!Unanswered
----------------------------------------------------------------------------
(* Types of the steps a handler is made of.                                *)

\* A handler that moves keeps its type and leaves a legal turn.
LEMMA GoType ==
  ASSUME TypeOK, NEW i \in Intents, NEW p \in Handlers, Go(i, p)
  PROVE  proc' \in [Intents -> Handlers] /\ turn' \in {0} \cup Intents
BY DEF TypeOK, Go

\* Moving a handler to a point of its code keeps the types.
LEMMA ToType ==
  ASSUME TypeOK, NEW i \in Intents, NEW pc \in AsyncPoints \cup SyncPoints, To(i, pc)
  PROVE  proc' \in [Intents -> Handlers] /\ turn' \in {0} \cup Intents
<1>1. [proc[i] EXCEPT !.pc = pc] \in Handlers
  BY DEF TypeOK, Handlers
<1>2. QED
  BY <1>1, GoType DEF To

\* Ending an attempt with a noted failure keeps the types.
LEMMA StopType ==
  ASSUME TypeOK, NEW i \in Intents, NEW status \in {"failed", "blocked", "uncertain"},
         Stop(i, status)
  PROVE  proc' \in [Intents -> Handlers] /\ turn' \in {0} \cup Intents
<1>1. Outcome!Fail(proc[i].mem, status) \in Outcome!Outcomes
  BY FailType DEF TypeOK, Handlers
<1>2. [proc[i] EXCEPT !.pc = "ending", !.mem = Outcome!Fail(@, status)] \in Handlers
  BY <1>1 DEF TypeOK, Handlers, SyncPoints
<1>3. QED
  BY <1>2, GoType DEF Stop

\* An event that is emitted leaves rows of runs.
LEMMA EmitType ==
  ASSUME TypeOK, NEW i \in Intents, NEW log \in Outcome!Outcomes, Emit(i, log)
  PROVE  runs' \in [Intents -> RunRows]
BY DEF TypeOK, Emit, RunRows

\* So does the event of a tool call or of a reply that begins.
LEMMA TouchType ==
  ASSUME TypeOK, NEW i \in Intents, NEW log \in Outcome!Outcomes, Touch(i, log)
  PROVE  runs' \in [Intents -> RunRows]
BY DEF TypeOK, Touch, RunRows

\* Rows stay rows when one of their fields takes another value of its type.
LEMMA GrantRowType ==
  ASSUME NEW row \in GrantRows
  PROVE  /\ [row EXCEPT !.status = "revoked"] \in GrantRows
         /\ [row EXCEPT !.life = Less(row.life)] \in GrantRows
BY ExecutionAssumption DEF GrantRows, Less

\* An intent that changes its state, or whose schedule was revised, is an intent.
LEMMA IntentRowType ==
  ASSUME NEW row \in IntentRows, NEW state \in States
  PROVE  /\ [row EXCEPT !.state = state] \in IntentRows
         /\ [row EXCEPT !.stale = TRUE] \in IntentRows
BY DEF IntentRows

\* An intent that ages, or that is deferred, is an intent.
LEMMA IntentTimeType ==
  ASSUME NEW row \in IntentRows, NEW delay \in 0..MaxDelay
  PROVE  /\ [row EXCEPT !.wait = Less(row.wait), !.age = Older(row.age)] \in IntentRows
         /\ [row EXCEPT !.state = "queued", !.wait = delay] \in IntentRows
<1>1. Less(row.wait) \in 0..MaxDelay /\ Older(row.age) \in 0..(Retention + 1)
  BY ExecutionAssumption DEF IntentRows, Less, Older
<1>2. [row EXCEPT !.wait = Less(row.wait), !.age = Older(row.age)] \in IntentRows
  BY <1>1 DEF IntentRows
<1>3. [row EXCEPT !.state = "queued", !.wait = delay] \in IntentRows
  BY DEF IntentRows, States
<1>4. QED
  BY <1>2, <1>3

\* An intent that is claimed below the attempt limit is an intent.
LEMMA ClaimedRowType ==
  ASSUME NEW row \in IntentRows, row.attempts < MaxAttempts
  PROVE  [row EXCEPT !.state = "claimed", !.attempts = row.attempts + 1, !.wait = 0]
           \in IntentRows
<1>1. row.attempts + 1 \in 0..MaxAttempts /\ 0 \in 0..MaxDelay
  BY ExecutionAssumption DEF IntentRows
<1>2. QED
  BY <1>1 DEF IntentRows, States

\* What accept() inserts is an intent.
LEMMA NewRowType ==
  ASSUME NEW g \in Grants, NEW t \in Tasks \cup {None}, NEW k \in Keys,
         NEW kind \in {"agent", "reminder"}, NEW native \in BOOLEAN,
         NEW origin \in {0} \cup Intents
  PROVE  [state |-> "queued", attempts |-> 0, wait |-> 0, age |-> 0, grant |-> g,
          task |-> t, key |-> k, kind |-> kind, native |-> native,
          origin |-> origin, stale |-> FALSE] \in IntentRows
BY ExecutionAssumption DEF IntentRows, States

\* The fields of an intent have their types.
LEMMA IntentFields ==
  ASSUME NEW row \in IntentRows
  PROVE  /\ row.state \in States /\ row.attempts \in 0..MaxAttempts
         /\ row.grant \in Grants /\ row.task \in Tasks \cup {None}
         /\ row.kind \in {"agent", "reminder"} /\ row.native \in BOOLEAN
         /\ row.origin \in {0} \cup Intents /\ row.stale \in BOOLEAN
BY DEF IntentRows

\* A run whose status and fold change is a run.
LEMMA RunRowType ==
  ASSUME NEW row \in RunRows, NEW status \in Statuses, NEW log \in Outcome!Outcomes,
         NEW refused \in BOOLEAN
  PROVE  /\ [row EXCEPT !.status = status, !.log = log] \in RunRows
         /\ [row EXCEPT !.log = log] \in RunRows
         /\ [row EXCEPT !.log = log, !.refused = refused] \in RunRows
BY DEF RunRows

\* A run that gets a verdict is a run.
LEMMA RunStatusType ==
  ASSUME NEW row \in RunRows, NEW status \in Statuses
  PROVE  [row EXCEPT !.status = status] \in RunRows
BY DEF RunRows

\* The fields of a run have their types.
LEMMA RunFields ==
  ASSUME NEW row \in RunRows
  PROVE  /\ row.status \in Statuses /\ row.log \in Outcome!Outcomes
         /\ row.receipted \in SUBSET CallNumbers /\ row.refused \in BOOLEAN
BY DEF RunRows

\* A task that is paused, resumed or cancelled is a task.
LEMMA TaskRowType ==
  ASSUME NEW row \in TaskRows, NEW status \in {"open", "paused", "cancelled"}
  PROVE  [row EXCEPT !.status = status] \in TaskRows
BY DEF TaskRows

\* Spending below the budget stays within the budget.
LEMMA UsageRowType ==
  ASSUME NEW row \in UsageRows
  PROVE  /\ row.models < MaxModelCalls => [row EXCEPT !.models = row.models + 1] \in UsageRows
         /\ row.tools < MaxToolCalls => [row EXCEPT !.tools = row.tools + 1] \in UsageRows
BY ExecutionAssumption DEF UsageRows

\* An operation that gets a receipt is an operation.
LEMMA CallRowType ==
  ASSUME NEW row \in CallRows, NEW status \in OpStates
  PROVE  [row EXCEPT !.state = status] \in CallRows
BY DEF CallRows

\* A receipt keeps the type of the operations.
LEMMA ReceiptType ==
  ASSUME TypeOK, NEW i \in Intents, NEW status \in OpStates, Receipt(i, status)
  PROVE  calls' \in [Intents -> [CallNumbers -> CallRows]]
<1> DEFINE n == proc[i].seq
           own == [calls[i] EXCEPT ![n].state = status]
<1>1. calls[i] \in [CallNumbers -> CallRows]
  BY DEF TypeOK
<1>2. own \in [CallNumbers -> CallRows]
  <2>1. CASE n \in CallNumbers
    BY <1>1, <2>1, CallRowType
  <2>2. CASE n \notin CallNumbers
    BY <1>1, <2>2
  <2>3. QED
    BY <2>1, <2>2
<1>3. calls' = [calls EXCEPT ![i] = own]
  BY DEF Receipt
<1>4. QED
  BY <1>2, <1>3 DEF TypeOK

----------------------------------------------------------------------------
\* An empty database and an idle process have their types.
LEMMA TypeInit == ASSUME Init PROVE TypeOK
<1>1. \A g \in Grants : [status |-> "unissued", life |-> 0] \in GrantRows
  BY ExecutionAssumption DEF GrantRows
<1>2. NewIntent \in IntentRows
  BY ExecutionAssumption DEF NewIntent, IntentRows, States, Intents
<1>3. NewRun \in RunRows
  BY NewOutcomeType DEF NewRun, RunRows, Statuses
<1>4. NoCalls \in [CallNumbers -> CallRows]
  BY DEF NoCalls, CallRows, OpStates
<1>5. IdleProc \in Handlers
  BY NewOutcomeType, ExecutionAssumption
  DEF IdleProc, Handlers, AsyncPoints, Results
<1>6. NewWorld \in Worlds
  BY DEF NewWorld, Worlds
<1>7. [models |-> 0, tools |-> 0] \in UsageRows
  BY ExecutionAssumption DEF UsageRows
<1>8. QED
  BY <1>1, <1>2, <1>3, <1>4, <1>5, <1>6, <1>7, ExecutionAssumption
  DEF Init, TypeOK, TaskRows, OpStates, Results, Boots, Intents

\* The operations of the host keep the types.
LEMMA TypeHost ==
  ASSUME TypeOK, Host
  PROVE  TypeOK'
<1>1. ASSUME NEW g \in Grants, IssueGrant(g) PROVE TypeOK'
  <2>1. grants' \in [Grants -> GrantRows]
    BY <1>1, ExecutionAssumption DEF IssueGrant, TypeOK, GrantRows
  <2>2. QED
    BY <1>1, <2>1 DEF IssueGrant, TypeOK
<1>2. ASSUME NEW g \in Grants, RevokeGrant(g) PROVE TypeOK'
  <2>1. grants' \in [Grants -> GrantRows]
    BY <1>2, GrantRowType DEF RevokeGrant, TypeOK
  <2>2. intents' \in [Intents -> IntentRows]
    BY <1>2, IntentRowType DEF RevokeGrant, TypeOK, States
  <2>3. QED
    BY <1>2, <2>1, <2>2 DEF RevokeGrant, TypeOK
<1>3. ASSUME NEW t \in Tasks, NEW status \in {"open", "paused", "cancelled"},
             ControlTask(t, status)
      PROVE  TypeOK'
  <2>1. tasks' \in [Tasks -> TaskRows]
    BY <1>3, TaskRowType DEF ControlTask, TypeOK
  <2>2. QED
    BY <1>3, <2>1 DEF ControlTask, TypeOK
<1>4. ASSUME NEW i \in Intents, Supersede(i) PROVE TypeOK'
  <2>1. intents' \in [Intents -> IntentRows]
    BY <1>4, IntentRowType DEF Supersede, TypeOK, States, Pending, Rows
  <2>2. QED
    BY <1>4, <2>1 DEF Supersede, TypeOK
<1>5. ASSUME NEW g \in Grants, NEW t \in Tasks \cup {None}, NEW k \in Keys,
             NEW kind \in {"agent", "reminder"}, NEW native \in BOOLEAN,
             NEW origin \in {0} \cup Intents, Accept(g, t, k, kind, native, origin)
      PROVE  TypeOK'
  <2>1. PICK i \in Intents : Accept(g, t, k, kind, native, origin)!(i)
    BY <1>5 DEF Accept
  <2>2. intents' \in [Intents -> IntentRows]
    BY <2>1, NewRowType DEF TypeOK
  <2>3. runs' \in [Intents -> RunRows] /\ usage' \in [Intents -> UsageRows]
    BY <2>1 DEF TypeOK, Predecessors
  <2>4. QED
    BY <2>1, <2>2, <2>3 DEF TypeOK
<1>6. CASE Submit
  BY <1>5, <1>6, ExecutionAssumption DEF Submit
<1>7. ASSUME NEW o \in Intents, NEW k \in Keys, RetryDelivery(o, k) PROVE TypeOK'
  <2>1. /\ intents[o].grant \in Grants /\ intents[o].kind \in {"agent", "reminder"}
        /\ intents[o].native \in BOOLEAN
    BY IntentFields DEF TypeOK
  <2>2. Accept(intents[o].grant, None, k, intents[o].kind, intents[o].native, o)
    BY <1>7 DEF RetryDelivery
  <2>3. QED
    BY <1>5, <2>1, <2>2
<1>8. CASE Collect
  <2>1. intents' \in [Intents -> IntentRows]
    BY <1>8, IntentRowType DEF Collect, TypeOK, States
  <2>2. calls' \in [Intents -> [CallNumbers -> CallRows]]
    BY <1>8 DEF Collect, TypeOK, NoCalls, CallRows, OpStates
  <2>3. send' \in [Intents -> OpStates] /\ result' \in [Intents -> Results]
    BY <1>8 DEF Collect, TypeOK, OpStates, Results
  <2>4. QED
    BY <1>8, <2>1, <2>2, <2>3 DEF Collect, TypeOK
<1>9. QED
  BY <1>1, <1>2, <1>3, <1>4, <1>6, <1>7, <1>8 DEF Host

\* A fresh handler is a handler.
LEMMA IdleProcType ==
  ASSUME NEW pc \in AsyncPoints \cup SyncPoints
  PROVE  [IdleProc EXCEPT !.pc = pc] \in Handlers /\ IdleProc \in Handlers
<1>1. IdleProc \in Handlers
  BY NewOutcomeType, ExecutionAssumption DEF IdleProc, Handlers, AsyncPoints, Results
<1>2. QED
  BY <1>1 DEF Handlers

\* The fields of a handler have their types.
LEMMA HandlerFields ==
  ASSUME NEW p \in Handlers
  PROVE  /\ p.pc \in AsyncPoints \cup SyncPoints /\ p.seq \in 0..MaxToolCalls
         /\ p.halted \in BOOLEAN /\ p.recovery \in BOOLEAN
         /\ p.out \in Results /\ p.mem \in Outcome!Outcomes
BY DEF Handlers

\* A handler that chose its result is a handler.
LEMMA HandlerOutType ==
  ASSUME NEW p \in Handlers, NEW pc \in AsyncPoints \cup SyncPoints, NEW out \in Results
  PROVE  [p EXCEPT !.pc = pc, !.out = out] \in Handlers
BY DEF Handlers

\* A handler whose live outcome changed is a handler.
LEMMA HandlerMemType ==
  ASSUME NEW p \in Handlers, NEW pc \in AsyncPoints \cup SyncPoints,
         NEW mem \in Outcome!Outcomes
  PROVE  [p EXCEPT !.pc = pc, !.mem = mem] \in Handlers
BY DEF Handlers

\* A handler whose flags changed is a handler.
LEMMA HandlerFlagType ==
  ASSUME NEW p \in Handlers, NEW pc \in AsyncPoints \cup SyncPoints, NEW flag \in BOOLEAN
  PROVE  /\ [p EXCEPT !.pc = pc] \in Handlers
         /\ [p EXCEPT !.pc = pc, !.halted = flag] \in Handlers
         /\ [p EXCEPT !.pc = pc, !.recovery = flag] \in Handlers
BY DEF Handlers

\* What the fold makes of an answered tool call is an outcome.
LEMMA ObservedType ==
  ASSUME NEW o \in Outcome!Outcomes, NEW n \in CallNumbers, NEW status \in OpStates,
         NEW recovery \in BOOLEAN
  PROVE  Observed(o, n, status, recovery) \in Outcome!Outcomes
BY ToolType DEF Observed

\* What the fold makes of an answered delivery is an outcome.
LEMMA SendObservedType ==
  ASSUME NEW o \in Outcome!Outcomes, NEW status \in OpStates, NEW native \in BOOLEAN
  PROVE  SendObserved(o, status, native) \in Outcome!Outcomes
BY ReplyType DEF SendObserved

\* The pump and the beginning of an attempt.
LEMMA TypePump ==
  ASSUME TypeOK, NEW i \in Intents, Pump(i) \/ Begin(i) \/ BeginRefused(i)
  PROVE  TypeOK'
<1> USE DEF SyncPoints, AsyncPoints
<1>1. CASE Claim(i)
  <2>1. intents' \in [Intents -> IntentRows]
    <3>1. intents[i].attempts < MaxAttempts
      BY <1>1 DEF Claim, Claimable
    <3> DEFINE row == [intents[i] EXCEPT !.state = "claimed",
                         !.attempts = intents[i].attempts + 1, !.wait = 0]
    <3>2. row \in IntentRows
      BY <3>1, ClaimedRowType DEF TypeOK
    <3>3. intents' = [intents EXCEPT ![i] = row]
      BY <1>1 DEF Claim
    <3>4. QED
      BY <3>2, <3>3 DEF TypeOK
  <2>2. [IdleProc EXCEPT !.pc = "claimed"] \in Handlers
    BY IdleProcType
  <2>3. proc' \in [Intents -> Handlers] /\ turn' \in {0} \cup Intents
    BY <1>1, <2>2, GoType DEF Claim
  <2>4. QED
    BY <1>1, <2>1, <2>3 DEF Claim, TypeOK
<1>2. CASE Refuse(i)
  <2>1. intents' \in [Intents -> IntentRows]
    BY <1>2, IntentRowType DEF Refuse, TypeOK, States
  <2>2. runs' \in [Intents -> RunRows]
    <3>1. [runs[i] EXCEPT !.status = "blocked"] \in RunRows
      BY RunStatusType DEF TypeOK, Statuses, Outcome!Verdicts
    <3>2. QED
      BY <1>2, <3>1 DEF Refuse, BlockRun, TypeOK
  <2>3. QED
    BY <1>2, <2>1, <2>2 DEF Refuse, TypeOK
<1>3. CASE Begin(i)
  <2>1. runs' \in [Intents -> RunRows]
    BY <1>3, RunRowType, NewOutcomeType DEF Begin, TypeOK, Statuses
  <2>2. Stored(i) \in Results
    BY IntentFields DEF Stored, StoredElsewhere, TypeOK, Results
  <2>3. /\ [proc[i] EXCEPT !.pc = "save", !.out = Stored(i)] \in Handlers
        /\ [proc[i] EXCEPT !.pc = "save", !.out = "notify"] \in Handlers
    BY <2>2, HandlerOutType DEF TypeOK, Results
  <2>4. proc' \in [Intents -> Handlers] /\ turn' \in {0} \cup Intents
    BY <1>3, <2>3, GoType, ToType DEF Begin
  <2>5. QED
    BY <1>3, <2>1, <2>4 DEF Begin, TypeOK
<1>4. CASE BeginRefused(i)
  BY <1>4, ToType DEF BeginRefused, TypeOK
<1>5. QED
  BY <1>1, <1>2, <1>3, <1>4 DEF Pump


\* The agent loop: a handler that is inside a tool call has numbered it.
LEMMA TypeAgent ==
  ASSUME TypeOK, NEW i \in Intents, Called(i), AgentStep(i)
  PROVE  TypeOK'
<1> DEFINE Points == AsyncPoints \cup SyncPoints
<1>a. {"model", "thinking", "tool", "acting", "ended", "calling", "opened", "closed",
       "defer", "save"} \subseteq Points /\ "ending" \in Points
  BY DEF AsyncPoints, SyncPoints
<1>b. /\ proc[i] \in Handlers /\ intents[i] \in IntentRows /\ runs[i] \in RunRows
      /\ result[i] \in Results /\ usage[i] \in UsageRows
  BY DEF TypeOK
<1>c. proc[i].mem \in Outcome!Outcomes /\ runs[i].log \in Outcome!Outcomes
  BY <1>b, HandlerFields, RunFields
<1>d. /\ Outcome!ModelFailed(runs[i].log) \in Outcome!Outcomes
      /\ Outcome!ModelFailed(proc[i].mem) \in Outcome!Outcomes
  BY <1>c, ReplyType
<1> HIDE DEF Points
<1>1. CASE StartModel(i)
  <2>1. usage' \in [Intents -> UsageRows]
    BY <1>1, <1>b, UsageRowType DEF StartModel, TypeOK
  <2>2. proc' \in [Intents -> Handlers] /\ turn' \in {0} \cup Intents
    BY <1>1, <1>a, ToType DEF StartModel, Points
  <2>3. QED
    BY <1>1, <2>1, <2>2 DEF StartModel, TypeOK
<1>2. CASE ModelRefused(i)
  <2>1. runs' \in [Intents -> RunRows]
    BY <1>2, <1>d, EmitType DEF ModelRefused, TypeOK
  <2>2. proc' \in [Intents -> Handlers] /\ turn' \in {0} \cup Intents
    BY <1>2, StopType DEF ModelRefused
  <2>3. QED
    BY <1>2, <2>1, <2>2 DEF ModelRefused, TypeOK
<1>3. CASE ReplyText(i)
  <2>1. [proc[i] EXCEPT !.pc = "save", !.out = "silent"] \in Handlers
    BY <1>a, <1>b, HandlerOutType DEF Points, Results
  <2>2. proc' \in [Intents -> Handlers] /\ turn' \in {0} \cup Intents
    BY <1>3, <2>1, GoType DEF ReplyText
  <2>3. QED
    BY <1>3, <2>2 DEF ReplyText, TypeOK
<1>4. CASE Defer(i)
  <2>1. [runs[i] EXCEPT !.status = "interrupted"] \in RunRows
    BY <1>b, RunStatusType DEF Statuses, Outcome!Verdicts
  <2>2. runs' \in [Intents -> RunRows]
    BY <1>4, <2>1 DEF Defer, TypeOK
  <2>3. Backoff(intents[i].attempts) \in 0..MaxDelay
    BY ExecutionAssumption DEF Backoff
  <2>4. [intents[i] EXCEPT !.state = "queued", !.wait = Backoff(intents[i].attempts)]
          \in IntentRows
    BY <1>b, <2>3, IntentTimeType
  <2>5. intents' \in [Intents -> IntentRows]
    BY <1>4, <2>4 DEF Defer, TypeOK
  <2>6. proc' \in [Intents -> Handlers] /\ turn' \in {0} \cup Intents
    BY <1>4, <1>a, ToType, StopType DEF Defer, Points
  <2>7. QED
    BY <1>4, <2>2, <2>5, <2>6 DEF Defer, TypeOK
<1>5. CASE Deadline(i)
  <2>1. calls' \in [Intents -> [CallNumbers -> CallRows]]
    BY <1>5, ReceiptType DEF Deadline, Aborted, TypeOK, OpStates
  <2>2. proc' \in [Intents -> Handlers] /\ turn' \in {0} \cup Intents
    BY <1>5, StopType DEF Deadline
  <2>3. QED
    BY <1>5, <2>1, <2>2 DEF Deadline, TypeOK
<1>6. ASSUME NEW retryable \in BOOLEAN, ReplyFailed(i, retryable) PROVE TypeOK'
  <2>1. runs' \in [Intents -> RunRows]
    BY <1>6, <1>d, EmitType DEF ReplyFailed
  <2>2. [proc[i] EXCEPT !.pc = IF retryable THEN "defer" ELSE "ending",
                        !.mem = Outcome!ModelFailed(@)] \in Handlers
    BY <1>a, <1>b, <1>d, HandlerMemType DEF Points
  <2>3. proc' \in [Intents -> Handlers] /\ turn' \in {0} \cup Intents
    BY <1>6, <2>2, GoType DEF ReplyFailed
  <2>4. QED
    BY <1>6, <2>1, <2>3 DEF ReplyFailed, TypeOK
<1>7. CASE ToolRefused(i)
  <2>1. proc' \in [Intents -> Handlers] /\ turn' \in {0} \cup Intents
    BY <1>7, StopType DEF ToolRefused
  <2>2. QED
    BY <1>7, <2>1 DEF ToolRefused, TypeOK
<1>8. ASSUME NEW name \in Tools, CallTool(i, name) PROVE TypeOK'
  <2> DEFINE n == proc[i].seq + 1
             p == [proc[i] EXCEPT !.seq = n]
             opens == ~p.halted /\ Fresh(i, n, name) /\ usage[i].tools < MaxToolCalls
             flag == p.halted \/ ~Replayed(i, n, name)
  <2>1. n \in CallNumbers /\ n \in 0..MaxToolCalls
    BY <1>8, ExecutionAssumption DEF CallTool, CallNumbers
  <2>2. p \in Handlers
    BY <2>1, <1>b DEF Handlers
  <2>3. flag \in BOOLEAN
    OBVIOUS
  <2> HIDE DEF p, flag
  <2>4. /\ [p EXCEPT !.pc = "opened"] \in Handlers
        /\ [p EXCEPT !.pc = "calling"] \in Handlers
        /\ [p EXCEPT !.pc = "model"] \in Handlers
        /\ [p EXCEPT !.pc = "calling", !.halted = flag] \in Handlers
        /\ [p EXCEPT !.pc = "model", !.halted = flag] \in Handlers
    BY <2>2, <2>3, <1>a, HandlerFlagType DEF Points
  <2>5. \/ opens /\ Go(i, [p EXCEPT !.pc = "opened"])
             /\ usage' = [usage EXCEPT ![i].tools = @ + 1]
             /\ calls' = [calls EXCEPT ![i][n] = [name |-> name, state |-> "started"]]
        \/ /\ \E next \in {"calling", "model"} :
                 \/ Go(i, [p EXCEPT !.pc = next, !.halted = flag])
                 \/ Go(i, [p EXCEPT !.pc = next])
           /\ UNCHANGED <<usage, calls>>
    BY <1>8 DEF CallTool, p, flag
  <2>6. proc' \in [Intents -> Handlers] /\ turn' \in {0} \cup Intents
    BY <2>4, <2>5, GoType
  <2>7. usage' \in [Intents -> UsageRows]
    BY <2>5, <1>b, UsageRowType DEF TypeOK
  <2>8. calls' \in [Intents -> [CallNumbers -> CallRows]]
    <3>1. [name |-> name, state |-> "started"] \in CallRows
      BY DEF CallRows, OpStates
    <3>2. [calls[i] EXCEPT ![n] = [name |-> name, state |-> "started"]]
            \in [CallNumbers -> CallRows]
      BY <3>1, <2>1 DEF TypeOK
    <3>3. QED
      BY <3>2, <2>5 DEF TypeOK
  <2>9. QED
    BY <1>8, <2>6, <2>7, <2>8 DEF CallTool, TypeOK
<1> DEFINE n == proc[i].seq
           status == calls[i][n].state
<1>9. CASE OpenTool(i)
  <2>1. n \in CallNumbers
    BY <1>9 DEF OpenTool, At, Called, InTool
  <2>2. /\ Outcome!ToolStarted(runs[i].log, n) \in Outcome!Outcomes
        /\ Outcome!ToolStarted(proc[i].mem, n) \in Outcome!Outcomes
    BY <2>1, <1>c, ToolType
  <2>3. runs' \in [Intents -> RunRows]
    BY <1>9, <2>2, TouchType DEF OpenTool
  <2>4. [proc[i] EXCEPT !.pc = "tool", !.mem = Outcome!ToolStarted(@, n)] \in Handlers
    BY <2>2, <1>a, <1>b, HandlerMemType DEF Points
  <2>5. proc' \in [Intents -> Handlers] /\ turn' \in {0} \cup Intents
    BY <1>9, <2>4, GoType DEF OpenTool
  <2>6. QED
    BY <1>9, <2>3, <2>5 DEF OpenTool, TypeOK
<1>10. CASE DenyTool(i)
  <2>1. calls' \in [Intents -> [CallNumbers -> CallRows]]
    BY <1>10, ReceiptType DEF DenyTool, OpStates
  <2>2. proc' \in [Intents -> Handlers] /\ turn' \in {0} \cup Intents
    BY <1>10, <1>a, ToType DEF DenyTool, Points
  <2>3. QED
    BY <1>10, <2>1, <2>2 DEF DenyTool, TypeOK
<1>11. CASE RunExternal(i)
  <2>1. [world[i] EXCEPT !.acted[n] = @ + 1] \in Worlds
    <3>1. n \in CallNumbers
      BY <1>11 DEF RunExternal, At, Called, InTool
    <3>2. [world[i].acted EXCEPT ![n] = @ + 1] \in [CallNumbers -> Nat]
      BY <3>1 DEF TypeOK, Worlds
    <3>3. QED
      BY <3>2 DEF TypeOK, Worlds
  <2>2. world' \in [Intents -> Worlds]
    BY <1>11, <2>1 DEF RunExternal, TypeOK
  <2>3. proc' \in [Intents -> Handlers] /\ turn' \in {0} \cup Intents
    BY <1>11, <1>a, ToType DEF RunExternal, Points
  <2>4. QED
    BY <1>11, <2>2, <2>3 DEF RunExternal, TypeOK
<1>12. CASE RunLocal(i)
  <2>1. calls' \in [Intents -> [CallNumbers -> CallRows]]
    BY <1>12, ReceiptType DEF RunLocal, OpStates
  <2>2. proc' \in [Intents -> Handlers] /\ turn' \in {0} \cup Intents
    BY <1>12, <1>a, ToType DEF RunLocal, Points
  <2>3. result' \in [Intents -> Results]
    BY <1>12 DEF RunLocal, TypeOK, Results
  <2>4. tasks' \in [Tasks -> TaskRows]
    <3>1. [status |-> "completed", by |-> i] \in TaskRows
      BY DEF TaskRows
    <3>2. QED
      BY <1>12, <3>1 DEF RunLocal, TypeOK
  <2>5. QED
    BY <1>12, <2>1, <2>2, <2>3, <2>4 DEF RunLocal, TypeOK
<1>13. CASE AnswerTool(i)
  <2>1. calls' \in [Intents -> [CallNumbers -> CallRows]]
    BY <1>13, ReceiptType DEF AnswerTool, OpStates
  <2>2. \A recovery \in BOOLEAN :
          [proc[i] EXCEPT !.pc = "closed", !.recovery = recovery] \in Handlers
    BY <1>a, <1>b, HandlerFlagType DEF Points
  <2>3. proc' \in [Intents -> Handlers] /\ turn' \in {0} \cup Intents
    BY <1>13, <2>2, <1>a, ToType, GoType DEF AnswerTool, Points
  <2>4. QED
    BY <1>13, <2>1, <2>3 DEF AnswerTool, TypeOK
<1>14. CASE CloseTool(i)
  <2> DEFINE mem == IF status = "uncertain" THEN Outcome!Fail(proc[i].mem, "uncertain")
                    ELSE proc[i].mem
             seen == Observed(mem, n, status, proc[i].recovery)
             halted == proc[i].halted \/ status \in {"failed", "uncertain"}
             p == [proc[i] EXCEPT !.recovery = FALSE, !.halted = halted, !.mem = seen]
  <2>1. n \in CallNumbers /\ status \in OpStates
    BY <1>14 DEF CloseTool, At, Called, InTool, TypeOK, CallRows
  <2>2. mem \in Outcome!Outcomes
    BY <1>c, FailType
  <2>3. /\ Observed(runs[i].log, n, status, proc[i].recovery) \in Outcome!Outcomes
        /\ seen \in Outcome!Outcomes
    BY <2>1, <2>2, <1>b, <1>c, HandlerFields, ObservedType
  <2>4. halted \in BOOLEAN
    OBVIOUS
  <2> HIDE DEF mem, seen, halted
  <2>5. p \in Handlers
    BY <2>3, <2>4, <1>b DEF Handlers
  <2> HIDE DEF p
  <2>6. /\ [p EXCEPT !.pc = "save", !.out = result[i]] \in Handlers
        /\ \A next \in {"calling", "model"} : [p EXCEPT !.pc = next] \in Handlers
    BY <2>5, <1>a, <1>b, HandlerOutType, HandlerFlagType DEF Points
  <2>7. runs' \in [Intents -> RunRows]
    BY <1>14, <2>3, EmitType DEF CloseTool
  <2>8. proc' \in [Intents -> Handlers] /\ turn' \in {0} \cup Intents
    BY <1>14, <2>6, GoType DEF CloseTool, p, halted, seen, mem
  <2>9. QED
    BY <1>14, <2>7, <2>8 DEF CloseTool, TypeOK
<1>15. QED
  BY <1>1, <1>2, <1>3, <1>4, <1>5, <1>6, <1>7, <1>8, <1>9, <1>10, <1>11, <1>12,
     <1>13, <1>14 DEF AgentStep

\* The result, its delivery and the end of the attempt.
LEMMA TypeDelivery ==
  ASSUME TypeOK, NEW i \in Intents, DeliveryStep(i) \/ EndRun(i) \/ Finish(i)
  PROVE  TypeOK'
<1> DEFINE Points == AsyncPoints \cup SyncPoints
<1>a. {"permit", "sending", "ended", "ending", "deliver", "handing", "native",
       "opening", "stamping", "acked"} \subseteq Points
  BY DEF AsyncPoints, SyncPoints
<1>b. /\ proc[i] \in Handlers /\ intents[i] \in IntentRows /\ runs[i] \in RunRows
      /\ world[i] \in Worlds /\ send[i] \in OpStates
  BY DEF TypeOK
<1>c. /\ proc[i].mem \in Outcome!Outcomes /\ runs[i].log \in Outcome!Outcomes
      /\ intents[i].native \in BOOLEAN
  BY <1>b, HandlerFields, RunFields, IntentFields
<1> HIDE DEF Points
<1>1. CASE SaveResult(i)
  <2>1. result' \in [Intents -> Results]
    BY <1>1, <1>b, HandlerFields DEF SaveResult, TypeOK
  <2>2. proc' \in [Intents -> Handlers] /\ turn' \in {0} \cup Intents
    BY <1>1, <1>a, ToType DEF SaveResult, Points
  <2>3. QED
    BY <1>1, <2>1, <2>2 DEF SaveResult, TypeOK
<1>2. CASE Deliver(i)
  <2>1. /\ Outcome!Completed(runs[i].log) \in Outcome!Outcomes
        /\ Outcome!Completed(proc[i].mem) \in Outcome!Outcomes
        /\ Outcome!ResponseSent(runs[i].log, intents[i].native, {}) \in Outcome!Outcomes
        /\ Outcome!ResponseSent(proc[i].mem, intents[i].native, {}) \in Outcome!Outcomes
    BY <1>c, ReplyType
  <2>2. runs' \in [Intents -> RunRows]
    BY <1>2, <2>1, EmitType DEF Deliver, TypeOK
  <2>3. /\ [proc[i] EXCEPT !.pc = "ending", !.mem = Outcome!Completed(@)] \in Handlers
        /\ [proc[i] EXCEPT !.pc = "ending",
              !.mem = Outcome!ResponseSent(@, intents[i].native, {})] \in Handlers
    BY <2>1, <1>a, <1>b, HandlerMemType DEF Points
  <2>4. proc' \in [Intents -> Handlers] /\ turn' \in {0} \cup Intents
    BY <1>2, <2>3, <1>a, GoType, ToType, StopType DEF Deliver, Points
  <2>5. QED
    BY <1>2, <2>2, <2>4 DEF Deliver, TypeOK
<1>3. CASE PermitRefused(i)
  <2>1. proc' \in [Intents -> Handlers] /\ turn' \in {0} \cup Intents
    BY <1>3, StopType DEF PermitRefused
  <2>2. QED
    BY <1>3, <2>1 DEF PermitRefused, TypeOK
<1>4. CASE StartSend(i)
  <2>1. send' \in [Intents -> OpStates]
    BY <1>4 DEF StartSend, TypeOK, OpStates
  <2>2. proc' \in [Intents -> Handlers] /\ turn' \in {0} \cup Intents
    BY <1>4, <1>a, ToType DEF StartSend, Points
  <2>3. QED
    BY <1>4, <2>1, <2>2 DEF StartSend, TypeOK
<1>5. CASE HandOut(i)
  <2>1. /\ Outcome!ResponseSending(runs[i].log) \in Outcome!Outcomes
        /\ Outcome!ResponseSending(proc[i].mem) \in Outcome!Outcomes
    BY <1>c, ReplyType
  <2>2. runs' \in [Intents -> RunRows]
    BY <1>5, <2>1, TouchType DEF HandOut
  <2>3. [proc[i] EXCEPT !.pc = "sending", !.mem = Outcome!ResponseSending(@)] \in Handlers
    BY <2>1, <1>a, <1>b, HandlerMemType DEF Points
  <2>4. proc' \in [Intents -> Handlers] /\ turn' \in {0} \cup Intents
    BY <1>5, <2>3, GoType DEF HandOut
  <2>5. PICK arrives \in BOOLEAN :
          world' = [world EXCEPT ![i].sent = @ + 1, ![i].arrived = @ \/ arrives]
    BY <1>5 DEF HandOut
  <2> DEFINE arrived == world[i].arrived \/ arrives
  <2>6. arrived \in BOOLEAN
    OBVIOUS
  <2> HIDE DEF arrived
  <2>7. world' \in [Intents -> Worlds]
    <3>1. [world[i] EXCEPT !.sent = @ + 1, !.arrived = arrived] \in Worlds
      <4>1. world[i].sent + 1 \in Nat
        BY <1>b DEF Worlds
      <4>2. QED
        BY <1>b, <2>6, <4>1 DEF Worlds
    <3>2. world' = [world EXCEPT ![i] = [world[i] EXCEPT !.sent = @ + 1, !.arrived = arrived]]
      BY <2>5 DEF arrived, TypeOK
    <3>3. QED
      BY <3>1, <3>2 DEF TypeOK
  <2>8. QED
    BY <1>5, <2>2, <2>4, <2>7 DEF HandOut, TypeOK
<1>6. ASSUME NEW status \in {"succeeded", "failed", "uncertain"}, AnswerSend(i, status)
      PROVE  TypeOK'
  <2>1. send' \in [Intents -> OpStates]
    BY <1>6 DEF AnswerSend, TypeOK, OpStates
  <2>2. proc' \in [Intents -> Handlers] /\ turn' \in {0} \cup Intents
    BY <1>6, <1>a, ToType DEF AnswerSend, Points
  <2>3. QED
    BY <1>6, <2>1, <2>2 DEF AnswerSend, TypeOK
<1>7. CASE AppendNative(i)
  <2>1. proc' \in [Intents -> Handlers] /\ turn' \in {0} \cup Intents
    BY <1>7, <1>a, ToType, StopType DEF AppendNative, Points
  <2>2. Line(world[i]) \in Worlds
    <3>1. world[i].sent + 1 \in Nat
      BY <1>b DEF Worlds
    <3>2. QED
      BY <1>b, <3>1 DEF Line, Worlds
  <2>3. world' \in [Intents -> Worlds]
    BY <1>7, <2>2 DEF AppendNative, TypeOK
  <2>4. QED
    BY <1>7, <2>1, <2>3 DEF AppendNative, TypeOK
<1>8. CASE OpenNative(i)
  <2>1. send' \in [Intents -> OpStates]
    BY <1>8 DEF OpenNative, TypeOK, OpStates
  <2>2. proc' \in [Intents -> Handlers] /\ turn' \in {0} \cup Intents
    BY <1>8, <1>a, ToType DEF OpenNative, Points
  <2>3. QED
    BY <1>8, <2>1, <2>2 DEF OpenNative, TypeOK
<1>9. CASE StampNative(i)
  <2>1. send' \in [Intents -> OpStates]
    BY <1>9 DEF StampNative, TypeOK, OpStates
  <2>2. proc' \in [Intents -> Handlers] /\ turn' \in {0} \cup Intents
    BY <1>9, <1>a, ToType DEF StampNative, Points
  <2>3. QED
    BY <1>9, <2>1, <2>2 DEF StampNative, TypeOK
<1>10. CASE ReportSend(i)
  <2>1. /\ SendObserved(runs[i].log, send[i], intents[i].native) \in Outcome!Outcomes
        /\ SendObserved(proc[i].mem, send[i], intents[i].native) \in Outcome!Outcomes
    BY <1>b, <1>c, SendObservedType
  <2>2. [runs[i] EXCEPT !.log = SendObserved(@, send[i], intents[i].native),
                        !.refused = @ \/ send[i] = "failed"] \in RunRows
    BY <2>1, <1>b DEF RunRows
  <2>3. runs' \in [Intents -> RunRows]
    BY <1>10, <2>2 DEF ReportSend, TypeOK
  <2>4. [proc[i] EXCEPT !.pc = "ending",
           !.mem = SendObserved(@, send[i], intents[i].native)] \in Handlers
    BY <2>1, <1>a, <1>b, HandlerMemType DEF Points
  <2>5. proc' \in [Intents -> Handlers] /\ turn' \in {0} \cup Intents
    BY <1>10, <2>4, GoType DEF ReportSend
  <2>6. QED
    BY <1>10, <2>3, <2>5 DEF ReportSend, TypeOK
<1>11. CASE EndRun(i)
  <2>1. [runs[i] EXCEPT !.status = Outcome!Verdict(proc[i].mem)] \in RunRows
    BY <1>b, <1>c, VerdictType, RunStatusType DEF Statuses
  <2>2. runs' \in [Intents -> RunRows]
    BY <1>11, <2>1 DEF EndRun, TypeOK
  <2>3. proc' \in [Intents -> Handlers] /\ turn' \in {0} \cup Intents
    BY <1>11, <1>a, ToType DEF EndRun, Points
  <2>4. QED
    BY <1>11, <2>2, <2>3 DEF EndRun, TypeOK
<1>12. CASE Finish(i)
  <2>1. StateAfter(runs[i].status) \in States
    BY <1>b, RunFields DEF StateAfter, States, Statuses, Outcome!Verdicts
  <2>2. [intents[i] EXCEPT !.state = StateAfter(runs[i].status)] \in IntentRows
    BY <1>b, <2>1, IntentRowType
  <2>3. intents' \in [Intents -> IntentRows]
    BY <1>12, <2>2 DEF Finish, TypeOK
  <2>4. IdleProc \in Handlers
    BY <1>a, IdleProcType DEF Points
  <2>5. proc' \in [Intents -> Handlers] /\ turn' \in {0} \cup Intents
    BY <1>12, <2>4, GoType DEF Finish
  <2>6. QED
    BY <1>12, <2>3, <2>5 DEF Finish, TypeOK
<1>13. QED
  BY <1>1, <1>2, <1>3, <1>4, <1>5, <1>6, <1>7, <1>8, <1>9, <1>10, <1>11, <1>12
  DEF DeliveryStep

\* Time, crashes and the three passes of a restart.
LEMMA TypeRestart ==
  ASSUME TypeOK, Tick \/ Crash \/ Restart
  PROVE  TypeOK'
<1>1. CASE Tick
  <2>1. grants' \in [Grants -> GrantRows]
    BY <1>1, GrantRowType DEF Tick, TypeOK
  <2>2. 0 \in 0..MaxDelay
    BY ExecutionAssumption
  <2>3. intents' \in [Intents -> IntentRows]
    BY <1>1, <2>2, IntentTimeType DEF Tick, TypeOK
  <2>4. QED
    BY <1>1, <2>1, <2>3 DEF Tick, TypeOK
<1>2. CASE Crash
  <2>1. IdleProc \in Handlers
    BY IdleProcType DEF AsyncPoints
  <2>2. crashes' \in 0..MaxCrashes
    BY <1>2, ExecutionAssumption DEF Crash, TypeOK
  <2>3. QED
    BY <1>2, <2>1, <2>2 DEF Crash, TypeOK, db, Boots
<1>3. CASE Reconcile
  <2>1. ASSUME NEW i \in Intents PROVE Reconciled(i) \in RunRows
    <3> DEFINE answered == [runs[i].log EXCEPT !.pending = @ \ Appended(i)]
               sent == SendAppended(answered, i)
               log == IF result[i] = "silent" THEN Outcome!Completed(sent) ELSE sent
               refused == runs[i].refused \/ send[i] = "failed"
    <3>1. /\ runs[i] \in RunRows /\ intents[i] \in IntentRows /\ send[i] \in OpStates
      BY DEF TypeOK
    <3>2. /\ runs[i].log \in Outcome!Outcomes /\ intents[i].native \in BOOLEAN
      BY <3>1, RunFields, IntentFields
    <3>3. answered \in Outcome!Outcomes
      BY <3>2 DEF Outcome!Outcomes
    <3> HIDE DEF answered
    <3>4. sent \in Outcome!Outcomes
      BY <3>1, <3>2, <3>3, SendObservedType DEF SendAppended
    <3> HIDE DEF sent
    <3>5. log \in Outcome!Outcomes
      BY <3>4, ReplyType
    <3>6. refused \in BOOLEAN
      OBVIOUS
    <3> HIDE DEF log, refused
    <3>7. runs[i].receipted \cup Appended(i) \in SUBSET CallNumbers
      BY <3>1, RunFields DEF Appended
    <3>8. [runs[i] EXCEPT !.receipted = @ \cup Appended(i), !.refused = refused,
                          !.log = log] \in RunRows
      BY <3>1, <3>5, <3>6, <3>7 DEF RunRows
    <3>9. QED
      BY <3>8 DEF Reconciled, log, refused, sent, answered
  <2>2. runs' \in [Intents -> RunRows]
    BY <1>3, <2>1 DEF Reconcile, TypeOK
  <2>3. QED
    BY <1>3, <2>2 DEF Reconcile, TypeOK, Boots
<1>4. CASE RecoverRuns
  <2>1. ASSUME NEW i \in Intents
        PROVE  [runs[i] EXCEPT !.status = Outcome!Verdict(runs[i].log)] \in RunRows
    <3>1. runs[i] \in RunRows /\ runs[i].log \in Outcome!Outcomes
      BY RunFields DEF TypeOK
    <3>2. QED
      BY <3>1, VerdictType, RunStatusType DEF Statuses
  <2>2. runs' \in [Intents -> RunRows]
    BY <1>4, <2>1 DEF RecoverRuns, TypeOK
  <2>3. QED
    BY <1>4, <2>2 DEF RecoverRuns, TypeOK, Boots
<1>5. CASE RecoverIntents
  <2>1. \A i \in Intents : RecoveredState(i) \in States
    BY DEF RecoveredState, States
  <2>2. intents' \in [Intents -> IntentRows]
    BY <1>5, <2>1, IntentRowType DEF RecoverIntents, TypeOK
  <2>3. QED
    BY <1>5, <2>2 DEF RecoverIntents, TypeOK, Boots
<1>6. QED
  BY <1>1, <1>2, <1>3, <1>4, <1>5 DEF Restart

\* Every step keeps the types, given the rest of the invariant.
LEMMA TypeStep ==
  ASSUME Inv, [Next]_vars
  PROVE  TypeOK'
<1>1. CASE UNCHANGED vars
  BY <1>1 DEF Inv, TypeOK, vars, db
<1>2. CASE Host
  BY <1>2, TypeHost DEF Inv
<1>3. CASE Tick \/ Crash \/ Restart
  BY <1>3, TypeRestart DEF Inv
<1>4. ASSUME NEW i \in Intents, Pump(i) \/ RunStep(i) PROVE TypeOK'
  <2>1. CASE Pump(i) \/ Begin(i) \/ BeginRefused(i)
    BY <2>1, TypePump DEF Inv
  <2>2. CASE AgentStep(i)
    BY <2>2, TypeAgent DEF Inv, Sound
  <2>3. CASE DeliveryStep(i) \/ EndRun(i) \/ Finish(i)
    BY <2>3, TypeDelivery DEF Inv
  <2>4. QED
    BY <1>4, <2>1, <2>2, <2>3 DEF RunStep
<1>5. QED
  BY <1>1, <1>2, <1>3, <1>4 DEF Next
=============================================================================
