-------------------------- MODULE ExecutionEffects --------------------------
(***************************************************************************)
(* Execution implements Effects: the steps of the queue, its handlers and  *)
(* its recovery are steps of the promise, or leave it alone.               *)
(***************************************************************************)
EXTENDS Execution_proofs

\* The phases of the abstract specification cover the states of an intent.
LEMMA PhaseType ==
  ASSUME NEW state \in States
  PROVE  /\ PhaseOf(state) \in {"absent", "open", "done", "blocked", "forgotten"}
         /\ PhaseOf(state) = "open" <=> state \in {"queued", "claimed"}
BY DEF PhaseOf, States

\* A request of which nothing changes that Effects can see.
LEMMA Stays ==
  ASSUME NEW j \in Intents, PhaseOf(intents'[j].state) = PhaseOf(intents[j].state),
         Unknown(j)' = Unknown(j), DeedsOf(j)' = DeedsOf(j)
  PROVE  Promise!Step(j)
BY DEF Promise!Step, Promise!Stay

\* No deed is done when the world does not change.
LEMMA SameDeeds ==
  ASSUME NEW j \in Intents, world'[j] = world[j],
         intents'[j].native = intents[j].native \/ world[j].sent = 0
  PROVE  DeedsOf(j)' = DeedsOf(j)
BY DEF DeedsOf

\* An open request whose doubt begins, ends or goes on.
LEMMA Doubts ==
  ASSUME NEW j \in Intents, intents[j].state \in {"queued", "claimed"},
         intents'[j].state \in {"queued", "claimed"}, DeedsOf(j)' = DeedsOf(j)
  PROVE  Promise!Step(j)
<1>1. PhaseOf(intents[j].state) = "open" /\ PhaseOf(intents'[j].state) = "open"
  BY DEF PhaseOf
<1>2. CASE Unknown(j)' = Unknown(j)
  BY <1>1, <1>2, Stays
<1>3. CASE ~Unknown(j) /\ Unknown(j)'
  BY <1>1, <1>3 DEF Promise!Step, Promise!Announce
<1>4. CASE Unknown(j) /\ ~Unknown(j)'
  BY <1>1, <1>4 DEF Promise!Step, Promise!Learn
<1>5. QED
  BY <1>2, <1>3, <1>4 DEF Unknown

\* An open request that is closed without forgetting a doubt.
LEMMA Closes ==
  ASSUME NEW j \in Intents, intents[j].state \in {"queued", "claimed"},
         intents'[j].state \in {"done", "blocked"},
         Unknown(j)' = Unknown(j), DeedsOf(j)' = DeedsOf(j),
         intents'[j].state = "done" => ~Unknown(j)
  PROVE  Promise!Step(j)
<1>1. PhaseOf(intents[j].state) = "open" /\ PhaseOf(intents'[j].state) = intents'[j].state
  BY DEF PhaseOf
<1>2. Promise!Close(j, intents'[j].state)
  BY <1>1 DEF Promise!Close
<1>3. QED
  BY <1>2 DEF Promise!Step

\* An announced deed that is done for the first time.
LEMMA Performs ==
  ASSUME NEW j \in Intents, NEW d \in 0..MaxToolCalls,
         intents[j].state = "claimed", intents'[j].state = "claimed",
         Unknown(j), Unknown(j)', DeedsOf(j)[d] = 0,
         DeedsOf(j)' = [DeedsOf(j) EXCEPT ![d] = 1]
  PROVE  Promise!Step(j)
<1>1. PhaseOf(intents[j].state) = "open" /\ PhaseOf(intents'[j].state) = "open"
  BY DEF PhaseOf
<1>2. Promise!Perform(j, d)
  BY <1>1 DEF Promise!Perform
<1>3. QED
  BY <1>2 DEF Promise!Step

\* Counts that differ in one deed.
LEMMA SetDeed ==
  ASSUME NEW j \in Intents, NEW e \in 0..MaxToolCalls,
         \A d \in 0..MaxToolCalls :
           DeedsOf(j)'[d] = IF d = e THEN 1 ELSE DeedsOf(j)[d]
  PROVE  DeedsOf(j)' = [DeedsOf(j) EXCEPT ![e] = 1]
<1> DEFINE f == DeedsOf(j)'
           g == DeedsOf(j)
<1>1. f = [d \in 0..MaxToolCalls |-> f[d]] /\ g = [d \in 0..MaxToolCalls |-> g[d]]
  BY DEF DeedsOf
<1> HIDE DEF f, g
<1>2. f = [g EXCEPT ![e] = 1]
  BY <1>1 DEF f, g
<1>3. QED
  BY <1>2 DEF f, g

\* A handler that works on its request: claimed before and after, or deferred.
LEMMA HandlerEffects ==
  ASSUME Inv, Inv', NEW i \in Intents, RunStep(i)
  PROVE  Promise!Step(i)
<1>0. /\ Sound(i) /\ TypeOK /\ proc[i] \in Handlers /\ world[i] \in Worlds
      /\ runs[i] \in RunRows /\ intents[i] \in IntentRows /\ Sound(i)'
  BY DEF Inv, TypeOK
<1>1. CASE Finish(i)
  <2>1. /\ UNCHANGED <<calls, send, world>> /\ intents'[i].native = intents[i].native
        /\ proc[i].pc = "ended"
        /\ intents'[i].state = IF intents[i].state = "claimed"
                               THEN StateAfter(runs[i].status) ELSE intents[i].state
    BY <1>0, <1>1 DEF Finish, At, TypeOK, IntentRows
  <2>2. Unknown(i)' = Unknown(i) /\ DeedsOf(i)' = DeedsOf(i)
    BY <2>1, SameDeeds DEF Unknown
  <2>3. CASE intents[i].state # "claimed"
    BY <2>1, <2>2, <2>3, Stays
  <2>4. CASE intents[i].state = "claimed"
    <3>1. intents'[i].state \in {"done", "blocked", "queued"}
      BY <1>0, <2>1, <2>4, RunFields DEF StateAfter, Statuses, Outcome!Verdicts
    <3>2. intents'[i].state = "done" => ~Unknown(i)
      BY <1>0, <2>2 DEF Sound, Remembered
    <3>3. QED
      BY <2>2, <2>4, <3>1, <3>2, Closes, Doubts
  <2>5. QED
    BY <2>3, <2>4
<1>2. CASE BeginRefused(i) \/ Begin(i)
  <2>1. UNCHANGED <<intents, calls, send, world>>
    BY <1>2 DEF Begin, BeginRefused
  <2>2. QED
    BY <2>1, SameDeeds, Stays DEF Unknown
<1>3. CASE HandOut(i)
  <2>1. /\ UNCHANGED <<intents, calls, send>> /\ proc[i].pc = "handing"
        /\ intents[i].state = "claimed" /\ ~intents[i].native /\ send[i] = "started"
        /\ world[i].sent = 0
    BY <1>0, <1>3 DEF HandOut, At, Sound, Owned, Handed, AtHome
  <2>2. PICK arrives \in BOOLEAN :
          world' = [world EXCEPT ![i].sent = @ + 1, ![i].arrived = @ \/ arrives]
    BY <1>3 DEF HandOut
  <2> DEFINE arrived == world[i].arrived \/ arrives
  <2>3. world'[i] = [world[i] EXCEPT !.sent = @ + 1, !.arrived = arrived]
    BY <1>0, <2>2 DEF TypeOK
  <2> HIDE DEF arrived
  <2>4. world'[i].sent = 1 /\ world'[i].acted = world[i].acted
    BY <1>0, <2>1, <2>3 DEF Worlds
  <2>5. DeedsOf(i)[0] = 0 /\ DeedsOf(i)' = [DeedsOf(i) EXCEPT ![0] = 1]
    <3>1. DeedsOf(i)[0] = 0
      BY <2>1, ExecutionAssumption DEF DeedsOf
    <3>2. ASSUME NEW d \in 0..MaxToolCalls
          PROVE  DeedsOf(i)'[d] = IF d = 0 THEN 1 ELSE DeedsOf(i)[d]
      BY <2>1, <2>4 DEF DeedsOf
    <3>3. QED
      BY <3>1, <3>2, SetDeed, ExecutionAssumption
  <2>6. Unknown(i) /\ Unknown(i)'
    BY <2>1 DEF Unknown
  <2>7. 0 \in 0..MaxToolCalls
    BY ExecutionAssumption
  <2>8. QED
    BY <2>1, <2>5, <2>6, <2>7, Performs
<1>4. CASE AppendNative(i)
  <2>1. /\ UNCHANGED <<intents, calls, send>> /\ intents[i].native
        /\ world'[i].acted = world[i].acted
    <3>1. UNCHANGED <<intents, calls, send>> /\ intents[i].native
      BY <1>0, <1>4 DEF AppendNative, At, Sound, Handed, AtNative
    <3>2. Line(world[i]).acted = world[i].acted
      BY <1>0 DEF Line, Worlds
    <3>3. QED
      BY <1>0, <1>4, <3>1, <3>2 DEF AppendNative, TypeOK
  <2>2. DeedsOf(i)' = DeedsOf(i) /\ Unknown(i)' = Unknown(i)
    BY <2>1 DEF DeedsOf, Unknown
  <2>3. QED
    BY <2>1, <2>2, Stays
<1>5. CASE RunExternal(i)
  <2> DEFINE n == proc[i].seq
  <2>1. /\ UNCHANGED <<intents, calls, send>> /\ proc[i].pc = "tool"
        /\ intents[i].state = "claimed" /\ n \in CallNumbers
        /\ calls[i][n].name \in External /\ calls[i][n].state = "started"
        /\ world[i].acted[n] = 0
    BY <1>0, <1>5 DEF RunExternal, At, Sound, Owned, Called, InTool
  <2>2. /\ world'[i].sent = world[i].sent
        /\ world'[i].acted = [world[i].acted EXCEPT ![n] = 1]
    BY <1>0, <1>5, <2>1 DEF RunExternal, TypeOK, Worlds
  <2>3. n \in 0..MaxToolCalls /\ n # 0
    BY <2>1, ExecutionAssumption DEF CallNumbers
  <2>4. world[i].acted \in [CallNumbers -> Nat]
    BY <1>0 DEF Worlds
  <2>5. DeedsOf(i)[n] = 0 /\ DeedsOf(i)' = [DeedsOf(i) EXCEPT ![n] = 1]
    <3>1. DeedsOf(i)[n] = 0
      BY <2>1, <2>3 DEF DeedsOf
    <3>2. ASSUME NEW d \in 0..MaxToolCalls
          PROVE  DeedsOf(i)'[d] = IF d = n THEN 1 ELSE DeedsOf(i)[d]
      <4>1. CASE d = 0
        BY <2>1, <2>2, <2>3, <4>1 DEF DeedsOf
      <4>2. CASE d # 0
        <5>1. d \in CallNumbers
          BY <4>2, ExecutionAssumption DEF CallNumbers
        <5>2. QED
          BY <2>2, <2>4, <4>2, <5>1 DEF DeedsOf
      <4>3. QED
        BY <4>1, <4>2
    <3>3. QED
      BY <3>1, <3>2, <2>3, SetDeed
  <2>6. Unknown(i) /\ Unknown(i)'
    BY <2>1 DEF Unknown
  <2>7. QED
    BY <2>1, <2>3, <2>5, <2>6, Performs
<1>6. ASSUME AgentStep(i) \/ DeliveryStep(i) \/ EndRun(i),
             ~HandOut(i), ~AppendNative(i), ~RunExternal(i)
      PROVE  Promise!Step(i)
  <2>1. intents[i].state = "claimed"
    <3>1. proc[i].pc \notin {"idle", "ended"}
      BY <1>6 DEF AgentStep, DeliveryStep, StartModel, ModelRefused, ReplyText, Defer,
         Deadline, ReplyFailed, ToolRefused, CallTool, Choosing, OpenTool, DenyTool,
         RunLocal, AnswerTool, CloseTool, SaveResult, Deliver, PermitRefused, StartSend,
         AnswerSend, OpenNative, StampNative, ReportSend, EndRun, At
    <3>2. QED
      BY <1>0, <3>1 DEF Sound, Owned
  <2>2. world' = world
    BY <1>6 DEF AgentStep, DeliveryStep, StartModel, ModelRefused, ReplyText, Defer,
       Deadline, ReplyFailed, ToolRefused, CallTool, OpenTool, DenyTool,
       RunLocal, AnswerTool, CloseTool, SaveResult, Deliver, PermitRefused, StartSend,
       AnswerSend, OpenNative, StampNative, ReportSend, EndRun
  <2>3. \/ intents' = intents
        \/ intents' = [intents EXCEPT ![i].state = "queued",
                                      ![i].wait = Backoff(intents[i].attempts)]
    BY <1>6 DEF AgentStep, DeliveryStep, StartModel, ModelRefused, ReplyText, Defer,
       Deadline, ReplyFailed, ToolRefused, CallTool, OpenTool, DenyTool,
       RunLocal, AnswerTool, CloseTool, SaveResult, Deliver, PermitRefused, StartSend,
       AnswerSend, OpenNative, StampNative, ReportSend, EndRun
  <2>4. /\ intents'[i].native = intents[i].native
        /\ intents'[i].state \in {"claimed", "queued"}
    <3> DEFINE wait == Backoff(intents[i].attempts)
    <3>1. \/ intents' = intents
          \/ intents'[i] = [intents[i] EXCEPT !.state = "queued", !.wait = wait]
      BY <1>0, <2>3 DEF TypeOK
    <3> HIDE DEF wait
    <3>2. QED
      BY <1>0, <2>1, <3>1 DEF IntentRows
  <2>5. QED
    BY <2>1, <2>2, <2>4, SameDeeds, Doubts
<1>7. QED
  BY <1>1, <1>2, <1>3, <1>4, <1>5, <1>6 DEF RunStep

\* Claiming and refusing are steps of the abstract specification.
LEMMA PumpEffects ==
  ASSUME Inv, NEW i \in Intents, Pump(i)
  PROVE  Promise!Step(i)
<1>0. TypeOK /\ intents[i] \in IntentRows
  BY DEF Inv, TypeOK
<1>1. /\ UNCHANGED <<calls, send, world>> /\ intents[i].state = "queued"
      /\ intents'[i].native = intents[i].native
      /\ intents'[i].state \in {"claimed", "blocked"}
  BY <1>0 DEF Pump, Claim, Refuse, Offered, Runnable, Due, TypeOK, IntentRows
<1>2. Unknown(i)' = Unknown(i) /\ DeedsOf(i)' = DeedsOf(i)
  BY <1>1, SameDeeds DEF Unknown
<1>3. QED
  BY <1>1, <1>2, Doubts, Closes

\* Accepting is a step of the abstract specification.
LEMMA AcceptEffects ==
  ASSUME Inv, NEW g, NEW t, NEW k, NEW kind, NEW native, NEW origin,
         Accept(g, t, k, kind, native, origin), NEW j \in Intents
  PROVE  Promise!Step(j)
<1>0. Sound(j) /\ TypeOK
  BY DEF Inv
<1>1. PICK i \in Intents : Accept(g, t, k, kind, native, origin)!(i)
  BY DEF Accept
<1>2. calls' = calls /\ send' = send /\ world' = world /\ intents[i].state = "absent"
  BY <1>1
<1>3. CASE j # i
  <2>1. intents'[j] = intents[j]
    BY <1>0, <1>1, <1>3 DEF TypeOK
  <2>2. QED
    BY <1>2, <2>1, SameDeeds, Stays DEF Unknown
<1>4. CASE j = i
  <2>1. intents'[j].state = "queued"
    BY <1>0, <1>1, <1>4 DEF TypeOK
  <2>2. world[j] = NewWorld /\ NoOperation(j)
    BY <1>0, <1>2, <1>4 DEF Sound, Untouched
  <2>3. ~Unknown(j) /\ ~Unknown(j)' /\ DeedsOf(j)' = DeedsOf(j)
    BY <1>2, <2>2, SameDeeds DEF Unknown, NoOperation, NewWorld
  <2>4. Unknown(j)' = Unknown(j)
    BY <2>3 DEF Unknown
  <2>5. Promise!Accept(j)
    BY <1>2, <1>4, <2>1, <2>3, <2>4 DEF Promise!Accept, PhaseOf
  <2>6. QED
    BY <2>5 DEF Promise!Step
<1>5. QED
  BY <1>3, <1>4

\* So are the operations of the host,
LEMMA HostEffects ==
  ASSUME Inv, Host, NEW j \in Intents
  PROVE  Promise!Step(j)
<1>0. Sound(j) /\ TypeOK /\ intents[j] \in IntentRows
  BY DEF Inv, TypeOK
<1>1. ASSUME UNCHANGED <<calls, send, world>>, intents'[j].state = intents[j].state,
             intents'[j].native = intents[j].native
      PROVE  Promise!Step(j)
  BY <1>1, SameDeeds, Stays DEF Unknown
<1>2. ASSUME NEW g \in Grants, IssueGrant(g) PROVE Promise!Step(j)
  BY <1>1, <1>2 DEF IssueGrant
<1>3. ASSUME NEW g \in Grants, RevokeGrant(g) PROVE Promise!Step(j)
  <2>1. CASE intents'[j] = intents[j]
    BY <1>1, <1>3, <2>1 DEF RevokeGrant
  <2>2. CASE /\ intents[j].state = "queued"
             /\ intents'[j] = [intents[j] EXCEPT !.state = "blocked"]
    <3>1. /\ intents'[j].state = "blocked" /\ intents'[j].native = intents[j].native
          /\ UNCHANGED <<calls, send, world>>
      BY <1>0, <1>3, <2>2 DEF IntentRows, RevokeGrant
    <3>2. QED
      BY <2>2, <3>1, SameDeeds, Closes DEF Unknown
  <2>3. QED
    BY <1>3, <2>1, <2>2 DEF RevokeGrant
<1>4. ASSUME NEW t \in Tasks, NEW status \in {"open", "paused", "cancelled"},
             ControlTask(t, status)
      PROVE  Promise!Step(j)
  BY <1>1, <1>4 DEF ControlTask
<1>5. ASSUME NEW i \in Intents, Supersede(i) PROVE Promise!Step(j)
  <2>1. intents'[j].state = intents[j].state /\ intents'[j].native = intents[j].native
    BY <1>0, <1>5 DEF Supersede, TypeOK, IntentRows
  <2>2. QED
    BY <1>1, <1>5, <2>1 DEF Supersede
<1>6. CASE Submit \/ \E o \in Intents, k \in Keys : RetryDelivery(o, k)
  BY <1>6, AcceptEffects DEF Submit, RetryDelivery
<1>7. CASE Collect
  <2>1. CASE ~Collectable(j)
    BY <1>0, <1>7, <2>1, SameDeeds, Stays DEF Collect, Unknown
  <2>2. CASE Collectable(j)
    <3>1. /\ intents[j].state \in {"done", "blocked"} /\ intents'[j].state = "collected"
          /\ intents'[j].native = intents[j].native /\ world' = world
          /\ calls'[j] = NoCalls /\ send'[j] = "none"
      BY <1>0, <1>7, <2>2 DEF Collect, Collectable, TypeOK, IntentRows
    <3>2. ~Unknown(j) /\ ~Unknown(j)'
      BY <2>2, <3>1 DEF Collectable, Undecided, Unknown, NoCalls
    <3>3. Promise!Forget(j)
      BY <3>1, <3>2, SameDeeds DEF Promise!Forget, PhaseOf
    <3>4. QED
      BY <3>3 DEF Promise!Step
  <2>3. QED
    BY <2>1, <2>2
<1>8. QED
  BY <1>2, <1>3, <1>4, <1>5, <1>6, <1>7 DEF Host

\* time, crashes and recoveries,
LEMMA RestartEffects ==
  ASSUME Inv, Tick \/ Crash \/ Restart, NEW j \in Intents
  PROVE  Promise!Step(j)
<1>0. Sound(j) /\ TypeOK /\ intents[j] \in IntentRows
  BY DEF Inv, TypeOK
<1>1. UNCHANGED <<calls, send, world>>
  BY DEF Tick, Crash, Restart, Reconcile, RecoverRuns, RecoverIntents, db
<1>2. ASSUME intents'[j].state = intents[j].state, intents'[j].native = intents[j].native
      PROVE  Promise!Step(j)
  BY <1>1, <1>2, SameDeeds, Stays DEF Unknown
<1>3. CASE Tick
  <2> DEFINE wait == Less(intents[j].wait)
             age == Older(intents[j].age)
  <2>1. \/ intents'[j] = intents[j]
        \/ intents'[j] = [intents[j] EXCEPT !.wait = wait, !.age = age]
    BY <1>3 DEF Tick
  <2> HIDE DEF wait, age
  <2>2. QED
    BY <1>0, <1>2, <2>1 DEF IntentRows
<1>4. CASE Crash \/ Reconcile \/ RecoverRuns
  BY <1>2, <1>4 DEF Crash, Reconcile, RecoverRuns, db
<1>5. CASE RecoverIntents
  <2>1. /\ intents'[j].native = intents[j].native
        /\ \/ intents'[j].state = intents[j].state
           \/ /\ intents[j].state \in {"queued", "claimed"}
              /\ intents'[j].state = RecoveredState(j)
    BY <1>0, <1>5 DEF RecoverIntents, TypeOK, IntentRows, Pending, Rows
  <2>2. /\ RecoveredState(j) \in {"blocked", "done", "queued"}
        /\ RecoveredState(j) = "done" => ~Unknown(j)
    BY DEF RecoveredState
  <2>3. Unknown(j)' = Unknown(j) /\ DeedsOf(j)' = DeedsOf(j)
    BY <1>1, <2>1, SameDeeds DEF Unknown
  <2>4. QED
    BY <1>2, <2>1, <2>2, <2>3, Closes, Doubts
<1>6. QED
  BY <1>3, <1>4, <1>5 DEF Restart

\* and with them every step of the queue.
LEMMA EffectsStep ==
  ASSUME Inv, Inv', [Next]_vars
  PROVE  [Promise!Next]_(Promise!effects)
<1>1. ASSUME NEW i \in Intents, Pump(i) \/ RunStep(i), NEW j \in Intents
      PROVE  Promise!Step(j)
  <2>1. CASE j = i
    BY <1>1, <2>1, PumpEffects, HandlerEffects
  <2>2. CASE j # i
    <3>1. LocalTo(i)
      BY <1>1, LocalPump, LocalAgent, LocalDelivery DEF Inv, RunStep
    <3>2. QED
      BY <2>2, <3>1, SameDeeds, Stays DEF LocalTo, Unknown
  <2>3. QED
    BY <2>1, <2>2
<1>2. CASE Next
  <2>1. \A j \in Intents : Promise!Step(j)
    BY <1>1, <1>2, HostEffects, RestartEffects DEF Next
  <2>2. QED
    BY <2>1 DEF Promise!Next
<1>3. CASE UNCHANGED vars
  BY <1>3 DEF vars, db, Promise!effects, Unknown, DeedsOf
<1>4. QED
  BY <1>2, <1>3

\* Every behaviour of the queue keeps the promise of Effects: no deed is done
\* twice, none without being announced before, and nothing in doubt is reported
\* as done or forgotten (store.ts:703, operations.ts:27, store.ts:931).
THEOREM EffectsPromisedHolds == Spec => EffectsPromised
<1>1. ASSUME Init PROVE Promise!Init
  <2>1. ASSUME NEW j \in Intents
        PROVE  /\ PhaseOf(intents[j].state) = "absent" /\ Unknown(j) = FALSE
               /\ DeedsOf(j) = [d \in 0..MaxToolCalls |-> 0]
    <3>1. PhaseOf(intents[j].state) = "absent"
      BY <1>1 DEF Init, NewIntent, PhaseOf
    <3>2. Unknown(j) = FALSE
      BY <1>1 DEF Init, NoCalls, Unknown
    <3>3. ASSUME NEW d \in 0..MaxToolCalls, d # 0 PROVE d \in CallNumbers
      BY <3>3, ExecutionAssumption DEF CallNumbers
    <3>4. DeedsOf(j) = [d \in 0..MaxToolCalls |-> 0]
      BY <1>1, <3>3 DEF Init, NewWorld, DeedsOf
    <3>5. QED
      BY <3>1, <3>2, <3>4
  <2>2. /\ [j \in Intents |-> PhaseOf(intents[j].state)] = [j \in Intents |-> "absent"]
        /\ [j \in Intents |-> Unknown(j)] = [j \in Intents |-> FALSE]
        /\ [j \in Intents |-> DeedsOf(j)]
             = [j \in Intents |-> [d \in 0..MaxToolCalls |-> 0]]
    BY <2>1
  <2>3. QED
    BY <2>2 DEF Promise!Init
<1>2. QED
  BY <1>1, Invariance, EffectsStep, PTL DEF Spec, EffectsPromised, Promise!Spec
=============================================================================
