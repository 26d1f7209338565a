-------------------------- MODULE Execution_proofs --------------------------
(***************************************************************************)
(* Safety of Execution for every value of its constants: the inductive     *)
(* invariant, what follows from it, and the refinement of Effects.         *)
(***************************************************************************)
EXTENDS ExecutionTypes

----------------------------------------------------------------------------
(* A step of one handler leaves the other requests alone.                  *)

LocalTo(i) ==
  /\ boot = "up" /\ boot' = "up" /\ turn \in {0, i} /\ turn' \in {0, i}
  /\ grants' = grants
  /\ \A j \in Intents \ {i} :
       /\ intents'[j] = intents[j] /\ proc'[j] = proc[j] /\ runs'[j] = runs[j]
       /\ calls'[j] = calls[j] /\ send'[j] = send[j] /\ world'[j] = world[j]
       /\ result'[j] = result[j] /\ usage'[j] = usage[j]

\* Claiming, refusing and beginning touch one request only.
LEMMA LocalPump ==
  ASSUME TypeOK, NEW i \in Intents, Pump(i) \/ Begin(i) \/ BeginRefused(i)
  PROVE  LocalTo(i)
<1> USE DEF LocalTo, TypeOK, Go, To, At, Free
<1>1. CASE Claim(i)
  BY <1>1 DEF Claim
<1>2. CASE Refuse(i)
  BY <1>2 DEF Refuse, BlockRun
<1>3. CASE Begin(i)
  BY <1>3 DEF Begin
<1>4. CASE BeginRefused(i)
  BY <1>4 DEF BeginRefused
<1>5. QED
  BY <1>1, <1>2, <1>3, <1>4 DEF Pump

\* A step of the agent loop touches one request only.
LEMMA LocalAgent ==
  ASSUME TypeOK, NEW i \in Intents, AgentStep(i)
  PROVE  LocalTo(i)
<1> USE DEF LocalTo, TypeOK, Go, To, Stop, Emit, Touch, Receipt, At
<1>1. CASE StartModel(i)
  BY <1>1 DEF StartModel
<1>2. CASE ModelRefused(i)
  BY <1>2 DEF ModelRefused
<1>3. CASE ReplyText(i)
  BY <1>3 DEF ReplyText
<1>4. CASE Defer(i)
  BY <1>4 DEF Defer
<1>5. CASE Deadline(i)
  BY <1>5 DEF Deadline
<1>6. ASSUME NEW retryable \in BOOLEAN, ReplyFailed(i, retryable) PROVE LocalTo(i)
  BY <1>6 DEF ReplyFailed
<1>7. CASE ToolRefused(i)
  BY <1>7 DEF ToolRefused, Choosing
<1>8. ASSUME NEW name \in Tools, CallTool(i, name) PROVE LocalTo(i)
  BY <1>8 DEF CallTool, Choosing
<1>9. CASE OpenTool(i)
  BY <1>9 DEF OpenTool
<1>10. CASE DenyTool(i)
  BY <1>10 DEF DenyTool
<1>11. CASE RunExternal(i)
  BY <1>11 DEF RunExternal
<1>12. CASE RunLocal(i)
  BY <1>12 DEF RunLocal
<1>13. CASE AnswerTool(i)
  BY <1>13 DEF AnswerTool
<1>14. CASE CloseTool(i)
  BY <1>14 DEF CloseTool
<1>15. QED
  BY <1>1, <1>2, <1>3, <1>4, <1>5, <1>6, <1>7, <1>8, <1>9, <1>10, <1>11, <1>12,
     <1>13, <1>14 DEF AgentStep

\* A step of the delivery touches one request only.
LEMMA LocalDelivery ==
  ASSUME TypeOK, NEW i \in Intents, DeliveryStep(i) \/ EndRun(i) \/ Finish(i)
  PROVE  LocalTo(i)
<1> USE DEF LocalTo, TypeOK, Go, To, Stop, Emit, Touch, At
<1>1. CASE SaveResult(i)
  BY <1>1 DEF SaveResult
<1>2. CASE Deliver(i)
  BY <1>2 DEF Deliver
<1>3. CASE PermitRefused(i)
  BY <1>3 DEF PermitRefused
<1>4. CASE StartSend(i)
  BY <1>4 DEF StartSend
<1>5. CASE HandOut(i)
  BY <1>5 DEF HandOut
<1>6. ASSUME NEW status \in {"succeeded", "failed", "uncertain"}, AnswerSend(i, status)
      PROVE  LocalTo(i)
  BY <1>6 DEF AnswerSend
<1>7. CASE AppendNative(i)
  BY <1>7 DEF AppendNative
<1>8. CASE OpenNative(i)
  BY <1>8 DEF OpenNative
<1>9. CASE StampNative(i)
  BY <1>9 DEF StampNative
<1>10. CASE ReportSend(i)
  BY <1>10 DEF ReportSend
<1>11. CASE EndRun(i)
  BY <1>11 DEF EndRun
<1>12. CASE Finish(i)
  BY <1>12 DEF Finish
<1>13. QED
  BY <1>1, <1>2, <1>3, <1>4, <1>5, <1>6, <1>7, <1>8, <1>9, <1>10, <1>11, <1>12
  DEF DeliveryStep

\* A request whose rows, handler and world do not change stays sound.
LEMMA Frame ==
  ASSUME NEW j \in Intents, Sound(j),
         intents'[j].state = intents[j].state, intents'[j].native = intents[j].native,
         proc'[j] = proc[j], runs'[j].status = runs[j].status, calls'[j] = calls[j],
         send'[j] = send[j], world'[j] = world[j],
         boot' = boot, turn' = turn \/ proc[j].pc \notin SyncPoints
  PROVE  Sound(j)'
<1>1. Unknown(j)' = Unknown(j) /\ NoOperation(j)' = NoOperation(j)
  BY DEF Unknown, NoOperation
<1>2. Owned(j)' /\ Untouched(j)'
  BY <1>1 DEF Sound, Owned, Untouched
<1>3. Handed(j)' /\ Called(j)'
  BY DEF Sound, Handed, Called
<1>4. Remembered(j)'
  BY <1>1 DEF Sound, Remembered, Knows, KnowsSend, OpenCall, OpenSend
<1>5. QED
  BY <1>2, <1>3, <1>4 DEF Sound

\* A step for one request keeps every other request sound.
LEMMA Others ==
  ASSUME Inv, NEW i \in Intents, Pump(i) \/ RunStep(i), NEW j \in Intents, j # i
  PROVE  Sound(j)'
<1>1. LocalTo(i)
  BY LocalPump, LocalAgent, LocalDelivery DEF Inv, RunStep
<1>2. Sound(j)
  BY DEF Inv
<1>3. proc[j].pc \notin SyncPoints
  BY <1>1, <1>2 DEF LocalTo, Sound, Owned, Intents
<1>4. QED
  BY <1>1, <1>2, <1>3, Frame DEF LocalTo

----------------------------------------------------------------------------
(* Steps that only move the handler.                                       *)

Plain == {"model", "thinking", "calling", "save", "deliver", "defer", "ending"}

KnowsAll(mem, i) ==
  (\A n \in CallNumbers : Knows(mem, i, n)) /\ KnowsSend(mem, i)

\* A handler between two tool calls and not handing out a message is claimed
\* and knows all that is unknown.
LEMMA Inside ==
  ASSUME Inv, NEW i \in Intents, NEW pc, At(i, pc),
         pc \notin {"idle", "ended", "opened", "handing"}
  PROVE  /\ proc[i] \in Handlers /\ proc[i].pc = pc /\ boot = "up"
         /\ proc[i].mem \in Outcome!Outcomes /\ intents[i].state = "claimed"
         /\ KnowsAll(proc[i].mem, i)
<1>1. proc[i] \in Handlers
  BY DEF Inv, TypeOK
<1>2. QED
  BY <1>1, HandlerFields DEF Inv, Sound, Owned, Remembered, KnowsAll, At

\* A handler that moves to a plain point and knows what is unknown stays sound.
LEMMA Move ==
  ASSUME Inv, NEW i \in Intents, NEW p \in Handlers, Go(i, p), p.pc \in Plain,
         boot = "up", boot' = boot, intents[i].state = "claimed",
         UNCHANGED <<intents, calls, send, world>>, KnowsAll(p.mem, i)
  PROVE  Sound(i)'
<1>1. proc'[i] = p /\ turn' = (IF p.pc \in SyncPoints THEN i ELSE 0) /\ Sound(i)
  BY DEF Go, Inv, TypeOK
<1>2. p.pc \notin AtHome \cup AtNative \cup InTool \cup {"idle", "claimed", "acked", "ended"}
  BY DEF Plain, AtHome, AtNative, InTool
<1>3. Unknown(i)' = Unknown(i) /\ NoOperation(i)' = NoOperation(i)
  BY DEF Unknown, NoOperation
<1>4. Owned(i)' /\ Untouched(i)'
  BY <1>1, <1>2, <1>3 DEF Sound, Owned, Untouched
<1>5. Handed(i)' /\ Called(i)'
  BY <1>1, <1>2 DEF Sound, Handed, Called, AtHome, AtNative, InTool
<1>6. Remembered(i)'
  BY <1>1, <1>2, <1>3 DEF Sound, Remembered, KnowsAll, Knows, KnowsSend, OpenCall, OpenSend
<1>7. QED
  BY <1>4, <1>5, <1>6 DEF Sound

\* Noting a failure forgets nothing that is unknown.
LEMMA FailKnows ==
  ASSUME NEW i \in Intents, NEW mem \in Outcome!Outcomes, KnowsAll(mem, i),
         NEW status \in {"failed", "blocked", "uncertain"}
  PROVE  /\ KnowsAll(Outcome!Fail(mem, status), i)
         /\ KnowsAll(Outcome!ModelFailed(mem), i)
         /\ KnowsAll(Outcome!Completed(mem), i)
BY DEF KnowsAll, Knows, KnowsSend, Outcome!Fail, Outcome!ModelFailed,
       Outcome!Completed, Outcome!Outcomes

\* Ending an attempt early keeps its request sound.
LEMMA StopMove ==
  ASSUME Inv, NEW i \in Intents, NEW pc, At(i, pc),
         pc \notin {"idle", "ended", "opened", "handing"},
         NEW status \in {"failed", "blocked", "uncertain"}, Stop(i, status),
         boot' = boot, UNCHANGED <<intents, calls, send, world>>
  PROVE  Sound(i)'
<1> DEFINE p == [proc[i] EXCEPT !.pc = "ending", !.mem = Outcome!Fail(@, status)]
<1>1. /\ proc[i] \in Handlers /\ boot = "up" /\ proc[i].mem \in Outcome!Outcomes
      /\ intents[i].state = "claimed" /\ KnowsAll(proc[i].mem, i)
  BY Inside
<1>2. Outcome!Fail(proc[i].mem, status) \in Outcome!Outcomes
  BY <1>1, FailType
<1>3. p \in Handlers /\ p.pc = "ending" /\ p.mem = Outcome!Fail(proc[i].mem, status)
  BY <1>1, <1>2 DEF Handlers, SyncPoints
<1>4. KnowsAll(p.mem, i)
  BY <1>1, <1>3, FailKnows
<1>5. Go(i, p)
  BY DEF Stop
<1> HIDE DEF p
<1>6. QED
  BY <1>1, <1>3, <1>4, <1>5, Move DEF Plain

\* Moving between plain points keeps the request sound.
LEMMA ToMove ==
  ASSUME Inv, NEW i \in Intents, NEW pc, At(i, pc),
         pc \notin {"idle", "ended", "opened", "handing"},
         NEW next \in Plain, To(i, next),
         boot' = boot, UNCHANGED <<intents, calls, send, world>>
  PROVE  Sound(i)'
<1> DEFINE p == [proc[i] EXCEPT !.pc = next]
<1>1. /\ proc[i] \in Handlers /\ boot = "up"
      /\ intents[i].state = "claimed" /\ KnowsAll(proc[i].mem, i)
  BY Inside
<1>2. p \in Handlers /\ p.pc = next /\ p.mem = proc[i].mem
  BY <1>1 DEF Handlers, Plain, SyncPoints, AsyncPoints
<1>3. Go(i, p)
  BY DEF To
<1> HIDE DEF p
<1>4. QED
  BY <1>1, <1>2, <1>3, Move

----------------------------------------------------------------------------
(* Every step of a handler keeps its own request sound.                    *)

\* Claiming, refusing and beginning keep the request sound.
LEMMA OwnPump ==
  ASSUME Inv, NEW i \in Intents, Pump(i) \/ Begin(i) \/ BeginRefused(i)
  PROVE  Sound(i)'
<1>0. Sound(i) /\ TypeOK /\ intents[i] \in IntentRows /\ proc[i] \in Handlers
  BY DEF Inv, TypeOK
<1>1. CASE Claim(i)
  <2>1. /\ intents[i].state = "queued" /\ boot = "up" /\ boot' = boot
        /\ intents'[i].state = "claimed" /\ intents'[i].native = intents[i].native
        /\ proc'[i].pc = "claimed" /\ turn' = i
        /\ calls'[i] = calls[i] /\ send'[i] = send[i] /\ world'[i] = world[i]
    BY <1>0, <1>1 DEF Claim, Free, Offered, Runnable, Due, Go, TypeOK, IntentRows,
       IdleProc, SyncPoints
  <2>2. ~Unknown(i) /\ ~Unknown(i)'
    BY <1>0, <2>1 DEF Sound, Remembered, Unknown
  <2>3. Owned(i)' /\ Untouched(i)'
    BY <1>0, <2>1 DEF Sound, Owned, Untouched
  <2>4. Handed(i)'
    BY <1>0, <2>1 DEF Sound, Handed, AtHome, AtNative
  <2>5. Called(i)'
    BY <1>0, <2>1 DEF Sound, Called, InTool
  <2>6. Remembered(i)'
    BY <2>1, <2>2 DEF Remembered, Unknown, Knows, KnowsSend, OpenCall, OpenSend
  <2>7. QED
    BY <2>3, <2>4, <2>5, <2>6 DEF Sound
<1>2. CASE Refuse(i)
  <2>1. /\ intents[i].state = "queued" /\ proc[i].pc = "idle" /\ boot' = boot
        /\ intents'[i].state = "blocked" /\ intents'[i].native = intents[i].native
        /\ proc'[i] = proc[i]
        /\ calls'[i] = calls[i] /\ send'[i] = send[i] /\ world'[i] = world[i]
    BY <1>0, <1>2 DEF Refuse, Free, Offered, Runnable, Due, TypeOK, IntentRows
  <2>2. Owned(i)' /\ Untouched(i)'
    BY <1>0, <2>1 DEF Sound, Owned, Untouched, SyncPoints
  <2>3. Handed(i)'
    BY <1>0, <2>1 DEF Sound, Handed, AtHome, AtNative
  <2>4. Called(i)'
    BY <1>0, <2>1 DEF Sound, Called, InTool
  <2>5. Remembered(i)'
    BY <2>1 DEF Remembered
  <2>6. QED
    BY <2>2, <2>3, <2>4, <2>5 DEF Sound
<1>3. CASE Begin(i)
  <2>1. /\ boot = "up" /\ intents[i].state = "claimed" /\ KnowsAll(proc[i].mem, i)
    BY <1>3, Inside DEF Begin
  <2>2. Stored(i) \in Results
    BY <1>0, IntentFields DEF Stored, StoredElsewhere, TypeOK, Results
  <2>3. ASSUME NEW out \in Results, Go(i, [proc[i] EXCEPT !.pc = "save", !.out = out])
        PROVE  Sound(i)'
    <3> DEFINE p == [proc[i] EXCEPT !.pc = "save", !.out = out]
    <3>1. p \in Handlers
      BY <1>0, HandlerOutType DEF SyncPoints
    <3>2. p.pc = "save" /\ p.mem = proc[i].mem /\ Go(i, p)
      BY <1>0, <2>3 DEF Handlers
    <3> HIDE DEF p
    <3>3. QED
      BY <1>3, <2>1, <3>1, <3>2, Move DEF Begin, Plain
  <2>4. ASSUME To(i, "model") PROVE Sound(i)'
    BY <1>3, <2>4, ToMove DEF Begin, Plain
  <2>5. QED
    BY <1>3, <2>2, <2>3, <2>4 DEF Begin, Results
<1>4. CASE BeginRefused(i)
  <2>1. /\ proc[i].pc = "claimed" /\ proc'[i].pc = "ended" /\ boot' = boot /\ boot = "up"
        /\ intents' = intents /\ calls' = calls /\ send' = send /\ world' = world
    BY <1>0, <1>4 DEF BeginRefused, At, To, Go, TypeOK, Handlers
  <2>2. ~Unknown(i) /\ ~Unknown(i)'
    BY <1>0, <2>1 DEF Sound, Remembered, Unknown
  <2>3. Owned(i)' /\ Untouched(i)'
    BY <1>0, <2>1 DEF Sound, Owned, Untouched, SyncPoints, NoOperation
  <2>4. Handed(i)'
    BY <1>0, <2>1 DEF Sound, Handed, AtHome, AtNative
  <2>5. Called(i)'
    BY <1>0, <2>1 DEF Sound, Called, InTool
  <2>6. Remembered(i)'
    BY <1>0, <2>1, <2>2 DEF Sound, Remembered, Unknown
  <2>7. QED
    BY <2>3, <2>4, <2>5, <2>6 DEF Sound
<1>5. QED
  BY <1>1, <1>2, <1>3, <1>4 DEF Pump

\* A receipt changes the state of one call and nothing else.
LEMMA ReceiptOne ==
  ASSUME TypeOK, NEW i \in Intents, NEW status \in OpStates, Receipt(i, status),
         proc[i].seq \in CallNumbers
  PROVE  /\ calls'[i][proc[i].seq].state = status
         /\ calls'[i][proc[i].seq].name = calls[i][proc[i].seq].name
         /\ \A n \in CallNumbers \ {proc[i].seq} : calls'[i][n] = calls[i][n]
<1>1. /\ calls[i] \in [CallNumbers -> CallRows]
      /\ calls'[i] = [calls[i] EXCEPT ![proc[i].seq].state = status]
  BY DEF TypeOK, Receipt
<1>2. QED
  BY <1>1 DEF CallRows

\* A call that just got its receipt: the handler still holds it as pending, so
\* whatever the receipt says is known.
LEMMA AfterReceipt ==
  ASSUME Inv, NEW i \in Intents, NEW status \in {"succeeded", "failed", "blocked", "uncertain"},
         At(i, "tool") \/ At(i, "acting"), Receipt(i, status),
         NEW p \in Handlers, Go(i, p), p.seq = proc[i].seq, p.pc \in {"closed", "ending"},
         KnowsAll(p.mem, i),
         boot' = boot, UNCHANGED <<intents, send, world>>,
         proc[i].seq \in p.mem.pending \/ p.mem.failure = "uncertain" \/ status # "uncertain"
  PROVE  Sound(i)'
<1> DEFINE n == proc[i].seq
<1>1. /\ Sound(i) /\ TypeOK /\ boot = "up" /\ proc[i].pc \in {"tool", "acting"}
      /\ intents[i].state = "claimed"
  BY Inside DEF Inv, At
<1>2. n \in CallNumbers
  BY <1>1 DEF Sound, Called, InTool
<1>3. /\ calls'[i][n].state = status /\ calls'[i][n].name = calls[i][n].name
      /\ \A m \in CallNumbers \ {n} : calls'[i][m] = calls[i][m]
  BY <1>1, <1>2, ReceiptOne DEF OpStates
<1>4. proc'[i] = p /\ turn' = i
  BY <1>1 DEF Go, TypeOK, SyncPoints
<1>5. Owned(i)' /\ Untouched(i)'
  BY <1>1, <1>4 DEF Owned, Untouched
<1>6. Handed(i)'
  BY <1>1, <1>4 DEF Sound, Handed, AtHome, AtNative
<1>7. Called(i)'
  <2>1. \A m \in CallNumbers :
          /\ world'[i].acted[m] <= 1
          /\ world'[i].acted[m] # 0 =>
               calls'[i][m].state # "none" /\ calls'[i][m].name \in External
    BY <1>1, <1>3 DEF Sound, Called
  <2>2. QED
    BY <1>2, <1>3, <1>4, <2>1 DEF Called, InTool
<1>8. Remembered(i)'
  <2>1. \A m \in CallNumbers : Knows(p.mem, i, m)'
    BY <1>3 DEF KnowsAll, Knows, OpenCall
  <2>2. KnowsSend(p.mem, i)'
    BY DEF KnowsAll, KnowsSend, OpenSend
  <2>3. QED
    BY <1>1, <1>4, <2>1, <2>2 DEF Remembered, Knows, KnowsSend
<1>9. QED
  BY <1>5, <1>6, <1>7, <1>8 DEF Sound

\* The model steps of the agent loop keep the request sound.
LEMMA OwnModel ==
  ASSUME Inv, NEW i \in Intents,
         \/ StartModel(i) \/ ModelRefused(i) \/ ReplyText(i) \/ Defer(i)
         \/ \E retryable \in BOOLEAN : ReplyFailed(i, retryable)
  PROVE  Sound(i)'
<1>0. Sound(i) /\ TypeOK /\ intents[i] \in IntentRows /\ proc[i] \in Handlers
  BY DEF Inv, TypeOK
<1>1. CASE StartModel(i)
  BY <1>1, ToMove DEF StartModel, Plain
<1>2. CASE ModelRefused(i)
  BY <1>2, StopMove DEF ModelRefused
<1>3. CASE ReplyText(i)
  <2> DEFINE p == [proc[i] EXCEPT !.pc = "save", !.out = "silent"]
  <2>1. p \in Handlers
    BY <1>0, HandlerOutType DEF SyncPoints, Results
  <2>2. p.pc = "save" /\ p.mem = proc[i].mem /\ Go(i, p)
    BY <1>0, <1>3 DEF Handlers, ReplyText
  <2>3. boot = "up" /\ intents[i].state = "claimed" /\ KnowsAll(proc[i].mem, i)
    BY <1>3, Inside DEF ReplyText
  <2> HIDE DEF p
  <2>4. QED
    BY <1>3, <2>1, <2>2, <2>3, Move DEF ReplyText, Plain
<1>4. CASE Defer(i)
  <2>1. CASE MayRetry(i)
    <3>1. /\ proc'[i].pc = "ended" /\ boot' = boot /\ boot = "up"
          /\ intents'[i].state = "queued" /\ intents'[i].native = intents[i].native
          /\ calls'[i] = calls[i] /\ send'[i] = send[i] /\ world'[i] = world[i]
      BY <1>0, <1>4, <2>1 DEF Defer, At, To, Go, TypeOK, Handlers, IntentRows
    <3>2. ~Unknown(i)'
      BY <2>1, <3>1 DEF MayRetry, NoOperation, Unknown
    <3>3. Owned(i)' /\ Untouched(i)'
      BY <1>0, <3>1 DEF Owned, Untouched, SyncPoints
    <3>4. Handed(i)'
      BY <1>0, <1>4, <2>1, <3>1 DEF MayRetry, Sound, Handed, AtHome, AtNative
    <3>5. Called(i)'
      BY <1>0, <2>1, <3>1 DEF MayRetry, Sound, Called, InTool
    <3>6. Remembered(i)'
      BY <3>1, <3>2 DEF Remembered
    <3>7. QED
      BY <3>3, <3>4, <3>5, <3>6 DEF Sound
  <2>2. CASE ~MayRetry(i)
    BY <1>4, <2>2, StopMove DEF Defer
  <2>3. QED
    BY <2>1, <2>2
<1>5. ASSUME NEW retryable \in BOOLEAN, ReplyFailed(i, retryable) PROVE Sound(i)'
  <2> DEFINE next == IF retryable THEN "defer" ELSE "ending"
             p == [proc[i] EXCEPT !.pc = next, !.mem = Outcome!ModelFailed(@)]
  <2>1. /\ boot = "up" /\ intents[i].state = "claimed" /\ KnowsAll(proc[i].mem, i)
        /\ proc[i].mem \in Outcome!Outcomes
    BY <1>5, Inside DEF ReplyFailed
  <2>2. Outcome!ModelFailed(proc[i].mem) \in Outcome!Outcomes
    BY <2>1, ReplyType
  <2>3. p \in Handlers
    BY <1>0, <2>2, HandlerMemType DEF SyncPoints
  <2>4. p.pc \in Plain /\ p.mem = Outcome!ModelFailed(proc[i].mem) /\ Go(i, p)
    BY <1>0, <1>5 DEF Handlers, ReplyFailed, Plain
  <2>5. KnowsAll(p.mem, i)
    BY <2>1, <2>4, FailKnows
  <2> HIDE DEF p
  <2>6. QED
    BY <1>5, <2>1, <2>3, <2>4, <2>5, Move DEF ReplyFailed
<1>6. QED
  BY <1>1, <1>2, <1>3, <1>4, <1>5

\* Choosing the next tool call keeps the request sound.
LEMMA OwnChoice ==
  ASSUME Inv, NEW i \in Intents,
         ToolRefused(i) \/ \E name \in Tools : CallTool(i, name)
  PROVE  Sound(i)'
<1>0. Sound(i) /\ TypeOK /\ intents[i] \in IntentRows /\ proc[i] \in Handlers
  BY DEF Inv, TypeOK
<1>1. CASE ToolRefused(i)
  BY <1>1, StopMove DEF ToolRefused, Choosing
<1>2. ASSUME NEW name \in Tools, CallTool(i, name) PROVE Sound(i)'
  <2> DEFINE n == proc[i].seq + 1
             q == [proc[i] EXCEPT !.seq = n]
             halted == q.halted \/ ~Replayed(i, n, name)
  <2>1. /\ boot = "up" /\ intents[i].state = "claimed" /\ KnowsAll(proc[i].mem, i)
        /\ proc[i].pc \in {"thinking", "calling"}
    BY <1>2, Inside DEF CallTool, Choosing, At
  <2>2. n \in CallNumbers /\ n \in 0..MaxToolCalls
    <3>1. n \in CallNumbers
      BY <1>2 DEF CallTool
    <3>2. QED
      BY <3>1, ExecutionAssumption DEF CallNumbers
  <2>3. /\ q \in Handlers /\ q.mem = proc[i].mem /\ q.seq = n
        /\ halted \in BOOLEAN
    BY <1>0, <2>2 DEF Handlers
  <2> HIDE DEF q, halted
  <2>4. /\ boot' = boot /\ UNCHANGED <<intents, send, world>>
        /\ \/ /\ Fresh(i, n, name)
              /\ calls' = [calls EXCEPT ![i][n] = [name |-> name, state |-> "started"]]
              /\ Go(i, [q EXCEPT !.pc = "opened"])
           \/ /\ calls' = calls
              /\ \E next \in {"calling", "model"} :
                   \/ Go(i, [q EXCEPT !.pc = next, !.halted = halted])
                   \/ Go(i, [q EXCEPT !.pc = next])
    BY <1>2 DEF CallTool, q, halted
  <2>5. ASSUME NEW p \in Handlers, p.mem = q.mem, p.pc \in {"calling", "model"}, Go(i, p),
               calls' = calls
        PROVE  Sound(i)'
    BY <2>1, <2>3, <2>4, <2>5, Move DEF Plain
  <2>6. \A next \in {"calling", "model"} :
          /\ [q EXCEPT !.pc = next, !.halted = halted] \in Handlers
          /\ [q EXCEPT !.pc = next, !.halted = halted].mem = q.mem
          /\ [q EXCEPT !.pc = next, !.halted = halted].pc = next
          /\ [q EXCEPT !.pc = next] \in Handlers
          /\ [q EXCEPT !.pc = next].mem = q.mem
          /\ [q EXCEPT !.pc = next].pc = next
    BY <2>3 DEF Handlers, AsyncPoints, SyncPoints
  <2>7. ASSUME Fresh(i, n, name), Go(i, [q EXCEPT !.pc = "opened"]),
               calls' = [calls EXCEPT ![i][n] = [name |-> name, state |-> "started"]]
        PROVE  Sound(i)'
    <3>1. /\ proc'[i].pc = "opened" /\ proc'[i].seq = n /\ proc'[i].mem = proc[i].mem
          /\ turn' = i
      BY <1>0, <2>3, <2>7 DEF Go, TypeOK, Handlers, SyncPoints
    <3>2. /\ calls'[i][n] = [name |-> name, state |-> "started"]
          /\ \A m \in CallNumbers \ {n} : calls'[i][m] = calls[i][m]
      BY <1>0, <2>2, <2>7 DEF TypeOK
    <3>3. world[i].acted[n] = 0
      BY <1>0, <2>1, <2>2, <2>7, ExecutionAssumption
      DEF Sound, Called, Fresh, TypeOK, Worlds
    <3>4. Owned(i)' /\ Untouched(i)'
      BY <2>1, <2>4, <3>1 DEF Owned, Untouched
    <3>5. Handed(i)'
      BY <1>0, <2>1, <2>4, <3>1 DEF Sound, Handed, AtHome, AtNative
    <3>6. Called(i)'
      BY <1>0, <2>1, <2>2, <2>4, <3>1, <3>2, <3>3 DEF Sound, Called, InTool
    <3>7. Remembered(i)'
      <4>1. \A m \in CallNumbers \ {n} : Knows(proc[i].mem, i, m)'
        BY <2>1, <3>1, <3>2 DEF KnowsAll, Knows, OpenCall
      <4>2. KnowsSend(proc[i].mem, i)'
        BY <2>1, <2>4, <3>1 DEF KnowsAll, KnowsSend, OpenSend
      <4>3. QED
        BY <2>1, <2>4, <3>1, <4>1, <4>2 DEF Remembered, Knows, KnowsSend
    <3>8. QED
      BY <3>4, <3>5, <3>6, <3>7 DEF Sound
  <2>8. QED
    BY <2>4, <2>5, <2>6, <2>7
<1>3. QED
  BY <1>1, <1>2

\* The steps of one tool call keep the request sound.
LEMMA OwnTool ==
  ASSUME Inv, NEW i \in Intents,
         \/ OpenTool(i) \/ DenyTool(i) \/ RunExternal(i) \/ RunLocal(i)
         \/ Deadline(i) \/ AnswerTool(i) \/ CloseTool(i)
  PROVE  Sound(i)'
<1> DEFINE n == proc[i].seq
           status == calls[i][n].state
<1>0. /\ Sound(i) /\ TypeOK /\ proc[i] \in Handlers /\ runs[i] \in RunRows
      /\ calls[i] \in [CallNumbers -> CallRows] /\ proc[i].mem \in Outcome!Outcomes
  BY HandlerFields DEF Inv, TypeOK
<1>n. proc[i].pc \in InTool => n \in CallNumbers
  BY <1>0 DEF Sound, Called
<1>1. CASE OpenTool(i)
  <2> DEFINE mem == Outcome!ToolStarted(proc[i].mem, n)
  <2>1. /\ boot = "up" /\ boot' = boot /\ UNCHANGED <<intents, calls, send, world>>
        /\ proc[i].pc = "opened" /\ n \in CallNumbers /\ turn' = 0
        /\ Go(i, [proc[i] EXCEPT !.pc = "tool", !.mem = mem])
    BY <1>1, <1>n DEF OpenTool, At, InTool, Go, SyncPoints
  <2>2. proc'[i].pc = "tool" /\ proc'[i].seq = n /\ proc'[i].mem = mem
    BY <1>0, <2>1 DEF Go, TypeOK, Handlers
  <2>3. /\ mem.pending = proc[i].mem.pending \cup {n}
        /\ mem.failure = proc[i].mem.failure /\ mem.responding = proc[i].mem.responding
    BY <1>0 DEF Outcome!ToolStarted, Outcome!Outcomes
  <2> HIDE DEF mem
  <2>4. Owned(i)' /\ Untouched(i)'
    BY <1>0, <2>1, <2>2 DEF Sound, Owned, Untouched, SyncPoints, NoOperation
  <2>5. Handed(i)' /\ Called(i)'
    BY <1>0, <2>1, <2>2 DEF Sound, Handed, AtHome, AtNative, Called, InTool
  <2>6. Remembered(i)'
    BY <1>0, <2>1, <2>2, <2>3
    DEF Sound, Remembered, Knows, KnowsSend, OpenCall, OpenSend, Unknown, Owned
  <2>7. QED
    BY <2>4, <2>5, <2>6 DEF Sound
<1>2. CASE RunExternal(i)
  <2>1. /\ boot = "up" /\ boot' = boot /\ UNCHANGED <<intents, calls, send>>
        /\ proc[i].pc = "tool" /\ n \in CallNumbers /\ calls[i][n].name \in External
        /\ world' = [world EXCEPT ![i].acted[n] = @ + 1] /\ To(i, "acting")
    BY <1>2, <1>n DEF RunExternal, At, InTool
  <2>2. proc'[i].pc = "acting" /\ proc'[i].seq = n /\ proc'[i].mem = proc[i].mem
    BY <1>0, <2>1 DEF Go, To, TypeOK, Handlers
  <2>3. /\ world'[i].sent = world[i].sent /\ world'[i].arrived = world[i].arrived
        /\ world'[i].acted[n] = world[i].acted[n] + 1
        /\ \A m \in CallNumbers \ {n} : world'[i].acted[m] = world[i].acted[m]
    BY <1>0, <2>1 DEF TypeOK, Worlds
  <2>4. Owned(i)' /\ Untouched(i)'
    BY <1>0, <2>1, <2>2 DEF Sound, Owned, Untouched, SyncPoints
  <2>5. Handed(i)'
    BY <1>0, <2>1, <2>2, <2>3 DEF Sound, Handed, AtHome, AtNative
  <2>6. Called(i)'
    <3>1. world[i].acted[n] = 0 /\ status = "started"
      BY <1>0, <2>1 DEF Sound, Called
    <3>2. QED
      BY <1>0, <2>1, <2>2, <2>3, <3>1 DEF Sound, Called, InTool
  <2>7. Remembered(i)'
    BY <1>0, <2>1, <2>2
    DEF Sound, Remembered, Knows, KnowsSend, OpenCall, OpenSend, Unknown, Owned
  <2>8. QED
    BY <2>4, <2>5, <2>6, <2>7 DEF Sound
<1>3. ASSUME DenyTool(i) \/ RunLocal(i) PROVE Sound(i)'
  <2> DEFINE p == [proc[i] EXCEPT !.pc = "closed"]
  <2>1. /\ boot' = boot /\ UNCHANGED <<intents, send, world>> /\ At(i, "tool")
        /\ \E answer \in {"succeeded", "blocked", "failed"} : Receipt(i, answer)
        /\ Go(i, p)
    BY <1>3 DEF DenyTool, RunLocal, To
  <2>2. KnowsAll(proc[i].mem, i)
    BY <2>1, Inside
  <2>3. p \in Handlers /\ p.seq = n /\ p.pc = "closed" /\ p.mem = proc[i].mem
    BY <1>0 DEF Handlers, SyncPoints
  <2> HIDE DEF p
  <2>4. QED
    BY <2>1, <2>2, <2>3, AfterReceipt
<1>4. CASE AnswerTool(i)
  <2>1. /\ boot' = boot /\ UNCHANGED <<intents, send, world>> /\ At(i, "acting")
    BY <1>4 DEF AnswerTool
  <2>2. KnowsAll(proc[i].mem, i) /\ n \in CallNumbers
    BY <1>n, <2>1, Inside DEF At, InTool
  <2>3. n \in proc[i].mem.pending \/ proc[i].mem.failure = "uncertain"
    BY <1>0, <2>1, <2>2 DEF KnowsAll, Knows, OpenCall, Sound, Called, At
  <2>4. ASSUME NEW p \in Handlers, Go(i, p), p.seq = n, p.pc = "closed",
               p.mem = proc[i].mem, NEW answer \in {"succeeded", "uncertain"},
               Receipt(i, answer)
        PROVE  Sound(i)'
    BY <2>1, <2>2, <2>3, <2>4, AfterReceipt
  <2>5. ASSUME NEW recovery \in BOOLEAN
        PROVE  LET p == [proc[i] EXCEPT !.pc = "closed", !.recovery = recovery]
               IN  p \in Handlers /\ p.seq = n /\ p.pc = "closed" /\ p.mem = proc[i].mem
    BY <1>0 DEF Handlers, SyncPoints
  <2>6. LET p == [proc[i] EXCEPT !.pc = "closed"]
        IN  p \in Handlers /\ p.seq = n /\ p.pc = "closed" /\ p.mem = proc[i].mem
    BY <1>0 DEF Handlers, SyncPoints
  <2>7. QED
    BY <1>4, <2>4, <2>5, <2>6 DEF AnswerTool, To
<1>5. CASE Deadline(i)
  <2>1. CASE At(i, "thinking")
    BY <1>5, <2>1, StopMove DEF Deadline, At
  <2>2. CASE At(i, "tool") \/ At(i, "acting")
    <3> DEFINE p == [proc[i] EXCEPT !.pc = "ending", !.mem = Outcome!Fail(@, "failed")]
    <3>1. boot' = boot /\ UNCHANGED <<intents, send, world>> /\ Go(i, p)
      BY <1>5, <2>2 DEF Deadline, At, Stop
    <3>2. KnowsAll(proc[i].mem, i) /\ n \in CallNumbers
      BY <1>n, <2>2, Inside DEF At, InTool
    <3>3. PICK answer \in {"uncertain", "failed"} :
            /\ Receipt(i, answer)
            /\ answer = "uncertain" => calls[i][n].name \in External
      BY <1>5, <2>2 DEF Deadline, Aborted, At
    <3>4. answer = "uncertain" => n \in proc[i].mem.pending \/ proc[i].mem.failure = "uncertain"
      BY <1>0, <2>2, <3>2, <3>3 DEF KnowsAll, Knows, OpenCall, Sound, Called, At
    <3>5. p \in Handlers /\ p.seq = n /\ p.pc = "ending"
          /\ p.mem = Outcome!Fail(proc[i].mem, "failed")
      <4>1. Outcome!Fail(proc[i].mem, "failed") \in Outcome!Outcomes
        BY <1>0, FailType
      <4>2. QED
        BY <1>0, <4>1 DEF Handlers, SyncPoints
    <3> HIDE DEF p
    <3>6. KnowsAll(p.mem, i)
      BY <1>0, <3>2, <3>5, FailKnows
    <3>7. answer = "uncertain" => n \in p.mem.pending \/ p.mem.failure = "uncertain"
      BY <1>0, <3>4, <3>5 DEF Outcome!Fail, Outcome!Outcomes
    <3>8. QED
      BY <2>2, <3>1, <3>3, <3>5, <3>6, <3>7, AfterReceipt
  <2>3. QED
    BY <1>5, <2>1, <2>2 DEF Deadline
<1>6. CASE CloseTool(i)
  <2> DEFINE mem == IF status = "uncertain" THEN Outcome!Fail(proc[i].mem, "uncertain")
                    ELSE proc[i].mem
             seen == Observed(mem, n, status, proc[i].recovery)
             halted == proc[i].halted \/ status \in {"failed", "uncertain"}
             q == [proc[i] EXCEPT !.recovery = FALSE, !.halted = halted, !.mem = seen]
  <2>1. /\ boot = "up" /\ boot' = boot /\ UNCHANGED <<intents, calls, send, world>>
        /\ proc[i].pc = "closed" /\ n \in CallNumbers /\ status \in OpStates
        /\ intents[i].state = "claimed" /\ KnowsAll(proc[i].mem, i)
        /\ status \in {"succeeded", "failed", "blocked", "uncertain"}
    BY <1>0, <1>6, <1>n, Inside DEF CloseTool, At, InTool, CallRows, Sound, Called
  <2>2. mem \in Outcome!Outcomes /\ KnowsAll(mem, i)
        /\ (status = "uncertain" => mem.failure = "uncertain")
    BY <1>0, <2>1, FailType, FailKnows DEF Outcome!Fail, Outcome!Outcomes
  <2> HIDE DEF mem
  <2>3. /\ seen \in Outcome!Outcomes
        /\ seen.responding = mem.responding
        /\ mem.failure = "uncertain" => seen.failure = "uncertain"
        /\ \A m \in CallNumbers \ {n} : m \in mem.pending => m \in seen.pending
    <3>1. Outcome!ToolAnswered(mem, n) \in Outcome!Outcomes
      BY <2>1, <2>2, ToolType
    <3>2. Outcome!Fail(Outcome!ToolAnswered(mem, n), "uncertain") \in Outcome!Outcomes
      BY <3>1, FailType
    <3>3. QED
      BY <2>2, <3>1, <3>2 DEF Observed, Outcome!ToolFailed, Outcome!ToolAnswered,
         Outcome!Fail, Outcome!Outcomes
  <2> HIDE DEF seen
  <2>4. KnowsAll(seen, i)
    BY <2>1, <2>2, <2>3 DEF KnowsAll, Knows, KnowsSend, OpenCall
  <2>5. halted \in BOOLEAN
    OBVIOUS
  <2> HIDE DEF halted
  <2>6. q \in Handlers /\ q.mem = seen
    BY <1>0, <2>3, <2>5 DEF Handlers
  <2>7. \/ Go(i, [q EXCEPT !.pc = "save", !.out = result[i]])
        \/ Go(i, [q EXCEPT !.pc = "calling"]) \/ Go(i, [q EXCEPT !.pc = "model"])
    BY <1>6 DEF CloseTool, q, halted, seen, mem
  <2> HIDE DEF q
  <2>8. ASSUME NEW p \in Handlers, Go(i, p), p.mem = seen,
               p.pc \in {"save", "calling", "model"}
        PROVE  Sound(i)'
    BY <2>1, <2>4, <2>8, Move DEF Plain
  <2>9. /\ [q EXCEPT !.pc = "save", !.out = result[i]] \in Handlers
        /\ [q EXCEPT !.pc = "save", !.out = result[i]].pc = "save"
        /\ [q EXCEPT !.pc = "save", !.out = result[i]].mem = seen
    BY <1>0, <2>6 DEF Handlers, SyncPoints, TypeOK
  <2>10. \A pc \in {"calling", "model"} :
          /\ [q EXCEPT !.pc = pc] \in Handlers
          /\ [q EXCEPT !.pc = pc].pc = pc
          /\ [q EXCEPT !.pc = pc].mem = seen
    BY <2>6 DEF Handlers, SyncPoints, AsyncPoints
  <2>11. QED
    BY <2>7, <2>8, <2>9, <2>10
<1>7. QED
  BY <1>1, <1>2, <1>3, <1>4, <1>5, <1>6

\* Storing the result and deciding on its delivery keep the request sound.
LEMMA OwnResult ==
  ASSUME Inv, NEW i \in Intents, SaveResult(i) \/ Deliver(i) \/ PermitRefused(i) \/ ReportSend(i)
  PROVE  Sound(i)'
<1>0. /\ Sound(i) /\ TypeOK /\ proc[i] \in Handlers /\ runs[i] \in RunRows
      /\ proc[i].mem \in Outcome!Outcomes /\ intents[i].native \in BOOLEAN
  BY HandlerFields, IntentFields DEF Inv, TypeOK
<1>1. CASE SaveResult(i)
  BY <1>1, ToMove DEF SaveResult, Plain
<1>2. CASE PermitRefused(i)
  BY <1>2, StopMove DEF PermitRefused
<1>e. ASSUME NEW mem \in Outcome!Outcomes, KnowsAll(mem, i),
             Go(i, [proc[i] EXCEPT !.pc = "ending", !.mem = mem]),
             proc[i].pc \in {"deliver", "acked"}, At(i, "deliver") \/ At(i, "acked"),
             boot' = boot, UNCHANGED <<intents, calls, send, world>>
      PROVE  Sound(i)'
  <2> DEFINE p == [proc[i] EXCEPT !.pc = "ending", !.mem = mem]
  <2>1. p \in Handlers
    BY <1>0, <1>e, HandlerMemType DEF SyncPoints
  <2>2. p.mem = mem /\ p.pc = "ending"
    BY <1>0 DEF Handlers
  <2>3. boot = "up" /\ intents[i].state = "claimed"
    BY <1>0, <1>e DEF Sound, Owned, At
  <2> HIDE DEF p
  <2>4. Go(i, p)
    BY <1>e DEF p
  <2>5. QED
    BY <1>e, <2>1, <2>2, <2>3, <2>4, Move DEF Plain
<1>s. ASSUME KnowsAll(proc[i].mem, i), ~OpenSend(i)
      PROVE  KnowsAll(Outcome!ResponseSent(proc[i].mem, intents[i].native, {}), i)
  BY <1>0, <1>s DEF KnowsAll, Knows, KnowsSend, Outcome!ResponseSent, Outcome!Outcomes
<1>3. CASE Deliver(i)
  <2>1. /\ boot' = boot /\ UNCHANGED <<intents, calls, send, world>>
        /\ At(i, "deliver") /\ proc[i].pc = "deliver"
    BY <1>3 DEF Deliver, At
  <2>2. KnowsAll(proc[i].mem, i)
    BY <2>1, Inside
  <2>3. ASSUME NEW status \in {"failed", "uncertain"}, Stop(i, status) PROVE Sound(i)'
    BY <2>1, <2>3, StopMove
  <2>4. ASSUME Go(i, [proc[i] EXCEPT !.pc = "ending", !.mem = Outcome!Completed(@)])
        PROVE  Sound(i)'
    <3>1. /\ Outcome!Completed(proc[i].mem) \in Outcome!Outcomes
          /\ KnowsAll(Outcome!Completed(proc[i].mem), i)
      BY <1>0, <2>2, ReplyType, FailKnows
    <3>2. QED
      BY <1>e, <2>1, <2>4, <3>1
  <2>5. ASSUME send[i] = "succeeded",
               Go(i, [proc[i] EXCEPT !.pc = "ending",
                        !.mem = Outcome!ResponseSent(@, intents[i].native, {})])
        PROVE  Sound(i)'
    <3>1. Outcome!ResponseSent(proc[i].mem, intents[i].native, {}) \in Outcome!Outcomes
      BY <1>0, ReplyType
    <3>2. KnowsAll(Outcome!ResponseSent(proc[i].mem, intents[i].native, {}), i)
      BY <1>s, <2>2, <2>5 DEF OpenSend
    <3>3. QED
      BY <1>e, <2>1, <2>5, <3>1, <3>2
  <2>6. ASSUME To(i, IF intents[i].native THEN "native" ELSE "permit"), Sendable(i)
        PROVE  Sound(i)'
    <3> DEFINE next == IF intents[i].native THEN "native" ELSE "permit"
    <3>1. /\ proc'[i].pc = next /\ proc'[i].mem = proc[i].mem /\ proc'[i].seq = proc[i].seq
          /\ turn' = (IF next \in SyncPoints THEN i ELSE 0) /\ boot = "up"
          /\ intents[i].state = "claimed"
      BY <1>0, <2>1, <2>6 DEF To, Go, TypeOK, Handlers, Sound, Owned, At
    <3>2. Owned(i)' /\ Untouched(i)'
      BY <2>1, <3>1 DEF Owned, Untouched
    <3>3. Handed(i)'
      BY <1>0, <2>1, <2>6, <3>1 DEF Sound, Handed, AtHome, AtNative, Sendable
    <3>4. Called(i)'
      BY <1>0, <2>1, <3>1 DEF Sound, Called, InTool
    <3>5. Remembered(i)'
      BY <2>1, <2>2, <3>1
      DEF Remembered, KnowsAll, Knows, KnowsSend, OpenCall, OpenSend
    <3>6. QED
      BY <3>2, <3>3, <3>4, <3>5 DEF Sound
  <2>7. QED
    BY <1>3, <2>3, <2>4, <2>5, <2>6 DEF Deliver
<1>4. CASE ReportSend(i)
  <2> DEFINE mem == SendObserved(proc[i].mem, send[i], intents[i].native)
  <2>1. /\ boot' = boot /\ UNCHANGED <<intents, calls, send, world>>
        /\ At(i, "acked") /\ proc[i].pc = "acked"
        /\ Go(i, [proc[i] EXCEPT !.pc = "ending", !.mem = mem])
        /\ send[i] \in {"succeeded", "failed", "uncertain"}
    BY <1>0, <1>4 DEF ReportSend, At, Sound, Handed
  <2>2. KnowsAll(proc[i].mem, i)
    BY <2>1, Inside
  <2>3. mem \in Outcome!Outcomes
    BY <1>0, <2>1, SendObservedType DEF OpStates
  <2>4. KnowsAll(mem, i)
    <3>1. CASE send[i] = "succeeded"
      BY <1>s, <2>2, <3>1 DEF SendObserved, OpenSend
    <3>2. CASE send[i] = "uncertain"
      BY <1>0, <2>2, <3>2, FailKnows DEF SendObserved, Outcome!ResponseUncertain
    <3>3. CASE send[i] = "failed"
      <4> DEFINE quiet == [proc[i].mem EXCEPT !.responding = FALSE]
      <4>1. quiet \in Outcome!Outcomes /\ KnowsAll(quiet, i)
        BY <1>0, <2>2, <3>3
        DEF KnowsAll, Knows, KnowsSend, OpenSend, Outcome!Outcomes
      <4>2. mem = Outcome!Fail(quiet, "failed")
        BY <3>3 DEF SendObserved, Outcome!ResponseFailed
      <4> HIDE DEF quiet
      <4>3. QED
        BY <4>1, <4>2, FailKnows
    <3>4. QED
      BY <2>1, <3>1, <3>2, <3>3
  <2> HIDE DEF mem
  <2>5. QED
    BY <1>e, <2>1, <2>3, <2>4
<1>5. QED
  BY <1>1, <1>2, <1>3, <1>4

\* The steps of a delivery keep the request sound.
LEMMA OwnSend ==
  ASSUME Inv, NEW i \in Intents,
         \/ StartSend(i) \/ HandOut(i)
         \/ \E status \in {"succeeded", "failed", "uncertain"} : AnswerSend(i, status)
         \/ AppendNative(i) \/ OpenNative(i) \/ StampNative(i)
  PROVE  Sound(i)'
<1>0. /\ Sound(i) /\ TypeOK /\ proc[i] \in Handlers /\ world[i] \in Worlds
      /\ proc[i].mem \in Outcome!Outcomes /\ intents[i].native \in BOOLEAN
  BY HandlerFields, IntentFields DEF Inv, TypeOK
<1>1. CASE StartSend(i)
  <2>1. /\ boot = "up" /\ boot' = boot /\ UNCHANGED <<intents, calls, world>>
        /\ proc[i].pc = "permit" /\ intents[i].state = "claimed"
        /\ send'[i] = "started" /\ To(i, "handing") /\ KnowsAll(proc[i].mem, i)
    BY <1>0, <1>1, Inside DEF StartSend, At, TypeOK
  <2>2. /\ proc'[i].pc = "handing" /\ proc'[i].mem = proc[i].mem /\ turn' = i
    BY <1>0, <2>1 DEF To, Go, TypeOK, Handlers, SyncPoints
  <2>3. Owned(i)' /\ Untouched(i)'
    BY <2>1, <2>2 DEF Owned, Untouched
  <2>4. Handed(i)' /\ Called(i)'
    BY <1>0, <2>1, <2>2 DEF Sound, Handed, AtHome, AtNative, Called, InTool
  <2>5. Remembered(i)'
    BY <2>1, <2>2 DEF Remembered, KnowsAll, Knows, OpenCall
  <2>6. QED
    BY <2>3, <2>4, <2>5 DEF Sound
<1>2. CASE HandOut(i)
  <2> DEFINE mem == Outcome!ResponseSending(proc[i].mem)
  <2>1. /\ boot = "up" /\ boot' = boot /\ UNCHANGED <<intents, calls, send>>
        /\ proc[i].pc = "handing" /\ intents[i].state = "claimed"
        /\ Go(i, [proc[i] EXCEPT !.pc = "sending", !.mem = mem])
    BY <1>0, <1>2 DEF HandOut, At, Sound, Owned
  <2>2. proc'[i].pc = "sending" /\ proc'[i].mem = mem /\ turn' = 0
    BY <1>0, <2>1 DEF Go, TypeOK, Handlers, SyncPoints
  <2>3. mem.responding /\ mem.pending = proc[i].mem.pending
        /\ mem.failure = proc[i].mem.failure
    BY <1>0 DEF Outcome!ResponseSending, Outcome!Outcomes
  <2> HIDE DEF mem
  <2>4. world'[i].sent = world[i].sent + 1 /\ world'[i].acted = world[i].acted
    <3>1. PICK arrives \in BOOLEAN :
            world' = [world EXCEPT ![i].sent = @ + 1, ![i].arrived = @ \/ arrives]
      BY <1>2 DEF HandOut
    <3> DEFINE arrived == world[i].arrived \/ arrives
    <3>2. world'[i] = [world[i] EXCEPT !.sent = @ + 1, !.arrived = arrived]
      BY <1>0, <3>1 DEF TypeOK
    <3> HIDE DEF arrived
    <3>3. QED
      BY <1>0, <3>2 DEF Worlds
  <2>5. Owned(i)' /\ Untouched(i)'
    BY <2>1, <2>2 DEF Owned, Untouched, SyncPoints
  <2>6. Handed(i)' /\ Called(i)'
    BY <1>0, <2>1, <2>2, <2>4 DEF Sound, Handed, AtHome, AtNative, Called, InTool
  <2>7. Remembered(i)'
    BY <1>0, <2>1, <2>2, <2>3 DEF Sound, Remembered, Knows, KnowsSend, OpenCall
  <2>8. QED
    BY <2>5, <2>6, <2>7 DEF Sound
<1>3. ASSUME NEW status \in {"succeeded", "failed", "uncertain"}, AnswerSend(i, status)
      PROVE  Sound(i)'
  <2>1. /\ boot = "up" /\ boot' = boot /\ UNCHANGED <<intents, calls, world>>
        /\ proc[i].pc = "sending" /\ intents[i].state = "claimed"
        /\ send[i] = "started" /\ ~intents[i].native
        /\ send'[i] = status /\ To(i, "acked") /\ KnowsAll(proc[i].mem, i)
    BY <1>0, <1>3, Inside DEF AnswerSend, At, TypeOK, Sound, Handed, AtHome
  <2>2. /\ proc'[i].pc = "acked" /\ proc'[i].mem = proc[i].mem /\ turn' = i
    BY <1>0, <2>1 DEF To, Go, TypeOK, Handlers, SyncPoints
  <2>3. Owned(i)' /\ Untouched(i)'
    BY <2>1, <2>2 DEF Owned, Untouched
  <2>4. Handed(i)' /\ Called(i)'
    BY <1>0, <2>1, <2>2 DEF Sound, Handed, AtHome, AtNative, Called, InTool
  <2>5. Remembered(i)'
    BY <2>1, <2>2 DEF Remembered, KnowsAll, Knows, KnowsSend, OpenCall, OpenSend
  <2>6. QED
    BY <2>3, <2>4, <2>5 DEF Sound
<1>4. CASE AppendNative(i)
  <2>1. /\ boot = "up" /\ boot' = boot /\ UNCHANGED <<intents, calls, send>>
        /\ At(i, "native") /\ proc[i].pc = "native" /\ intents[i].state = "claimed"
        /\ intents[i].native /\ KnowsAll(proc[i].mem, i)
    BY <1>0, <1>4, Inside DEF AppendNative, At, Sound, Handed, AtNative
  <2>2. CASE Stop(i, "failed") /\ UNCHANGED world
    BY <2>1, <2>2, StopMove
  <2>3. CASE To(i, "opening") /\ world' = [world EXCEPT ![i] = Line(world[i])]
    <3>1. /\ proc'[i].pc = "opening" /\ proc'[i].mem = proc[i].mem /\ turn' = 0
      BY <1>0, <2>3 DEF To, Go, TypeOK, Handlers, SyncPoints
    <3>2. /\ world'[i].arrived /\ world'[i].acted = world[i].acted
          /\ world'[i].sent = IF world[i].arrived THEN world[i].sent ELSE world[i].sent + 1
      BY <1>0, <2>3 DEF TypeOK, Worlds, Line
    <3>3. world'[i].sent <= 1
      BY <1>0, <2>1, <3>2 DEF Sound, Handed, Worlds
    <3>4. Owned(i)' /\ Untouched(i)'
      BY <2>1, <3>1 DEF Owned, Untouched, SyncPoints
    <3>5. Handed(i)' /\ Called(i)'
      BY <1>0, <2>1, <3>1, <3>2, <3>3 DEF Sound, Handed, AtHome, AtNative, Called, InTool
    <3>6. Remembered(i)'
      BY <2>1, <3>1 DEF Remembered, KnowsAll, Knows, KnowsSend, OpenCall, OpenSend
    <3>7. QED
      BY <3>4, <3>5, <3>6 DEF Sound
  <2>4. QED
    BY <1>4, <2>2, <2>3 DEF AppendNative
<1>5. ASSUME NEW pc \in {"opening", "stamping"}, NEW next \in {"stamping", "acked"},
             NEW status \in {"started", "succeeded"},
             At(i, pc), To(i, next), send' = [send EXCEPT ![i] = status],
             status = "succeeded" \/ next = "stamping",
             boot' = boot, UNCHANGED <<intents, calls, world>>
      PROVE  Sound(i)'
  <2>1. /\ boot = "up" /\ boot' = boot /\ UNCHANGED <<intents, calls, world>>
        /\ proc[i].pc = pc /\ intents[i].state = "claimed"
        /\ intents[i].native /\ KnowsAll(proc[i].mem, i) /\ send'[i] = status
    BY <1>0, <1>5, Inside DEF At, Sound, Handed, AtNative, TypeOK
  <2>2. /\ proc'[i].pc = next /\ proc'[i].mem = proc[i].mem /\ turn' = i
    BY <1>0, <1>5 DEF To, Go, TypeOK, Handlers, SyncPoints
  <2>3. Owned(i)' /\ Untouched(i)'
    BY <2>1, <2>2 DEF Owned, Untouched
  <2>4. Handed(i)' /\ Called(i)'
    BY <1>0, <1>5, <2>1, <2>2 DEF Sound, Handed, AtHome, AtNative, Called, InTool
  <2>5. Remembered(i)'
    BY <2>1, <2>2 DEF Remembered, KnowsAll, Knows, KnowsSend, OpenCall, OpenSend
  <2>6. QED
    BY <2>3, <2>4, <2>5 DEF Sound
<1>6. CASE OpenNative(i) \/ StampNative(i)
  BY <1>5, <1>6 DEF OpenNative, StampNative
<1>7. QED
  BY <1>1, <1>2, <1>3, <1>4, <1>6

\* The end of an attempt keeps the request sound: the verdict covers what is unknown.
LEMMA OwnEnd ==
  ASSUME Inv, NEW i \in Intents, EndRun(i) \/ Finish(i)
  PROVE  Sound(i)'
<1>0. /\ Sound(i) /\ TypeOK /\ proc[i] \in Handlers /\ runs[i] \in RunRows
      /\ intents[i] \in IntentRows /\ proc[i].mem \in Outcome!Outcomes
  BY HandlerFields DEF Inv, TypeOK
<1>1. CASE EndRun(i)
  <2>1. /\ boot = "up" /\ boot' = boot /\ UNCHANGED <<intents, calls, send, world>>
        /\ intents[i].state = "claimed" /\ KnowsAll(proc[i].mem, i)
        /\ runs'[i].status = Outcome!Verdict(proc[i].mem) /\ proc'[i].pc = "ended"
    BY <1>0, <1>1, Inside DEF EndRun, To, Go, TypeOK, Handlers, RunRows
  <2>2. Unknown(i) => Outcome!Verdict(proc[i].mem) = "uncertain"
    <3>1. ASSUME Unknown(i) PROVE Outcome!Unanswered(proc[i].mem)
                                   \/ proc[i].mem.failure = "uncertain"
      BY <2>1, <3>1 DEF Unknown, KnowsAll, Knows, KnowsSend, OpenCall, OpenSend,
         Outcome!Unanswered
    <3>2. QED
      BY <3>1 DEF Outcome!Verdict
  <2>3. Owned(i)' /\ Untouched(i)'
    BY <2>1 DEF Owned, Untouched, SyncPoints
  <2>4. Handed(i)' /\ Called(i)'
    BY <1>0, <2>1 DEF Sound, Handed, AtHome, AtNative, Called, InTool
  <2>5. Remembered(i)'
    BY <2>1, <2>2 DEF Remembered, Unknown
  <2>6. QED
    BY <2>3, <2>4, <2>5 DEF Sound
<1>2. CASE Finish(i)
  <2>1. /\ boot = "up" /\ boot' = boot /\ UNCHANGED <<calls, send, world>>
        /\ proc[i].pc = "ended" /\ proc'[i].pc = "idle"
        /\ intents'[i].native = intents[i].native
        /\ intents'[i].state = IF intents[i].state = "claimed"
                               THEN StateAfter(runs[i].status) ELSE intents[i].state
    BY <1>0, <1>2 DEF Finish, At, Go, TypeOK, Handlers, IdleProc, IntentRows
  <2>2. /\ Unknown(i) => StateAfter(runs[i].status) = "blocked"
        /\ StateAfter(runs[i].status) \in {"done", "blocked", "queued"}
    <3>1. runs[i].status \in Statuses
      BY <1>0, RunFields
    <3>2. QED
      BY <1>0, <2>1, <3>1
      DEF Sound, Remembered, StateAfter, Statuses, Outcome!Verdicts
  <2>3. Owned(i)' /\ Untouched(i)'
    BY <1>0, <2>1, <2>2 DEF Sound, Owned, Untouched, SyncPoints, NoOperation
  <2>4. Handed(i)' /\ Called(i)'
    BY <1>0, <2>1, <2>2 DEF Sound, Handed, AtHome, AtNative, Called, InTool
  <2>5. Remembered(i)'
    BY <1>0, <2>1, <2>2 DEF Sound, Remembered, Unknown
  <2>6. QED
    BY <2>3, <2>4, <2>5 DEF Sound
<1>3. QED
  BY <1>1, <1>2

----------------------------------------------------------------------------
(* Steps of the host, of time and of the recovery.                         *)

\* The invariant holds in an empty database.
LEMMA Initially ==
  ASSUME Init
  PROVE  Inv
<1>1. TypeOK
  BY TypeInit
<1>2. ASSUME NEW i \in Intents PROVE Sound(i)
  <2>1. /\ proc[i].pc = "idle" /\ intents[i].state = "absent" /\ ~intents[i].native
        /\ world[i] = NewWorld /\ send[i] = "none" /\ boot = "up"
        /\ \A n \in CallNumbers : calls[i][n].state = "none"
    BY DEF Init, IdleProc, NewIntent, NoCalls
  <2>2. Owned(i) /\ Untouched(i)
    BY <2>1 DEF Owned, Untouched, NoOperation, SyncPoints
  <2>3. Handed(i) /\ Called(i)
    BY <2>1 DEF Handed, Called, NewWorld, AtHome, AtNative, InTool
  <2>4. Remembered(i)
    BY <2>1 DEF Remembered
  <2>5. QED
    BY <2>2, <2>3, <2>4 DEF Sound
<1>3. QED
  BY <1>1, <1>2 DEF Inv

\* Rows that are refused, blocked or collected while no handler needs them.
LEMMA Closed ==
  ASSUME NEW i \in Intents, Sound(i), proc' = proc, turn' = turn, boot' = boot,
         world' = world, intents'[i].native = intents[i].native,
         \/ /\ intents[i].state = "queued" /\ intents'[i].state = "blocked"
            /\ calls'[i] = calls[i] /\ send'[i] = send[i]
         \/ /\ intents[i].state \in {"done", "blocked"} /\ intents'[i].state = "collected"
            /\ calls'[i] = NoCalls /\ send'[i] = "none",
         runs'[i].status = runs[i].status
  PROVE  Sound(i)'
<1>1. proc[i].pc \in {"idle", "ended"}
  BY DEF Sound, Owned
<1>2. intents'[i].state = "collected" => NoOperation(i)' /\ ~Unknown(i)'
  BY DEF NoOperation, Unknown, NoCalls
<1>3. intents'[i].state = "blocked" => Unknown(i)' = Unknown(i)
  BY DEF Unknown
<1>4. Owned(i)' /\ Untouched(i)'
  BY <1>1, <1>2 DEF Sound, Owned, Untouched, SyncPoints
<1>5. Handed(i)' /\ Called(i)'
  BY <1>1 DEF Sound, Handed, AtHome, AtNative, Called, InTool
<1>6. Remembered(i)'
  BY <1>1, <1>2, <1>3 DEF Sound, Remembered
<1>7. QED
  BY <1>4, <1>5, <1>6 DEF Sound

\* Accepting a request keeps every request sound.
LEMMA SoundAccept ==
  ASSUME Inv, NEW g \in Grants, NEW t \in Tasks \cup {None}, NEW k \in Keys,
         NEW kind \in {"agent", "reminder"}, NEW native \in BOOLEAN,
         NEW origin \in {0} \cup Intents, Accept(g, t, k, kind, native, origin),
         NEW j \in Intents
  PROVE  Sound(j)'
<1>0. Sound(j) /\ TypeOK
  BY DEF Inv
<1>1. PICK i \in Intents : Accept(g, t, k, kind, native, origin)!(i)
  BY DEF Accept
<1>2. /\ boot' = boot /\ turn' = turn /\ proc' = proc /\ calls' = calls /\ send' = send
      /\ world' = world /\ intents[i].state = "absent"
  BY <1>1
<1>3. CASE j # i
  <2>1. intents'[j] = intents[j] /\ runs'[j] = runs[j]
    BY <1>0, <1>1, <1>3 DEF TypeOK
  <2>2. QED
    BY <1>0, <1>2, <2>1, Frame
<1>4. CASE j = i
  <2>1. intents'[i].state = "queued" /\ intents'[i].native = native
    BY <1>0, <1>1 DEF TypeOK
  <2>2. /\ proc[i].pc = "idle" /\ world[i] = NewWorld /\ NoOperation(i)
    BY <1>0, <1>2, <1>4 DEF Sound, Untouched
  <2>3. ~Unknown(i)'
    BY <1>2, <2>2 DEF Unknown, NoOperation
  <2>4. Owned(i)' /\ Untouched(i)'
    BY <1>0, <1>2, <1>4, <2>1, <2>2 DEF Sound, Owned, Untouched
  <2>5. Handed(i)' /\ Called(i)'
    BY <1>2, <2>1, <2>2 DEF Handed, AtHome, AtNative, Called, InTool, NewWorld
  <2>6. Remembered(i)'
    BY <1>2, <2>2, <2>3 DEF Remembered
  <2>7. QED
    BY <1>4, <2>4, <2>5, <2>6 DEF Sound
<1>5. QED
  BY <1>3, <1>4

\* The operations of the host keep every request sound.
LEMMA SoundHost ==
  ASSUME Inv, Host, NEW j \in Intents
  PROVE  Sound(j)'
<1>0. Sound(j) /\ TypeOK
  BY DEF Inv
<1>1. ASSUME NEW g \in Grants, IssueGrant(g) PROVE Sound(j)'
  BY <1>0, <1>1, Frame DEF IssueGrant
<1>2. ASSUME NEW g \in Grants, RevokeGrant(g) PROVE Sound(j)'
  <2>1. CASE intents'[j] = intents[j]
    BY <1>0, <1>2, <2>1, Frame DEF RevokeGrant
  <2>2. CASE /\ intents[j].state = "queued"
             /\ intents'[j] = [intents[j] EXCEPT !.state = "blocked"]
    <3>1. intents'[j].state = "blocked" /\ intents'[j].native = intents[j].native
      BY <1>0, <2>2 DEF TypeOK, IntentRows
    <3>2. QED
      BY <1>0, <1>2, <2>2, <3>1, Closed DEF RevokeGrant
  <2>3. QED
    BY <1>2, <2>1, <2>2 DEF RevokeGrant
<1>3. ASSUME NEW t \in Tasks, NEW status \in {"open", "paused", "cancelled"},
             ControlTask(t, status)
      PROVE  Sound(j)'
  BY <1>0, <1>3, Frame DEF ControlTask
<1>4. ASSUME NEW i \in Intents, Supersede(i) PROVE Sound(j)'
  <2>1. intents'[j].state = intents[j].state /\ intents'[j].native = intents[j].native
    BY <1>0, <1>4 DEF Supersede, TypeOK, IntentRows
  <2>2. QED
    BY <1>0, <1>4, <2>1, Frame DEF Supersede
<1>5. CASE Submit
  BY <1>5, SoundAccept, ExecutionAssumption DEF Submit
<1>6. ASSUME NEW o \in Intents, NEW k \in Keys, RetryDelivery(o, k) PROVE Sound(j)'
  <2>1. /\ intents[o].grant \in Grants /\ intents[o].kind \in {"agent", "reminder"}
        /\ intents[o].native \in BOOLEAN
    BY <1>0, IntentFields DEF TypeOK
  <2>2. Accept(intents[o].grant, None, k, intents[o].kind, intents[o].native, o)
    BY <1>6 DEF RetryDelivery
  <2>3. QED
    BY <2>1, <2>2, SoundAccept
<1>7. CASE Collect
  <2>1. CASE Collectable(j)
    <3>1. /\ intents[j].state \in {"done", "blocked"} /\ intents'[j].state = "collected"
          /\ intents'[j].native = intents[j].native
          /\ calls'[j] = NoCalls /\ send'[j] = "none"
      BY <1>0, <1>7, <2>1 DEF Collect, Collectable, TypeOK, IntentRows
    <3>2. QED
      BY <1>0, <1>7, <3>1, Closed DEF Collect
  <2>2. CASE ~Collectable(j)
    BY <1>0, <1>7, <2>2, Frame DEF Collect
  <2>3. QED
    BY <2>1, <2>2
<1>8. QED
  BY <1>1, <1>2, <1>3, <1>4, <1>5, <1>6, <1>7 DEF Host

\* Time, a crash and the three passes of a restart keep every request sound.
LEMMA SoundRestart ==
  ASSUME Inv, Tick \/ Crash \/ Restart, NEW j \in Intents
  PROVE  Sound(j)'
<1>0. Sound(j) /\ TypeOK
  BY DEF Inv
<1>1. CASE Tick
  <2>1. intents'[j].state = intents[j].state /\ intents'[j].native = intents[j].native
    <3> DEFINE wait == Less(intents[j].wait)
               age == Older(intents[j].age)
    <3>1. \/ intents'[j] = intents[j]
          \/ intents'[j] = [intents[j] EXCEPT !.wait = wait, !.age = age]
      BY <1>1 DEF Tick
    <3> HIDE DEF wait, age
    <3>2. QED
      BY <1>0, <3>1 DEF TypeOK, IntentRows
  <2>2. QED
    BY <1>0, <1>1, <2>1, Frame DEF Tick
<1>2. CASE Crash
  <2>1. /\ proc'[j].pc = "idle" /\ UNCHANGED <<intents, runs, calls, send, world>>
    BY <1>2 DEF Crash, db, IdleProc
  <2>2. Owned(j)' /\ Untouched(j)'
    BY <1>0, <2>1 DEF Sound, Owned, Untouched, SyncPoints, NoOperation
  <2>3. Handed(j)' /\ Called(j)'
    BY <1>0, <2>1 DEF Sound, Handed, AtHome, AtNative, Called, InTool
  <2>4. Remembered(j)'
    BY <1>0, <2>1 DEF Sound, Remembered, Unknown
  <2>5. QED
    BY <2>2, <2>3, <2>4 DEF Sound
<1>3. ASSUME boot # "up", proc' = proc,
             UNCHANGED <<calls, send, world>>, intents'[j].native = intents[j].native,
             intents'[j].state = intents[j].state
               \/ /\ intents[j].state \in {"queued", "claimed"}
                  /\ intents'[j].state = RecoveredState(j)
      PROVE  Sound(j)'
  <2>1. proc[j].pc = "idle" /\ Unknown(j)' = Unknown(j) /\ NoOperation(j)' = NoOperation(j)
    BY <1>0, <1>3 DEF Sound, Owned, Unknown, NoOperation
  <2>2. /\ RecoveredState(j) \in {"blocked", "done", "queued"}
        /\ Unknown(j) => RecoveredState(j) = "blocked"
    BY DEF RecoveredState
  <2>3. Owned(j)' /\ Untouched(j)'
    BY <1>0, <1>3, <2>1, <2>2 DEF Sound, Owned, Untouched, SyncPoints
  <2>4. Handed(j)' /\ Called(j)'
    BY <1>0, <1>3, <2>1, <2>2 DEF Sound, Handed, AtHome, AtNative, Called, InTool
  <2>5. Remembered(j)'
    BY <1>0, <1>3, <2>1, <2>2 DEF Sound, Remembered
  <2>6. QED
    BY <2>3, <2>4, <2>5 DEF Sound
<1>4. CASE Reconcile \/ RecoverRuns
  BY <1>3, <1>4 DEF Reconcile, RecoverRuns
<1>5. CASE RecoverIntents
  <2>1. intents'[j].native = intents[j].native
        /\ \/ intents'[j].state = intents[j].state
           \/ /\ intents[j].state \in {"queued", "claimed"}
              /\ intents'[j].state = RecoveredState(j)
    BY <1>0, <1>5 DEF RecoverIntents, TypeOK, IntentRows, Pending, Rows
  <2>2. QED
    BY <1>3, <1>5, <2>1 DEF RecoverIntents
<1>6. QED
  BY <1>1, <1>2, <1>4, <1>5 DEF Restart

\* The invariant is inductive.
LEMMA InvStep ==
  ASSUME Inv, [Next]_vars
  PROVE  Inv'
<1>1. TypeOK'
  BY TypeStep
<1>2. ASSUME NEW j \in Intents PROVE Sound(j)'
  <2>1. CASE UNCHANGED vars
    BY <2>1, Frame DEF Inv, vars, db
  <2>2. CASE Host
    BY <2>2, SoundHost
  <2>3. CASE Tick \/ Crash \/ Restart
    BY <2>3, SoundRestart
  <2>4. ASSUME NEW i \in Intents, Pump(i) \/ RunStep(i) PROVE Sound(j)'
    <3>1. CASE j # i
      BY <2>4, <3>1, Others
    <3>2. CASE j = i
      BY <2>4, <3>2, OwnPump, OwnModel, OwnChoice, OwnTool, OwnResult, OwnSend, OwnEnd
      DEF RunStep, AgentStep, DeliveryStep
    <3>3. QED
      BY <3>1, <3>2
  <2>5. QED
    BY <2>1, <2>2, <2>3, <2>4 DEF Next
<1>3. QED
  BY <1>1, <1>2 DEF Inv

\* The inductive invariant holds in every behaviour: at every point of a handler
\* the operation rows tell what happened outside, and the handler knows what is
\* unknown (delivery.ts:62, runtime-core.ts:1328, store.ts:703).
THEOREM Invariance == Spec => []Inv
BY Initially, InvStep, PTL DEF Spec

\* Every table and every handler holds values of its type, in every behaviour
\* of the queue (the tables of execution/store.ts, the handlers of the coordinator).
THEOREM TypeCorrect == Spec => []TypeOK
<1>1. Inv => TypeOK
  BY DEF Inv
<1>2. QED
  BY <1>1, Invariance, PTL

\* No result is ever handed to its channel twice (delivery.ts:62): the operation
\* row, written before the channel is called, tells every later attempt.
THEOREM SentOnceHolds == Spec => []SentOnce
<1>1. Inv => SentOnce
  BY DEF Inv, Sound, Handed, SentOnce
<1>2. QED
  BY <1>1, Invariance, PTL

----------------------------------------------------------------------------
(* One advancer for a task.                                                *)

\* Only claim() makes an intent claimed, and no step moves it to another task.
LEMMA HandlerClaims ==
  ASSUME Inv, NEW i \in Intents, RunStep(i) \/ Refuse(i)
  PROVE  intents' = intents \/ intents'[i].state # "claimed"
<1>0. TypeOK /\ intents[i] \in IntentRows /\ runs[i] \in RunRows
  BY DEF Inv, TypeOK
<1>1. CASE Begin(i) \/ BeginRefused(i)
  BY <1>1 DEF Begin, BeginRefused
<1>2. CASE AgentStep(i)
  <2>1. CASE Defer(i)
    BY <1>0, <2>1 DEF Defer, TypeOK, IntentRows
  <2>2. CASE ~Defer(i)
    BY <1>2, <2>2 DEF AgentStep, StartModel, ModelRefused, ReplyText, Deadline, ReplyFailed,
       ToolRefused, CallTool, OpenTool, DenyTool, RunExternal, RunLocal, AnswerTool, CloseTool
  <2>3. QED
    BY <2>1, <2>2
<1>3. CASE DeliveryStep(i) \/ EndRun(i)
  BY <1>3 DEF DeliveryStep, SaveResult, Deliver, PermitRefused, StartSend, HandOut,
     AnswerSend, AppendNative, OpenNative, StampNative, ReportSend, EndRun
<1>4. CASE Finish(i)
  <2>1. StateAfter(runs[i].status) # "claimed"
    BY <1>0, RunFields DEF StateAfter, Statuses, Outcome!Verdicts
  <2>2. QED
    BY <1>0, <1>4, <2>1 DEF Finish, TypeOK, IntentRows
<1>5. CASE Refuse(i)
  BY <1>0, <1>5 DEF Refuse, TypeOK, IntentRows
<1>6. QED
  BY <1>1, <1>2, <1>3, <1>4, <1>5 DEF RunStep

\* Whatever is claimed after a step was claimed before, or this step claims it.
LEMMA OnlyClaims ==
  ASSUME Inv, [Next]_vars, NEW j \in Intents, intents'[j].state = "claimed"
  PROVE  /\ intents'[j].task = intents[j].task
         /\ intents[j].state = "claimed" \/ Claim(j)
<1>0. TypeOK /\ intents[j] \in IntentRows
  BY DEF Inv, TypeOK
<1>1. CASE UNCHANGED vars
  BY <1>1 DEF vars, db
<1>2. CASE Host
  <2>1. ASSUME NEW g, NEW t, NEW k, NEW kind, NEW native, NEW origin,
               Accept(g, t, k, kind, native, origin)
        PROVE  intents'[j] = intents[j]
    BY <1>0, <2>1 DEF Accept, TypeOK
  <2>2. CASE Submit \/ \E o \in Intents, k \in Keys : RetryDelivery(o, k)
    BY <2>1, <2>2 DEF Submit, RetryDelivery
  <2>3. CASE Collect \/ \E g \in Grants : RevokeGrant(g)
    BY <1>0, <2>3 DEF Collect, RevokeGrant, TypeOK, IntentRows
  <2>4. CASE \E i \in Intents : Supersede(i)
    BY <1>0, <2>4 DEF Supersede, TypeOK, IntentRows
  <2>5. CASE \/ \E g \in Grants : IssueGrant(g)
             \/ \E t \in Tasks, status \in {"open", "paused", "cancelled"} :
                  ControlTask(t, status)
    BY <2>5 DEF IssueGrant, ControlTask
  <2>6. QED
    BY <1>2, <2>2, <2>3, <2>4, <2>5 DEF Host
<1>3. CASE Tick
  <2> DEFINE wait == Less(intents[j].wait)
             age == Older(intents[j].age)
  <2>1. \/ intents'[j] = intents[j]
        \/ intents'[j] = [intents[j] EXCEPT !.wait = wait, !.age = age]
    BY <1>3 DEF Tick
  <2> HIDE DEF wait, age
  <2>2. QED
    BY <1>0, <2>1 DEF IntentRows
<1>4. CASE Crash
  BY <1>4 DEF Crash, db
<1>5. CASE Reconcile \/ RecoverRuns
  BY <1>5 DEF Reconcile, RecoverRuns
<1>6. CASE RecoverIntents
  <2>1. RecoveredState(j) # "claimed"
    BY DEF RecoveredState
  <2>2. QED
    BY <1>0, <1>6, <2>1 DEF RecoverIntents, TypeOK, IntentRows
<1>7. ASSUME NEW i \in Intents, RunStep(i) \/ Refuse(i)
      PROVE  intents'[j].task = intents[j].task /\ intents[j].state = "claimed"
  <2>1. LocalTo(i)
    BY <1>0, <1>7, LocalPump, LocalAgent, LocalDelivery DEF RunStep, Pump
  <2>2. CASE j # i
    BY <2>1, <2>2 DEF LocalTo
  <2>3. CASE j = i
    BY <1>7, <2>3, HandlerClaims
  <2>4. QED
    BY <2>2, <2>3
<1>8. ASSUME NEW i \in Intents, Claim(i)
      PROVE  /\ intents'[j].task = intents[j].task
             /\ intents[j].state = "claimed" \/ Claim(j)
  BY <1>0, <1>8 DEF Claim, TypeOK, IntentRows
<1>9. QED
  BY <1>1, <1>2, <1>3, <1>4, <1>5, <1>6, <1>7, <1>8 DEF Next, Restart, Pump

OneClaim ==
  \A i, j \in Intents :
    i # j /\ intents[i].task = intents[j].task /\ intents[i].task # None =>
      ~(intents[i].state = "claimed" /\ intents[j].state = "claimed")

\* A task has one claimed intent at most, after every step.
LEMMA OneClaimStep ==
  ASSUME Inv, OneClaim, [Next]_vars
  PROVE  OneClaim'
<1>1. SUFFICES ASSUME NEW i \in Intents, NEW j \in Intents, i # j,
                      intents'[i].task = intents'[j].task, intents'[i].task # None,
                      intents'[i].state = "claimed", intents'[j].state = "claimed"
               PROVE  FALSE
  BY DEF OneClaim
<1>2. /\ intents[i].task = intents[j].task /\ intents[i].task # None
      /\ intents[i].state = "claimed" \/ Claim(i)
      /\ intents[j].state = "claimed" \/ Claim(j)
  BY <1>1, OnlyClaims
<1>3. ~(intents[i].state = "claimed" /\ intents[j].state = "claimed")
  BY <1>1, <1>2 DEF OneClaim
<1>4. ASSUME NEW a \in Intents, NEW b \in Intents, a # b, Claim(a),
             intents[a].task = intents[b].task, intents[a].task # None,
             intents'[b].state = "claimed"
      PROVE  FALSE
  <2>1. intents[b].state # "claimed"
    BY <1>4 DEF Claim, TaskBusy, Rivals
  <2>2. intents'[b] = intents[b]
    BY <1>4 DEF Claim, Inv, TypeOK
  <2>3. QED
    BY <1>4, <2>1, <2>2
<1>5. QED
  BY <1>1, <1>2, <1>3, <1>4

\* Two runs of one task are never in progress at once: claim() looks for a
\* claimed intent of the task, and an attempt ends before its intent is released
\* (store.ts:455).
THEOREM SingleAdvancerHolds == Spec => []SingleAdvancer
<1>1. Init => OneClaim
  BY DEF Init, OneClaim, NewIntent
<1>2. Inv /\ OneClaim => SingleAdvancer
  BY DEF Inv, Sound, Owned, OneClaim, SingleAdvancer, Advancing
<1>3. Spec => []OneClaim
  BY <1>1, Invariance, OneClaimStep, PTL DEF Spec
<1>4. QED
  BY <1>2, <1>3, Invariance, PTL

\* What is taken up has no unknown outcome, whatever happened to it before
\* (recover(), store.ts:703).
THEOREM UnknownNotResumedHolds == Spec => UnknownNotResumed
<1>1. ASSUME Inv, [Next]_vars, NEW i \in Intents,
             intents[i].state # "claimed", intents'[i].state = "claimed"
      PROVE  ~Unknown(i)
  <2>1. Claim(i)
    BY <1>1, OnlyClaims
  <2>2. QED
    BY <1>1, <2>1 DEF Claim, Offered, Runnable, Due, Inv, Sound, Remembered
<1>2. Inv /\ [Next]_vars =>
        [\A i \in Intents : intents[i].state # "claimed" /\ intents'[i].state = "claimed" =>
           ~Unknown(i)]_vars
  BY <1>1
<1>3. QED
  BY <1>2, Invariance, PTL DEF Spec, UnknownNotResumed
=============================================================================
