-------------------------- MODULE ExecutionHistory --------------------------
(***************************************************************************)
(* The second inductive invariant of Execution: what verdicts, results,    *)
(* permissions, receipts and grants say about the past.  From it follow    *)
(* the properties about what has been recorded: a verdict and a result are *)
(* final, a verdict agrees with the world, a message leaves only under a   *)
(* live authorization, and the retry of a delivery only delivers.          *)
(***************************************************************************)
EXTENDS Execution_proofs, FiniteSetTheorems

----------------------------------------------------------------------------
(* The outcome of a run, and what an event does to the parts of it that    *)
(* speak of a delivery, of silence and of a failure.                       *)

\* Events of the model, of tools and of a message that leaves say nothing of a
\* delivery, and no event takes a failure back (outcome.ts:20).
LEMMA StaysBlank ==
  ASSUME NEW o \in Outcome!Outcomes, NEW n \in CallNumbers, NEW recovery \in BOOLEAN,
         NEW status \in OpStates
  PROVE  /\ Blank(o) =>
              /\ Blank(Outcome!ToolStarted(o, n)) /\ Blank(Observed(o, n, status, recovery))
              /\ Blank(Outcome!ModelFailed(o)) /\ Blank(Outcome!ResponseSending(o))
         /\ Blank(Outcome!NewOutcome)
<1>1. /\ Outcome!ToolAnswered(o, n) \in Outcome!Outcomes
      /\ Outcome!ToolAnswered(o, n).delivered = o.delivered
      /\ Outcome!ToolAnswered(o, n).quiet = o.quiet
  BY ToolType DEF Outcome!ToolAnswered, Outcome!Outcomes
<1>2. ASSUME NEW p \in Outcome!Outcomes, NEW s \in {"failed", "blocked", "uncertain"}
      PROVE  /\ Outcome!Fail(p, s).delivered = p.delivered
             /\ Outcome!Fail(p, s).quiet = p.quiet
  BY DEF Outcome!Fail, Outcome!Outcomes
<1>3. Blank(o) => Blank(Observed(o, n, status, recovery))
  BY <1>1, <1>2 DEF Blank, Observed, Outcome!ToolFailed
<1>4. Blank(o) => Blank(Outcome!ModelFailed(o))
  BY <1>2 DEF Blank, Outcome!ModelFailed
<1>5. Blank(o) => Blank(Outcome!ToolStarted(o, n)) /\ Blank(Outcome!ResponseSending(o))
  BY DEF Blank, Outcome!ToolStarted, Outcome!ResponseSending, Outcome!Outcomes
<1>6. Blank(Outcome!NewOutcome)
  BY DEF Blank, Outcome!NewOutcome
<1>7. QED
  BY <1>3, <1>4, <1>5, <1>6

\* A noted failure says nothing of a delivery and stays a failure (outcome.ts:70).
LEMMA FailSays ==
  ASSUME NEW o \in Outcome!Outcomes, NEW status \in {"failed", "blocked", "uncertain"}
  PROVE  /\ Outcome!Fail(o, status) \in Outcome!Outcomes
         /\ Outcome!Fail(o, status).delivered = o.delivered
         /\ Outcome!Fail(o, status).quiet = o.quiet
         /\ Outcome!Fail(o, status).failure # "none"
BY FailType DEF Outcome!Fail, Outcome!Outcomes

\* The receipt of a delivery speaks of one exactly if it succeeded, a refused one
\* is a failure, and no receipt takes a failure back.
LEMMA ReceiptSays ==
  ASSUME NEW o \in Outcome!Outcomes, NEW native \in BOOLEAN,
         NEW status \in {"succeeded", "failed", "uncertain"}
  PROVE  /\ SendObserved(o, status, native).quiet = o.quiet
         /\ SendObserved(o, status, native).delivered =>
              o.delivered \/ status = "succeeded"
         /\ status = "failed" => SendObserved(o, status, native).failure # "none"
         /\ o.failure # "none" => SendObserved(o, status, native).failure # "none"
<1>1. CASE status = "succeeded"
  BY <1>1 DEF SendObserved, Outcome!ResponseSent, Outcome!Outcomes
<1>2. CASE status = "uncertain"
  BY <1>2, FailSays DEF SendObserved, Outcome!ResponseUncertain
<1>3. CASE status = "failed"
  <2> DEFINE q == [o EXCEPT !.responding = FALSE]
  <2>1. q \in Outcome!Outcomes /\ q.delivered = o.delivered /\ q.quiet = o.quiet
    BY DEF Outcome!Outcomes
  <2> HIDE DEF q
  <2>2. SendObserved(o, status, native) = Outcome!Fail(q, "failed")
    BY <1>3 DEF SendObserved, Outcome!ResponseFailed, q
  <2>3. QED
    BY <1>3, <2>1, <2>2, FailSays
<1>4. QED
  BY <1>1, <1>2, <1>3

\* A verdict is never that of an unfinished run, a failure makes it a terminal
\* one, and it is "succeeded" only after a delivery or a silent end (outcome.ts:81).
LEMMA VerdictSays ==
  ASSUME NEW o \in Outcome!Outcomes
  PROVE  /\ Outcome!Verdict(o) \notin {"accepted", "running"}
         /\ o.failure # "none" => Outcome!Verdict(o) \in Terminal
         /\ Outcome!Verdict(o) = "succeeded" => o.delivered \/ o.quiet
BY DEF Outcome!Verdict, Outcome!Outcomes, Outcome!Failures, Outcome!Unanswered, Terminal

----------------------------------------------------------------------------
(* A step of one handler keeps the past of every request.                  *)

\* Between two stretches of a handler nobody is inside of one.
LEMMA Resting ==
  ASSUME Inv, NEW j \in Intents, turn \notin Intents \/ turn # j
  PROVE  proc[j].pc \notin SyncPoints
BY DEF Inv, Sound, Owned

\* The types of what belongs to one request.
LEMMA RowTypes ==
  ASSUME Inv, NEW i \in Intents
  PROVE  /\ Sound(i) /\ TypeOK
         /\ proc[i] \in Handlers /\ intents[i] \in IntentRows /\ runs[i] \in RunRows
         /\ usage[i] \in UsageRows /\ result[i] \in Results /\ send[i] \in OpStates
         /\ runs[i].log \in Outcome!Outcomes /\ proc[i].mem \in Outcome!Outcomes
         /\ runs[i].status \in Statuses /\ proc[i].pc \in AsyncPoints \cup SyncPoints
         /\ world[i] \in Worlds
BY HandlerFields, RunFields DEF Inv, TypeOK

\* What a step of its handler does not take from a request: it stays accepted,
\* under its grant, with its result, and a result ends its spending.
Lasting(i) ==
  /\ intents[i].state # "absent" /\ intents'[i].state # "absent"
  /\ intents'[i].grant = intents[i].grant /\ intents'[i].origin = intents[i].origin
  /\ result[i] # "none" => result'[i] = result[i] /\ usage'[i] = usage[i]

\* Claiming, refusing and a step of a handler last.
LEMMA Lasts ==
  ASSUME Inv, History, NEW i \in Intents, Pump(i) \/ RunStep(i)
  PROVE  Lasting(i)
<1>0. /\ Sound(i) /\ TypeOK /\ intents[i] \in IntentRows /\ proc[i] \in Handlers
      /\ Kept(i) /\ runs[i].status \in Statuses
  BY RowTypes DEF History, Past
<1>1. CASE Pump(i)
  BY <1>0, <1>1 DEF Pump, Claim, Refuse, Offered, Runnable, Due, Lasting, TypeOK, IntentRows
<1>2. ASSUME proc[i].pc # "idle", UNCHANGED <<intents, result, usage>> PROVE Lasting(i)
  BY <1>0, <1>2 DEF Lasting, Sound, Untouched
<1>3. CASE Begin(i) \/ BeginRefused(i) \/ EndRun(i)
  BY <1>2, <1>3 DEF Begin, BeginRefused, EndRun, At
<1>4. CASE Finish(i)
  <2>1. intents[i].state # "absent"
    BY <1>0, <1>4 DEF Sound, Untouched, Finish, At
  <2>2. intents' = intents \/ intents' = [intents EXCEPT ![i].state = StateAfter(runs[i].status)]
    BY <1>4 DEF Finish
  <2>3. intents[i].state = "claimed" => StateAfter(runs[i].status) # "absent"
    BY <1>0 DEF StateAfter, Statuses, Outcome!Verdicts
  <2>4. QED
    BY <1>0, <1>4, <2>1, <2>2, <2>3 DEF Lasting, Finish, TypeOK, IntentRows
<1>5. CASE AgentStep(i)
  <2>1. CASE Defer(i)
    BY <1>0, <2>1 DEF Defer, At, Lasting, TypeOK, IntentRows, Sound, Untouched
  <2>2. CASE StartModel(i)
    BY <1>0, <2>2 DEF StartModel, At, Lasting, Kept, Asking, Sound, Untouched
  <2>3. ASSUME NEW name \in Tools, CallTool(i, name) PROVE Lasting(i)
    BY <1>0, <2>3 DEF CallTool, Choosing, At, Lasting, Kept, Asking, Sound, Untouched
  <2>4. CASE RunLocal(i)
    BY <1>0, <2>4 DEF RunLocal, At, Lasting, Kept, Asking, Sound, Untouched
  <2>5. CASE ~Defer(i) /\ ~StartModel(i) /\ ~RunLocal(i) /\ ~\E name \in Tools : CallTool(i, name)
    <3>1. proc[i].pc # "idle" /\ UNCHANGED <<intents, result, usage>>
      BY <1>5, <2>5 DEF AgentStep, ModelRefused, ReplyText, Deadline, ReplyFailed,
         ToolRefused, Choosing, OpenTool, DenyTool, RunExternal, AnswerTool, CloseTool, At
    <3>2. QED
      BY <1>2, <3>1
  <2>6. QED
    BY <1>5, <2>1, <2>2, <2>3, <2>4, <2>5
<1>6. CASE DeliveryStep(i)
  <2>1. CASE SaveResult(i)
    BY <1>0, <2>1 DEF SaveResult, At, Lasting, Kept, Sound, Untouched, TypeOK
  <2>2. CASE ~SaveResult(i)
    <3>1. proc[i].pc # "idle" /\ UNCHANGED <<intents, result, usage>>
      BY <1>6, <2>2 DEF DeliveryStep, Deliver, PermitRefused, StartSend, HandOut,
         AnswerSend, AppendNative, OpenNative, StampNative, ReportSend, At
    <3>2. QED
      BY <1>2, <3>1
  <2>3. QED
    BY <2>1, <2>2
<1>7. QED
  BY <1>1, <1>3, <1>4, <1>5, <1>6 DEF RunStep

\* A step for one request leaves the past of the others as it is.
LEMMA PastOthers ==
  ASSUME Inv, History, NEW i \in Intents, Pump(i) \/ RunStep(i),
         NEW j \in Intents, j # i
  PROVE  Past(j)'
<1>1. LocalTo(i)
  BY LocalPump, LocalAgent, LocalDelivery DEF Inv, RunStep
<1>2. Past(j) /\ Lasting(i) /\ intents[j] \in IntentRows
  BY Lasts, RowTypes DEF History
<1>3. proc[j].pc \notin SyncPoints
  BY <1>1, Resting DEF LocalTo, Intents
<1>4. Judged(j)' /\ Kept(j)' /\ Permitted(j)'
  BY <1>1, <1>2, <1>3 DEF LocalTo, Past, Judged, Kept, Permitted, SyncPoints
<1>5. Receipted(j)' /\ Reported(j)'
  BY <1>1, <1>2 DEF LocalTo, Past, Receipted, Reported, Truthful
<1>6. Rejected(j)' /\ Granted(j)'
  BY <1>1, <1>2 DEF LocalTo, Past, Rejected, Unfinished, Granted, Dead, Live
<1>7. Retried(j)'
  BY <1>1, <1>2 DEF LocalTo, Past, Retried, Lasting, Dead, Live
<1>8. QED
  BY <1>4, <1>5, <1>6, <1>7 DEF Past

\* A handler stays inside its attempt, and the run keeps its status.
Onward(i) ==
  /\ proc[i].pc \notin Waiting \cup {"ending"} /\ proc'[i].pc \notin Waiting
  /\ proc'[i].pc \in Looping => proc[i].pc \in Looping
  /\ intents' = intents /\ runs'[i].status = runs[i].status
  /\ proc[i].pc \notin Looping => usage' = usage /\ world'[i].acted = world[i].acted
  /\ proc'[i].pc \in Asking => result'[i] = "none"
  /\ proc'[i].pc = "save" => result'[i] \in {"none", proc'[i].out}

\* What the outcomes may say after a step: nothing until the attempt ends, the
\* truth from then on.
Told(i) ==
  IF proc'[i].pc = "ending"
  THEN Truthful(runs[i].log, i)' /\ Truthful(proc[i].mem, i)'
  ELSE Blank(runs[i].log)' /\ Blank(proc[i].mem)'

\* A run in an attempt that has not ended is running and was not refused.
LEMMA InAttempt ==
  ASSUME Inv, History, NEW i \in Intents, boot = "up",
         proc[i].pc \notin Waiting \cup {"ending"}
  PROVE  /\ runs[i].status = "running" /\ ~runs[i].refused
         /\ intents[i].state = "claimed"
         /\ Blank(runs[i].log) /\ Blank(proc[i].mem)
         /\ Truthful(runs[i].log, i) /\ Truthful(proc[i].mem, i)
<1>1. Past(i) /\ Sound(i)
  BY DEF History, Inv
<1>2. runs[i].status = "running" /\ intents[i].state = "claimed"
  BY <1>1 DEF Past, Judged, Waiting, Sound, Owned
<1>3. ~runs[i].refused
  BY <1>1, <1>2 DEF Past, Rejected, Terminal
<1>4. Blank(runs[i].log) /\ Blank(proc[i].mem)
  BY <1>1 DEF Past, Reported, Waiting
<1>5. QED
  BY <1>2, <1>3, <1>4 DEF Blank, Truthful

\* A step inside an attempt keeps the past of its request.
LEMMA PastInside ==
  ASSUME Inv, History, NEW i \in Intents, RunStep(i), Onward(i), Told(i),
         Permitted(i)', Receipted(i)',
         runs'[i].refused =>
           \/ runs[i].refused
           \/ /\ proc'[i].pc = "ending" /\ ~world'[i].arrived
              /\ runs'[i].log.failure # "none" /\ proc'[i].mem.failure # "none"
  PROVE  Past(i)'
<1>1. LocalTo(i) /\ Lasting(i) /\ Past(i)
  BY LocalPump, LocalAgent, LocalDelivery, Lasts DEF Inv, RunStep, History
<1>2. runs[i].status = "running" /\ ~runs[i].refused /\ intents[i].state = "claimed"
  BY <1>1, InAttempt DEF LocalTo, Onward
<1>3. Judged(i)' /\ Kept(i)'
  BY <1>1, <1>2 DEF Onward, Judged, Kept
<1>4. Reported(i)'
  <2>1. runs'[i].status = "running"
    BY <1>2 DEF Onward
  <2>2. CASE proc'[i].pc = "ending"
    BY <2>1, <2>2 DEF Told, Reported, Waiting
  <2>3. CASE proc'[i].pc # "ending"
    BY <2>1, <2>3 DEF Told, Reported, Blank, Truthful
  <2>4. QED
    BY <2>2, <2>3
<1>5. Rejected(i)'
  BY <1>2 DEF Onward, Rejected, Unfinished
<1>6. Granted(i)'
  BY <1>1, <1>2 DEF Onward, LocalTo, Past, Granted, Waiting, Dead, Live
<1>7. Retried(i)'
  <2>1. CASE intents[i].origin = i
    BY <1>1, <2>1 DEF Onward, LocalTo, Lasting, Past, Retried, Dead, Live
  <2>2. CASE intents[i].origin # i
    BY <1>1, <2>2 DEF Onward, LocalTo, Lasting, Past, Retried, Dead, Live
  <2>3. QED
    BY <2>1, <2>2
<1>8. QED
  BY <1>3, <1>4, <1>5, <1>6, <1>7 DEF Past

\* Most steps leave the message and its receipt alone and report nothing of it.
LEMMA PastPlain ==
  ASSUME Inv, History, NEW i \in Intents, RunStep(i), boot = "up",
         proc[i].pc \notin Waiting \cup {"ending"},
         proc'[i].pc \notin Waiting \cup AtNative \cup {"handing"},
         proc'[i].pc \in Looping => proc[i].pc \in Looping,
         intents' = intents, send'[i] = send[i], world'[i].arrived = world[i].arrived,
         runs'[i].status = runs[i].status, runs'[i].refused = runs[i].refused,
         proc[i].pc \notin Looping => usage' = usage /\ world'[i].acted = world[i].acted,
         proc'[i].pc \in Asking => result'[i] = "none",
         proc'[i].pc = "save" => result'[i] \in {"none", proc'[i].out},
         Blank(runs[i].log) => Blank(runs'[i].log),
         Blank(proc[i].mem) => Blank(proc'[i].mem)
  PROVE  Past(i)'
<1>1. Blank(runs[i].log) /\ Blank(proc[i].mem)
  BY InAttempt
<1>2. Onward(i) /\ Permitted(i)'
  BY DEF Onward, Waiting, Permitted, AtNative
<1>3. Receipted(i)'
  BY DEF History, Past, Receipted, AtNative
<1>4. Told(i)
  BY <1>1 DEF Told, Truthful, Blank
<1>5. QED
  BY <1>2, <1>3, <1>4, PastInside

\* What moving, ending and emitting set, and what they keep.
LEMMA Moved ==
  ASSUME Inv, NEW i \in Intents, NEW pc, To(i, pc)
  PROVE  /\ proc'[i].pc = pc /\ proc'[i].mem = proc[i].mem /\ proc'[i].out = proc[i].out
BY RowTypes DEF To, Go, TypeOK, Handlers

\* An attempt that ends early notes a failure.
LEMMA Stopped ==
  ASSUME Inv, NEW i \in Intents, NEW status \in {"failed", "blocked", "uncertain"},
         Stop(i, status)
  PROVE  /\ proc'[i].pc = "ending"
         /\ proc'[i].mem = Outcome!Fail(proc[i].mem, status)
         /\ Blank(proc[i].mem) => Blank(proc'[i].mem)
<1>1. proc'[i] = [proc[i] EXCEPT !.pc = "ending", !.mem = Outcome!Fail(@, status)]
  BY RowTypes DEF Stop, Go, TypeOK
<1>2. proc'[i].pc = "ending" /\ proc'[i].mem = Outcome!Fail(proc[i].mem, status)
  BY <1>1, RowTypes DEF Handlers
<1>3. QED
  BY <1>2, RowTypes, FailSays DEF Blank

\* An event changes the log of its run and nothing else of it.
LEMMA Emitted ==
  ASSUME Inv, NEW i \in Intents, NEW log, Emit(i, log) \/ Touch(i, log)
  PROVE  /\ runs'[i].log = log /\ runs'[i].status = runs[i].status
         /\ runs'[i].refused = runs[i].refused
BY RowTypes DEF Emit, Touch, TypeOK, RunRows

\* The steps of the agent loop, but for those of a tool, keep the past.
LEMMA PastModel ==
  ASSUME Inv, History, NEW i \in Intents, RunStep(i),
         \/ StartModel(i) \/ ModelRefused(i) \/ ReplyText(i)
         \/ \E retryable \in BOOLEAN : ReplyFailed(i, retryable)
         \/ ToolRefused(i) \/ \E name \in Tools : CallTool(i, name)
         \/ PermitRefused(i)
  PROVE  Past(i)'
<1>0. /\ TypeOK /\ proc[i] \in Handlers /\ Past(i)
      /\ runs[i].log \in Outcome!Outcomes /\ proc[i].mem \in Outcome!Outcomes
  BY RowTypes DEF History
<1>a. /\ Blank(runs[i].log) => Blank(Outcome!ModelFailed(runs[i].log))
      /\ Blank(proc[i].mem) => Blank(Outcome!ModelFailed(proc[i].mem))
  BY <1>0, FailSays DEF Blank, Outcome!ModelFailed
<1> USE DEF Waiting, AtNative, Asking, Looping, At
<1>1. CASE StartModel(i)
  BY <1>0, <1>1, Moved, PastPlain DEF StartModel, Past, Kept
<1>2. CASE ModelRefused(i)
  <2>1. /\ runs'[i].status = runs[i].status /\ runs'[i].refused = runs[i].refused
        /\ Blank(runs[i].log) => Blank(runs'[i].log)
    BY <1>2, <1>a, Emitted DEF ModelRefused
  <2>2. QED
    BY <1>2, <2>1, Stopped, PastPlain DEF ModelRefused
<1>3. CASE ReplyText(i)
  <2>1. proc'[i].pc = "save" /\ proc'[i].mem = proc[i].mem
    BY <1>0, <1>3 DEF ReplyText, Go, TypeOK, Handlers
  <2>2. QED
    BY <1>0, <1>3, <2>1, PastPlain DEF ReplyText, Past, Kept
<1>4. ASSUME NEW retryable \in BOOLEAN, ReplyFailed(i, retryable) PROVE Past(i)'
  <2>1. /\ proc'[i].pc \in {"defer", "ending"}
        /\ proc'[i].mem = Outcome!ModelFailed(proc[i].mem)
    BY <1>0, <1>4 DEF ReplyFailed, Go, TypeOK, Handlers
  <2>2. QED
    BY <1>4, <1>a, <2>1, Emitted, PastPlain DEF ReplyFailed
<1>5. CASE ToolRefused(i)
  BY <1>5, Stopped, PastPlain DEF ToolRefused, Choosing
<1>6. ASSUME NEW name \in Tools, CallTool(i, name) PROVE Past(i)'
  <2> DEFINE p == [proc[i] EXCEPT !.seq = proc[i].seq + 1]
  <2>1. /\ proc[i].pc \in {"thinking", "calling"} /\ boot = "up"
        /\ UNCHANGED <<intents, runs, send, result, world, boot>>
        /\ \E next \in {"opened", "calling", "model"}, halted \in BOOLEAN :
             \/ Go(i, [p EXCEPT !.pc = next])
             \/ Go(i, [p EXCEPT !.pc = next, !.halted = halted])
    BY <1>0, <1>6 DEF CallTool, Choosing, Handlers
  <2>2. PICK next \in {"opened", "calling", "model"}, halted \in BOOLEAN :
             \/ Go(i, [p EXCEPT !.pc = next])
             \/ Go(i, [p EXCEPT !.pc = next, !.halted = halted])
    BY <2>1
  <2>3. /\ [p EXCEPT !.pc = next].pc = next /\ [p EXCEPT !.pc = next].mem = proc[i].mem
        /\ [p EXCEPT !.pc = next, !.halted = halted].pc = next
        /\ [p EXCEPT !.pc = next, !.halted = halted].mem = proc[i].mem
    BY <1>0 DEF Handlers
  <2> HIDE DEF p
  <2>4. proc'[i].pc \in {"opened", "calling", "model"} /\ proc'[i].mem = proc[i].mem
    BY <1>0, <2>2, <2>3 DEF Go, TypeOK
  <2>5. QED
    BY <1>0, <2>1, <2>4, PastPlain DEF Past, Kept
<1>7. CASE PermitRefused(i)
  BY <1>7, Stopped, PastPlain DEF PermitRefused
<1>8. QED
  BY <1>1, <1>2, <1>3, <1>4, <1>5, <1>6, <1>7

\* The steps of a tool call keep the past.
LEMMA PastTool ==
  ASSUME Inv, History, NEW i \in Intents, RunStep(i),
         \/ OpenTool(i) \/ DenyTool(i) \/ RunExternal(i) \/ RunLocal(i)
         \/ AnswerTool(i) \/ CloseTool(i) \/ Deadline(i)
  PROVE  Past(i)'
<1> DEFINE n == proc[i].seq
<1>0. /\ Sound(i) /\ TypeOK /\ proc[i] \in Handlers /\ runs[i] \in RunRows
      /\ runs[i].log \in Outcome!Outcomes /\ proc[i].mem \in Outcome!Outcomes
      /\ Past(i)
  BY RowTypes DEF History
<1>a. ASSUME proc[i].pc \in InTool
      PROVE  /\ n \in CallNumbers /\ calls[i][n].state \in OpStates
             /\ proc[i].recovery \in BOOLEAN
  BY <1>0, <1>a, HandlerFields DEF Sound, Called, TypeOK, CallRows
<1> USE DEF Waiting, AtNative, Asking, Looping, At
<1>1. CASE OpenTool(i)
  <2>1. /\ Blank(runs[i].log) => Blank(Outcome!ToolStarted(runs[i].log, n))
        /\ Blank(proc[i].mem) => Blank(Outcome!ToolStarted(proc[i].mem, n))
    BY <1>0, <1>1, <1>a, StaysBlank DEF OpenTool, InTool, OpStates
  <2>2. result[i] = "none"
    BY <1>0, <1>1 DEF OpenTool, Past, Kept
  <2>3. /\ proc'[i].pc = "tool" /\ proc'[i].mem = Outcome!ToolStarted(proc[i].mem, n)
        /\ Touch(i, Outcome!ToolStarted(runs[i].log, n))
    BY <1>0, <1>1 DEF OpenTool, Go, TypeOK, Handlers
  <2>4. QED
    BY <1>1, <2>1, <2>2, <2>3, Emitted, PastPlain DEF OpenTool
<1>2. CASE DenyTool(i)
  BY <1>2, Moved, PastPlain DEF DenyTool
<1>3. CASE RunExternal(i)
  <2>1. result[i] = "none"
    BY <1>0, <1>3 DEF RunExternal, Past, Kept
  <2>2. world'[i].arrived = world[i].arrived
    BY <1>0, <1>3 DEF RunExternal, TypeOK, Worlds
  <2>3. QED
    <3>1. /\ proc[i].pc = "tool" /\ boot = "up" /\ To(i, "acting")
          /\ UNCHANGED <<intents, runs, send, result, usage>>
      BY <1>3 DEF RunExternal
    <3>2. proc'[i].pc = "acting" /\ proc'[i].mem = proc[i].mem
      BY <3>1, Moved
    <3>3. QED
      BY <2>1, <2>2, <3>1, <3>2, PastPlain
<1>4. CASE RunLocal(i)
  BY <1>4, Moved, PastPlain DEF RunLocal
<1>5. CASE AnswerTool(i)
  <2>1. ASSUME NEW recovery,
               Go(i, [proc[i] EXCEPT !.pc = "closed", !.recovery = recovery])
        PROVE  proc'[i].pc = "closed" /\ proc'[i].mem = proc[i].mem
    BY <1>0, <2>1 DEF Go, TypeOK, Handlers
  <2>2. proc'[i].pc = "closed" /\ proc'[i].mem = proc[i].mem
    BY <1>5, <2>1, Moved DEF AnswerTool
  <2>3. QED
    BY <1>5, <2>2, PastPlain DEF AnswerTool
<1>6. CASE CloseTool(i)
  <2> DEFINE status == calls[i][n].state
             mem == IF status = "uncertain" THEN Outcome!Fail(proc[i].mem, "uncertain")
                    ELSE proc[i].mem
  <2>1. /\ n \in CallNumbers /\ status \in OpStates /\ proc[i].recovery \in BOOLEAN
    BY <1>6, <1>a DEF CloseTool, At, InTool
  <2>2. mem \in Outcome!Outcomes /\ (Blank(proc[i].mem) => Blank(mem))
    BY <1>0, FailSays DEF Blank
  <2> HIDE DEF mem, status
  <2>3. /\ Blank(runs[i].log) => Blank(Observed(runs[i].log, n, status, proc[i].recovery))
        /\ Blank(mem) => Blank(Observed(mem, n, status, proc[i].recovery))
    BY <1>0, <2>1, <2>2, StaysBlank
  <2> DEFINE p == [proc[i] EXCEPT !.recovery = FALSE,
                     !.halted = proc[i].halted \/ status \in {"failed", "uncertain"},
                     !.mem = Observed(mem, n, status, proc[i].recovery)]
  <2>4. ASSUME NEW pc, NEW out
        PROVE  /\ [p EXCEPT !.pc = pc].pc = pc /\ [p EXCEPT !.pc = pc].mem = p.mem
               /\ [p EXCEPT !.pc = pc, !.out = out].pc = pc
               /\ [p EXCEPT !.pc = pc, !.out = out].out = out
               /\ [p EXCEPT !.pc = pc, !.out = out].mem = p.mem
               /\ p.mem = Observed(mem, n, status, proc[i].recovery)
    BY <1>0 DEF Handlers
  <2>5. /\ Emit(i, Observed(runs[i].log, n, status, proc[i].recovery))
        /\ proc[i].pc = "closed" /\ boot = "up"
        /\ UNCHANGED <<intents, calls, send, result, usage, boot, world>>
        /\ IF result[i] # "none" THEN Go(i, [p EXCEPT !.pc = "save", !.out = result[i]])
           ELSE \E next \in {"calling", "model"} : Go(i, [p EXCEPT !.pc = next])
    BY <1>6 DEF CloseTool, status, mem
  <2> HIDE DEF p
  <2>6. /\ proc'[i].mem = Observed(mem, n, status, proc[i].recovery)
        /\ IF result[i] # "none" THEN proc'[i].pc = "save" /\ proc'[i].out = result[i]
           ELSE proc'[i].pc \in {"calling", "model"}
    <3>1. ASSUME NEW q, Go(i, q) PROVE proc'[i] = q
      BY <1>0, <3>1 DEF Go, TypeOK
    <3>2. CASE result[i] # "none"
      <4>1. proc'[i] = [p EXCEPT !.pc = "save", !.out = result[i]]
        BY <2>5, <3>1, <3>2
      <4>2. QED
        BY <2>4, <3>2, <4>1
    <3>3. CASE result[i] = "none"
      <4>1. PICK next \in {"calling", "model"} : Go(i, [p EXCEPT !.pc = next])
        BY <2>5, <3>3
      <4>2. proc'[i] = [p EXCEPT !.pc = next]
        BY <3>1, <4>1
      <4>3. QED
        BY <2>4, <3>3, <4>2
    <3>4. QED
      BY <3>2, <3>3
  <2>7. QED
    BY <2>2, <2>3, <2>5, <2>6, Emitted, PastPlain
<1>7. CASE Deadline(i)
  BY <1>7, Stopped, PastPlain DEF Deadline
<1>8. QED
  BY <1>1, <1>2, <1>3, <1>4, <1>5, <1>6, <1>7

\* A step that asks nobody keeps what a retry rests on.
LEMMA RetriedOn ==
  ASSUME Inv, History, NEW i \in Intents, Pump(i) \/ RunStep(i),
         proc'[i].pc \in Looping => proc[i].pc \in Looping,
         usage' = usage, world'[i].acted = world[i].acted
  PROVE  Retried(i)'
<1>1. LocalTo(i) /\ Lasting(i) /\ Past(i)
  BY LocalPump, LocalAgent, LocalDelivery, Lasts DEF Inv, RunStep, History
<1>2. CASE intents[i].origin = i
  BY <1>1, <1>2 DEF LocalTo, Lasting, Past, Retried, Dead, Live
<1>3. CASE intents[i].origin # i
  BY <1>1, <1>3 DEF LocalTo, Lasting, Past, Retried, Dead, Live
<1>4. QED
  BY <1>2, <1>3

\* A step outside of an attempt that leaves the records of the message alone and
\* ends no run with a success keeps the past.
LEMMA PastOutside ==
  ASSUME Inv, History, NEW i \in Intents, Pump(i) \/ RunStep(i), boot = "up",
         proc'[i].pc \in Waiting,
         UNCHANGED <<send, result, world, usage>>,
         proc'[i].pc = "claimed" => Live(intents[i].grant) /\ Blank(proc'[i].mem),
         intents'[i].state = "collected" => intents[i].state = "collected",
         runs'[i].refused = runs[i].refused, runs'[i].log = runs[i].log,
         \/ /\ runs'[i].status = runs[i].status
            /\ proc[i].pc \in Waiting
         \/ /\ runs'[i].status \notin {"accepted", "running"}
            /\ runs[i].refused => runs'[i].status \in Terminal
            /\ runs'[i].status = "succeeded" => world[i].arrived \/ result[i] # "notify"
  PROVE  Past(i)'
<1>1. LocalTo(i) /\ Lasting(i) /\ Past(i)
  BY LocalPump, LocalAgent, LocalDelivery, Lasts DEF Inv, RunStep, History
<1>2. Judged(i)' /\ Kept(i)'
  BY <1>1 DEF LocalTo, Lasting, Past, Judged, Kept, Waiting, Asking
<1>3. Permitted(i)' /\ Receipted(i)'
  BY <1>1 DEF Past, Permitted, Receipted, Waiting
<1>4. Reported(i)'
  BY <1>1, <1>2 DEF Past, Reported, Judged, Waiting, Truthful, LocalTo
<1>5. Rejected(i)'
  <2>1. runs[i].refused /\ proc[i].pc \in Waiting => runs[i].status \in Terminal
    BY <1>1 DEF Past, Rejected, Waiting
  <2>2. runs[i].refused => ~world[i].arrived
    BY <1>1 DEF Past, Rejected
  <2>3. QED
    BY <2>1, <2>2 DEF Rejected
<1>6. Granted(i)'
  BY <1>1 DEF LocalTo, Lasting, Past, Granted, Dead, Live
<1>7. Retried(i)'
  BY RetriedOn DEF Waiting, Looping, Asking
<1>8. QED
  BY <1>2, <1>3, <1>4, <1>5, <1>6, <1>7 DEF Past

\* Claiming, refusing and ending keep the past.
LEMMA PastEnds ==
  ASSUME Inv, History, NEW i \in Intents, Pump(i) \/ RunStep(i),
         Claim(i) \/ Refuse(i) \/ BeginRefused(i) \/ EndRun(i) \/ Finish(i)
  PROVE  Past(i)'
<1>0. /\ TypeOK /\ proc[i] \in Handlers /\ Past(i) /\ Sound(i)
      /\ intents[i] \in IntentRows /\ runs[i] \in RunRows /\ runs[i].status \in Statuses
      /\ proc[i].mem \in Outcome!Outcomes
  BY RowTypes DEF History
<1>1. CASE Claim(i)
  <2>1. proc'[i].pc = "claimed" /\ Blank(proc'[i].mem) /\ proc[i].pc = "idle"
    BY <1>0, <1>1, StaysBlank DEF Claim, Go, TypeOK, IdleProc, Blank, Outcome!NewOutcome
  <2>2. Live(intents[i].grant)
    BY <1>1 DEF Claim, Claimable, Valid
  <2>3. intents'[i].state = "claimed"
    BY <1>0, <1>1 DEF Claim, TypeOK, IntentRows
  <2>4. QED
    BY <1>1, <2>1, <2>2, <2>3, PastOutside DEF Claim, Free, Waiting
<1>2. CASE Refuse(i)
  <2>1. proc'[i].pc = "idle" /\ proc[i].pc = "idle"
    BY <1>2 DEF Refuse
  <2>2. intents'[i].state = "blocked"
    BY <1>0, <1>2 DEF Refuse, TypeOK, IntentRows
  <2>3. /\ runs'[i].refused = runs[i].refused /\ runs'[i].log = runs[i].log
        /\ runs'[i].status \in {runs[i].status, "blocked"}
    BY <1>0, <1>2 DEF Refuse, BlockRun, TypeOK, RunRows
  <2>4. QED
    BY <1>2, <2>1, <2>2, <2>3, PastOutside DEF Refuse, Free, Waiting, Terminal
<1>3. CASE BeginRefused(i)
  BY <1>3, Moved, PastOutside DEF BeginRefused, At, Waiting
<1>4. CASE EndRun(i)
  <2> DEFINE verdict == Outcome!Verdict(proc[i].mem)
  <2>1. /\ verdict \notin {"accepted", "running"}
        /\ proc[i].mem.failure # "none" => verdict \in Terminal
        /\ verdict = "succeeded" => proc[i].mem.delivered \/ proc[i].mem.quiet
    BY <1>0, VerdictSays
  <2> HIDE DEF verdict
  <2>2. /\ runs'[i].refused = runs[i].refused /\ runs'[i].log = runs[i].log
        /\ runs'[i].status = verdict
    BY <1>0, <1>4 DEF EndRun, TypeOK, RunRows, verdict
  <2>3. runs[i].status = "running" /\ Truthful(proc[i].mem, i)
    BY <1>0, <1>4 DEF EndRun, At, Past, Judged, Reported, Waiting
  <2>4. runs[i].refused => proc[i].mem.failure # "none"
    BY <1>0, <1>4, <2>3 DEF EndRun, At, Past, Rejected, Terminal
  <2>5. QED
    BY <1>4, <2>1, <2>2, <2>3, <2>4, Moved, PastOutside DEF EndRun, At, Waiting, Truthful
<1>5. CASE Finish(i)
  <2>1. proc'[i].pc = "idle" /\ proc[i].pc = "ended"
    BY <1>0, <1>5 DEF Finish, At, Go, TypeOK, IdleProc
  <2>2. intents'[i].state = "collected" => intents[i].state = "collected"
    <3>1. CASE intents[i].state = "claimed"
      <4>1. StateAfter(runs[i].status) # "collected"
        BY <1>0 DEF StateAfter, Statuses, Outcome!Verdicts
      <4>2. intents'[i].state = StateAfter(runs[i].status)
        BY <1>0, <1>5, <3>1 DEF Finish, TypeOK, IntentRows
      <4>3. QED
        BY <4>1, <4>2
    <3>2. QED
      BY <1>5, <3>1 DEF Finish
  <2>3. QED
    BY <1>5, <2>1, <2>2, PastOutside DEF Finish, At, Waiting
<1>6. QED
  BY <1>1, <1>2, <1>3, <1>4, <1>5

\* Beginning an attempt, and deferring it, keep the past.  A stored result is
\* never asked for again, and a retry finds one, or its grant is dead and it was
\* not claimed.
LEMMA PastBegin ==
  ASSUME Inv, History, NEW i \in Intents, RunStep(i), Begin(i) \/ Defer(i)
  PROVE  Past(i)'
<1>0. /\ TypeOK /\ proc[i] \in Handlers /\ Past(i) /\ Sound(i)
      /\ intents[i] \in IntentRows /\ runs[i] \in RunRows /\ result[i] \in Results
      /\ LocalTo(i) /\ Lasting(i)
  BY RowTypes, LocalAgent, LocalPump, Lasts DEF History, Inv, AgentStep
<1>1. CASE Begin(i)
  <2>1. /\ proc[i].pc = "claimed" /\ boot = "up" /\ boot' = "up" /\ turn' \in {0, i}
        /\ UNCHANGED <<grants, tasks, intents, calls, send, result, usage, world>>
        /\ runs[i].status \in {"accepted", "interrupted"}
    BY <1>0, <1>1 DEF Begin, At, Startable, LocalTo
  <2>2. /\ runs'[i].status = "running" /\ runs'[i].log = Outcome!NewOutcome
        /\ runs'[i].refused = runs[i].refused
    BY <1>0, <1>1 DEF Begin, TypeOK, RunRows
  <2>3. /\ proc'[i].mem = proc[i].mem /\ proc'[i].pc \in {"save", "model"}
        /\ proc'[i].pc = "save" => result[i] \in {"none", proc'[i].out}
        /\ proc'[i].pc = "model" => Stored(i) = "none"
    <3>0. ASSUME NEW out, Go(i, [proc[i] EXCEPT !.pc = "save", !.out = out])
          PROVE  /\ proc'[i].mem = proc[i].mem /\ proc'[i].pc = "save"
                 /\ proc'[i].out = out
      <4>1. proc'[i] = [proc[i] EXCEPT !.pc = "save", !.out = out]
        BY <1>0, <3>0 DEF Go, TypeOK
      <4>2. QED
        BY <1>0, <4>1 DEF Handlers
    <3>1. CASE Stored(i) # "none"
      BY <1>1, <3>0, <3>1 DEF Begin, Stored
    <3>2. CASE Stored(i) = "none" /\ intents[i].kind = "reminder"
      BY <1>1, <3>0, <3>2 DEF Begin, Stored
    <3>3. CASE Stored(i) = "none" /\ intents[i].kind # "reminder"
      BY <1>1, <3>3, Moved DEF Begin
    <3>4. QED
      BY <3>1, <3>2, <3>3
  <2>4. ~runs[i].refused /\ Live(intents[i].grant) /\ Blank(proc[i].mem)
    BY <1>0, <2>1 DEF Past, Rejected, Granted, Reported, Terminal, Unfinished
  <2>5. proc'[i].pc = "model" => result[i] = "none" /\ intents[i].origin = 0
    <3>1. ASSUME Stored(i) = "none", intents[i].origin # 0 PROVE FALSE
      BY <1>0, <2>4, <3>1 DEF Stored, StoredElsewhere, Past, Retried, Dead
    <3>2. QED
      BY <2>3, <3>1 DEF Stored
  <2>6. Judged(i)' /\ Kept(i)'
    BY <1>0, <2>1, <2>2, <2>3, <2>5 DEF Judged, Kept, Waiting, Asking, Lasting
  <2>7. Permitted(i)' /\ Receipted(i)'
    BY <1>0, <2>1, <2>3 DEF Past, Permitted, Receipted
  <2>8. Reported(i)'
    BY <1>0, <2>1, <2>2, <2>3, <2>4, StaysBlank DEF Reported, Waiting, Truthful, Blank,
       Outcome!NewOutcome
  <2>9. Rejected(i)' /\ Granted(i)'
    BY <1>0, <2>1, <2>2, <2>3, <2>4 DEF Past, Rejected, Granted, Dead, Live
  <2>10. Retried(i)'
    BY <1>0, <2>1, <2>3, <2>5 DEF Past, Retried, Looping, Asking, Dead, Live
  <2>11. QED
    BY <2>6, <2>7, <2>8, <2>9, <2>10 DEF Past
<1>2. CASE Defer(i)
  <2>1. CASE MayRetry(i)
    <3>1. /\ proc[i].pc = "defer" /\ boot = "up"
          /\ UNCHANGED <<send, result, world, usage>> /\ To(i, "ended")
      BY <1>2, <2>1 DEF Defer, At
    <3>2. /\ runs'[i].status = "interrupted" /\ runs'[i].log = runs[i].log
          /\ runs'[i].refused = runs[i].refused
      BY <1>0, <1>2, <2>1 DEF Defer, TypeOK, RunRows
    <3>a. ~runs[i].refused
      BY <3>1, InAttempt DEF Waiting
    <3>3. intents'[i].state = "queued"
      BY <1>0, <1>2, <2>1 DEF Defer, TypeOK, IntentRows
    <3>4. QED
      BY <3>1, <3>2, <3>a, <3>3, Moved, PastOutside DEF Waiting
  <2>2. CASE ~MayRetry(i)
    BY <1>2, <2>2, Stopped, PastPlain DEF Defer, At, Waiting, AtNative, Looping, Asking
  <2>3. QED
    BY <2>1, <2>2
<1>3. QED
  BY <1>1, <1>2

\* The result, the permission and the receipt of the delivery keep the past.
LEMMA PastDelivery ==
  ASSUME Inv, History, NEW i \in Intents, RunStep(i),
         \/ SaveResult(i) \/ StartSend(i) \/ HandOut(i)
         \/ \E status \in {"succeeded", "failed", "uncertain"} : AnswerSend(i, status)
         \/ AppendNative(i) \/ OpenNative(i) \/ StampNative(i)
  PROVE  Past(i)'
<1>0. /\ TypeOK /\ proc[i] \in Handlers /\ Past(i) /\ Sound(i)
      /\ runs[i] \in RunRows /\ result[i] \in Results /\ world[i] \in Worlds
      /\ runs[i].log \in Outcome!Outcomes /\ proc[i].mem \in Outcome!Outcomes
  BY RowTypes DEF History
<1>a. ASSUME boot = "up", proc[i].pc \notin Waiting \cup {"ending"},
             proc'[i].pc \notin Waiting \cup Looping \cup {"ending", "save"},
             intents' = intents, usage' = usage, world'[i].acted = world[i].acted,
             runs'[i].status = runs[i].status, runs'[i].refused = runs[i].refused,
             Blank(runs[i].log) => Blank(runs'[i].log),
             Blank(proc[i].mem) => Blank(proc'[i].mem),
             Permitted(i)', Receipted(i)'
      PROVE  Past(i)'
  <2>1. Told(i)
    BY <1>a, InAttempt DEF Told
  <2>2. Onward(i)
    BY <1>a DEF Onward, Looping
  <2>3. QED
    BY <1>a, <2>1, <2>2, PastInside
<1> USE DEF Waiting, Looping, Asking, At
<1>1. CASE SaveResult(i)
  <2>1. proc'[i].pc = "deliver" /\ proc'[i].mem = proc[i].mem
    BY <1>1, Moved DEF SaveResult
  <2>2. Permitted(i)' /\ Receipted(i)'
    BY <1>0, <1>1, <2>1 DEF SaveResult, Past, Permitted, Receipted
  <2>3. QED
    BY <1>1, <1>a, <2>1, <2>2 DEF SaveResult
<1>2. CASE StartSend(i)
  <2>1. proc'[i].pc = "handing" /\ proc'[i].mem = proc[i].mem
    BY <1>2, Moved DEF StartSend
  <2>2. send'[i] = "started" /\ UNCHANGED <<grants, tasks, intents>> /\ Valid(i)
    BY <1>0, <1>2 DEF StartSend, TypeOK
  <2>3. Permitted(i)'
    BY <2>2 DEF Permitted, Valid, Live
  <2>4. Receipted(i)'
    BY <2>1, <2>2 DEF Receipted
  <2>5. QED
    BY <1>2, <1>a, <2>1, <2>3, <2>4 DEF StartSend
<1>3. CASE HandOut(i)
  <2>1. /\ proc'[i].pc = "sending" /\ proc'[i].mem = Outcome!ResponseSending(proc[i].mem)
        /\ Touch(i, Outcome!ResponseSending(runs[i].log))
        /\ UNCHANGED <<intents, send, usage>> /\ proc[i].pc = "handing" /\ boot = "up"
    BY <1>0, <1>3 DEF HandOut, Go, TypeOK, Handlers
  <2>2. world'[i].acted = world[i].acted
    <3>1. PICK arrives \in BOOLEAN :
            world' = [world EXCEPT ![i].sent = @ + 1, ![i].arrived = @ \/ arrives]
      BY <1>3 DEF HandOut
    <3>2. world'[i].acted = world[i].acted
      BY <1>0, <3>1 DEF TypeOK, Worlds
    <3>3. QED
      BY <3>2
  <2>3. /\ Blank(runs[i].log) => Blank(Outcome!ResponseSending(runs[i].log))
        /\ Blank(proc[i].mem) => Blank(Outcome!ResponseSending(proc[i].mem))
    BY <1>0 DEF Blank, Outcome!ResponseSending, Outcome!Outcomes
  <2>4. send[i] = "started"
    BY <1>0, <2>1 DEF Sound, Handed
  <2>5. Permitted(i)' /\ Receipted(i)'
    BY <2>1, <2>4 DEF Permitted, Receipted
  <2>6. QED
    BY <1>a, <2>1, <2>2, <2>3, <2>5, Emitted
<1>4. ASSUME NEW status \in {"succeeded", "failed", "uncertain"}, AnswerSend(i, status)
      PROVE  Past(i)'
  <2>1. proc'[i].pc = "acked" /\ proc'[i].mem = proc[i].mem
    BY <1>4, Moved DEF AnswerSend
  <2>2. Permitted(i)' /\ Receipted(i)'
    BY <1>0, <1>4, <2>1 DEF AnswerSend, Permitted, Receipted, TypeOK
  <2>3. QED
    BY <1>4, <1>a, <2>1, <2>2 DEF AnswerSend
<1>5. CASE AppendNative(i)
  <2>1. CASE To(i, "opening") /\ world' = [world EXCEPT ![i] = Line(world[i])]
    <3>1. world'[i].arrived /\ world'[i].acted = world[i].acted
      BY <1>0, <2>1 DEF Line, TypeOK, Worlds
    <3>2. proc'[i].pc = "opening" /\ proc'[i].mem = proc[i].mem
      BY <2>1, Moved
    <3>3. send[i] \in {"none", "started"} /\ send' = send
      BY <1>0, <1>5 DEF AppendNative, Past, Receipted
    <3>4. Permitted(i)' /\ Receipted(i)'
      BY <3>1, <3>2, <3>3 DEF Permitted, Receipted
    <3>5. QED
      BY <1>5, <1>a, <3>1, <3>2, <3>4 DEF AppendNative
  <2>2. CASE Stop(i, "failed") /\ world' = world
    BY <1>5, <2>2, Stopped, PastPlain DEF AppendNative, AtNative
  <2>3. QED
    BY <1>5, <2>1, <2>2 DEF AppendNative
<1>6. CASE OpenNative(i)
  <2>1. proc'[i].pc = "stamping" /\ proc'[i].mem = proc[i].mem
    BY <1>6, Moved DEF OpenNative
  <2>2. Permitted(i)' /\ Receipted(i)'
    BY <1>0, <1>6, <2>1 DEF OpenNative, Past, Permitted, Receipted, TypeOK
  <2>3. QED
    BY <1>6, <1>a, <2>1, <2>2 DEF OpenNative
<1>7. CASE StampNative(i)
  <2>1. proc'[i].pc = "acked" /\ proc'[i].mem = proc[i].mem
    BY <1>7, Moved DEF StampNative
  <2>2. Permitted(i)' /\ Receipted(i)'
    BY <1>0, <1>7, <2>1 DEF StampNative, Past, Permitted, Receipted, TypeOK
  <2>3. QED
    BY <1>7, <1>a, <2>1, <2>2 DEF StampNative
<1>8. QED
  BY <1>1, <1>2, <1>3, <1>4, <1>5, <1>6, <1>7

\* The decision to deliver and the report of the delivery keep the past: here an
\* outcome speaks of the message for the first time.
LEMMA PastReport ==
  ASSUME Inv, History, NEW i \in Intents, RunStep(i), Deliver(i) \/ ReportSend(i)
  PROVE  Past(i)'
<1>0. /\ TypeOK /\ proc[i] \in Handlers /\ Past(i) /\ Sound(i)
      /\ runs[i] \in RunRows /\ result[i] \in Results /\ send[i] \in OpStates
      /\ runs[i].log \in Outcome!Outcomes /\ proc[i].mem \in Outcome!Outcomes
      /\ intents[i].native \in BOOLEAN
  BY RowTypes, IntentFields DEF History
<1>a. proc[i].pc \in {"deliver", "acked"} /\ boot = "up"
      /\ UNCHANGED <<grants, tasks, intents, calls, send, result, usage, world, boot>>
  BY DEF Deliver, ReportSend, At
<1>b. Blank(runs[i].log) /\ Blank(proc[i].mem) /\ ~runs[i].refused
  BY <1>a, InAttempt DEF Waiting
<1>c. ASSUME NEW pc, NEW mem, Go(i, [proc[i] EXCEPT !.pc = pc, !.mem = mem])
      PROVE  proc'[i].pc = pc /\ proc'[i].mem = mem
  BY <1>0, <1>c DEF Go, TypeOK, Handlers
<1>d. ASSUME proc'[i].pc = "ending",
             Truthful(runs'[i].log, i), Truthful(proc'[i].mem, i),
             runs'[i].status = runs[i].status,
             runs'[i].refused =>
               /\ ~world[i].arrived /\ runs'[i].log.failure # "none"
               /\ proc'[i].mem.failure # "none"
      PROVE  Past(i)'
  <2>1. Onward(i) /\ Told(i)
    BY <1>a, <1>d DEF Onward, Told, Truthful, Waiting, Looping, Asking
  <2>2. Permitted(i)' /\ Receipted(i)'
    BY <1>0, <1>a, <1>d DEF Past, Permitted, Receipted
  <2>3. QED
    BY <1>a, <1>d, <2>1, <2>2, PastInside
<1> USE DEF Waiting, Looping, Asking
<1>1. CASE Deliver(i)
  <2>1. CASE UNCHANGED runs /\ \E status \in {"failed", "uncertain"} : Stop(i, status)
    BY <1>a, <2>1, Stopped, PastPlain DEF AtNative
  <2>2. CASE result[i] = "silent" /\ Emit(i, Outcome!Completed(runs[i].log))
             /\ Go(i, [proc[i] EXCEPT !.pc = "ending", !.mem = Outcome!Completed(@)])
    <3>1. /\ Outcome!Completed(runs[i].log).delivered = runs[i].log.delivered
          /\ Outcome!Completed(proc[i].mem).delivered = proc[i].mem.delivered
      BY <1>0 DEF Outcome!Completed, Outcome!Outcomes
    <3>2. /\ Truthful(Outcome!Completed(runs[i].log), i)
          /\ Truthful(Outcome!Completed(proc[i].mem), i)
      BY <1>b, <2>2, <3>1 DEF Truthful, Blank
    <3>3. /\ proc'[i].pc = "ending" /\ proc'[i].mem = Outcome!Completed(proc[i].mem)
      BY <1>c, <2>2
    <3>4. QED
      BY <1>b, <1>d, <2>2, <3>2, <3>3, Emitted
  <2>3. CASE send[i] = "succeeded"
             /\ Emit(i, Outcome!ResponseSent(runs[i].log, intents[i].native, {}))
             /\ Go(i, [proc[i] EXCEPT !.pc = "ending",
                         !.mem = Outcome!ResponseSent(@, intents[i].native, {})])
    <3> DEFINE Sent(o) == Outcome!ResponseSent(o, intents[i].native, {})
    <3>1. Sent(runs[i].log).quiet = runs[i].log.quiet /\ Sent(proc[i].mem).quiet = proc[i].mem.quiet
      BY <1>0 DEF Outcome!ResponseSent, Outcome!Outcomes
    <3>2. proc'[i].pc = "ending" /\ proc'[i].mem = Sent(proc[i].mem)
      BY <1>c, <2>3
    <3>3. Emit(i, Sent(runs[i].log))
      BY <2>3
    <3>4. world[i].arrived
      BY <1>0, <2>3 DEF Past, Receipted
    <3> HIDE DEF Sent
    <3>5. Truthful(Sent(runs[i].log), i) /\ Truthful(Sent(proc[i].mem), i)
      BY <1>b, <3>1, <3>4 DEF Truthful, Blank
    <3>6. QED
      BY <1>b, <1>d, <3>2, <3>3, <3>5, Emitted
  <2>4. CASE Valid(i) /\ Sendable(i) /\ runs' = runs
             /\ To(i, IF intents[i].native THEN "native" ELSE "permit")
    <3>1. /\ proc'[i].pc = (IF intents[i].native THEN "native" ELSE "permit")
          /\ proc'[i].mem = proc[i].mem
      BY <2>4, Moved
    <3>2. Permitted(i)'
      BY <1>a, <2>4 DEF Permitted, Valid, Live
    <3>3. Receipted(i)'
      BY <1>0, <1>a, <2>4, <3>1 DEF Past, Receipted, Sendable
    <3>4. Onward(i) /\ Told(i)
      BY <1>a, <1>b, <2>4, <3>1 DEF Onward, Told
    <3>5. QED
      BY <2>4, <3>2, <3>3, <3>4, PastInside
  <2>5. QED
    BY <1>1, <2>1, <2>2, <2>3, <2>4 DEF Deliver
<1>2. CASE ReportSend(i)
  <2> DEFINE Said(o) == SendObserved(o, send[i], intents[i].native)
  <2>1. send[i] \in {"succeeded", "failed", "uncertain"}
    BY <1>0, <1>2 DEF ReportSend, At, Sound, Handed
  <2>2. /\ runs'[i].log = Said(runs[i].log) /\ runs'[i].status = runs[i].status
        /\ runs'[i].refused = (runs[i].refused \/ send[i] = "failed")
    BY <1>0, <1>2 DEF ReportSend, TypeOK, RunRows
  <2>3. proc'[i].pc = "ending" /\ proc'[i].mem = Said(proc[i].mem)
    BY <1>2, <1>c DEF ReportSend
  <2>4. ASSUME NEW o \in Outcome!Outcomes, Blank(o)
        PROVE  Truthful(Said(o), i) /\ (send[i] = "failed" => Said(o).failure # "none")
    BY <1>0, <2>1, <2>4, ReceiptSays DEF Truthful, Blank, Past, Receipted
  <2>5. send[i] = "failed" => ~world[i].arrived
    BY <1>0 DEF Past, Receipted
  <2> HIDE DEF Said
  <2>6. QED
    BY <1>0, <1>b, <1>d, <2>2, <2>3, <2>4, <2>5
<1>3. QED
  BY <1>1, <1>2

\* Every step of the pump and of a handler keeps the past of its request.
LEMMA PastOwn ==
  ASSUME Inv, History, NEW i \in Intents, Pump(i) \/ RunStep(i)
  PROVE  Past(i)'
BY PastEnds, PastBegin, PastModel, PastTool, PastDelivery, PastReport
DEF Pump, RunStep, AgentStep, DeliveryStep

----------------------------------------------------------------------------
(* The host, time, crashes and the recovery.                               *)

\* A grant that was issued stays issued, a dead one stays dead.
Ageing ==
  \A g \in Grants :
    /\ grants[g].status # "unissued" => grants'[g].status # "unissued"
    /\ Dead(g) => Dead(g)'

\* The host touches grants, tasks and intents between two stretches of handlers.
LEMMA PastHosted ==
  ASSUME Inv, History, turn = 0, Ageing,
         UNCHANGED <<boot, proc, runs, send, result, world, usage>>,
         \A i \in Intents :
           /\ intents'[i].origin = intents[i].origin /\ intents'[i].grant = intents[i].grant
           /\ intents'[i].state = "absent" <=> intents[i].state = "absent"
           /\ intents'[i].state = "collected" => intents[i].state = "collected"
           /\ intents[i].state = "absent" => intents'[i] = intents[i],
         NEW j \in Intents
  PROVE  Past(j)'
<1>1. /\ Past(j) /\ proc[j].pc \notin SyncPoints /\ intents[j].grant \in Grants
  BY Resting, RowTypes, IntentFields DEF History, Intents
<1>2. Judged(j)' /\ Kept(j)' /\ Receipted(j)' /\ Reported(j)'
  BY <1>1 DEF Past, Judged, Kept, Receipted, Reported, Truthful
<1>3. Permitted(j)' /\ Rejected(j)'
  BY <1>1 DEF Past, Permitted, Rejected, Unfinished, SyncPoints
<1>4. Granted(j)'
  BY <1>1 DEF Past, Granted, SyncPoints, Ageing
<1>5. Retried(j)'
  BY <1>1 DEF Past, Retried, Ageing
<1>6. QED
  BY <1>2, <1>3, <1>4, <1>5 DEF Past

\* Accepting a request keeps the past of all: the records of a predecessor that
\* the new request inherits are those of an ended run.
LEMMA PastAccept ==
  ASSUME Inv, History, turn = 0, boot = "up",
         NEW g \in Grants, NEW t \in Tasks \cup {None}, NEW k \in Keys,
         NEW kind \in {"agent", "reminder"}, NEW native \in BOOLEAN,
         NEW origin \in {0} \cup Intents, Accept(g, t, k, kind, native, origin),
         origin # 0 =>
           /\ intents[origin].state # "absent" /\ intents[origin].grant = g
           /\ result[origin] # "none",
         NEW j \in Intents
  PROVE  Past(j)'
<1>1. PICK i \in Intents : Accept(g, t, k, kind, native, origin)!(i)
  BY DEF Accept
<1>2. /\ UNCHANGED <<grants, boot, proc, send, result, world>>
      /\ intents[i].state = "absent" /\ Live(g)
  BY <1>1
<1>3. /\ intents'[i].state = "queued" /\ intents'[i].grant = g /\ intents'[i].origin = origin
      /\ \A l \in Intents \ {i} :
           intents'[l] = intents[l] /\ runs'[l] = runs[l] /\ usage'[l] = usage[l]
  BY <1>1 DEF Inv, TypeOK
<1>4. /\ Past(j) /\ proc[j].pc \notin SyncPoints /\ intents[j].grant \in Grants
      /\ intents[j] \in IntentRows
  BY Resting, RowTypes, IntentFields DEF History, Intents
<1>5. CASE j # i
  <2>1. Judged(j)' /\ Kept(j)' /\ Permitted(j)' /\ Receipted(j)' /\ Reported(j)'
    BY <1>2, <1>3, <1>4, <1>5
    DEF Past, Judged, Kept, Permitted, Receipted, Reported, Truthful, SyncPoints
  <2>2. Rejected(j)' /\ Granted(j)'
    BY <1>2, <1>3, <1>4, <1>5 DEF Past, Rejected, Unfinished, Granted, Dead, Live, SyncPoints
  <2>3. Retried(j)'
    <3>1. intents[j].origin # 0 => intents[j].origin # i
      BY <1>2, <1>4 DEF Past, Retried
    <3>2. QED
      BY <1>2, <1>3, <1>4, <1>5, <3>1 DEF Past, Retried, Dead, Live
  <2>4. QED
    BY <2>1, <2>2, <2>3 DEF Past
<1>6. CASE j = i
  <2>1. /\ proc[i].pc = "idle" /\ world[i] = NewWorld /\ send[i] = "none"
        /\ result[i] = "none" /\ runs[i] = NewRun /\ usage[i].models = 0
    BY <1>2, <1>4, <1>6 DEF Past, Kept, Inv, Sound, Untouched, NoOperation
  <2>2. \/ runs'[i] = NewRun /\ usage'[i].models = 0
        \/ \E l \in Predecessors(origin, k) :
             runs'[i] = runs[l] /\ usage'[i] = usage[l]
    <3>1. CASE UNCHANGED <<runs, usage>>
      BY <2>1, <3>1
    <3>2. CASE ~UNCHANGED <<runs, usage>>
      BY <1>1, <3>2 DEF Inv, TypeOK
    <3>3. QED
      BY <3>1, <3>2
  <2>3. /\ runs'[i].status # "running"
        /\ runs'[i].status = "accepted" => Blank(runs'[i].log)
        /\ runs'[i].refused => runs'[i].status \in Terminal
        /\ origin # 0 => usage'[i].models = 0
    <3>1. CASE runs'[i] = NewRun /\ usage'[i].models = 0
      BY <3>1 DEF NewRun, Blank, Outcome!NewOutcome
    <3>2. ASSUME NEW l \in Predecessors(origin, k),
                 runs'[i] = runs[l], usage'[i] = usage[l]
          PROVE  <2>3
      <4>1. /\ l \in Intents /\ intents[l].state = "collected" /\ intents[l].origin = origin
            /\ Past(l) /\ Sound(l)
        BY <3>2 DEF Predecessors, History, Inv
      <4>2. proc[l].pc \in {"idle", "ended"}
        BY <4>1 DEF Sound, Owned
      <4>3. runs[l].status # "running"
        BY <4>1, <4>2 DEF Past, Judged, Waiting
      <4>4. runs[l].refused => runs[l].status \in Terminal
        BY <4>1, <4>2 DEF Past, Rejected
      <4>5. runs[l].status = "accepted" => Blank(runs[l].log)
        BY <4>1 DEF Past, Reported
      <4>6. origin # 0 => usage[l].models = 0
        BY <4>1 DEF Past, Retried
      <4>7. QED
        BY <3>2, <4>3, <4>4, <4>5, <4>6
    <3>3. QED
      BY <2>2, <3>1, <3>2
  <2>4. Judged(i)' /\ Kept(i)' /\ Permitted(i)' /\ Receipted(i)' /\ Reported(i)'
    BY <1>2, <1>3, <2>1, <2>3
    DEF Judged, Kept, Permitted, Receipted, Reported, NewWorld, Waiting, Asking
  <2>5. Rejected(i)' /\ Granted(i)'
    BY <1>2, <1>3, <2>1, <2>3 DEF Rejected, Granted, NewWorld, Live
  <2>6. Retried(i)'
    BY <1>2, <1>3, <2>1, <2>3 DEF Retried, NewWorld, Looping, Asking
  <2>7. QED
    BY <1>6, <2>4, <2>5, <2>6 DEF Past
<1>7. QED
  BY <1>5, <1>6

\* Collecting keeps the past: what goes is settled, decided and under a dead grant.
LEMMA PastCollect ==
  ASSUME Inv, History, Collect, NEW j \in Intents
  PROVE  Past(j)'
<1>1. /\ Past(j) /\ Sound(j) /\ proc[j].pc \notin SyncPoints /\ intents[j] \in IntentRows
  BY Resting, RowTypes DEF History, Intents, Collect, Free
<1>2. UNCHANGED <<grants, runs, usage, boot, proc, world>>
  BY DEF Collect
<1>3. ASSUME NEW l \in Intents
      PROVE  /\ intents'[l].origin = intents[l].origin /\ intents'[l].grant = intents[l].grant
             /\ ~Collectable(l) =>
                  intents'[l] = intents[l] /\ send'[l] = send[l] /\ result'[l] = result[l]
             /\ Collectable(l) =>
                  /\ intents'[l].state = "collected" /\ send'[l] = "none"
                  /\ result'[l] = "none"
                  /\ intents[l].state \in {"done", "blocked"} /\ Dead(intents[l].grant)
  <2>1. intents[l] \in IntentRows /\ Past(l)
    BY RowTypes DEF History
  <2>2. Collectable(l) => intents[l].state \in {"done", "blocked"} /\ Dead(intents[l].grant)
    BY <2>1 DEF Collectable, Dead, Live, Past, Granted
  <2>3. QED
    BY <2>1, <2>2 DEF Collect, IntentRows
<1>4. Collectable(j) => proc[j].pc \in {"idle", "ended"}
  BY <1>1 DEF Sound, Owned, Collectable
<1>5. Judged(j)' /\ Kept(j)' /\ Permitted(j)'
  BY <1>1, <1>2, <1>3, <1>4 DEF Past, Judged, Kept, Permitted, SyncPoints, Asking
<1>6. Receipted(j)' /\ Reported(j)'
  BY <1>1, <1>2, <1>3, <1>4 DEF Past, Receipted, Reported, Truthful, Waiting
<1>7. Rejected(j)' /\ Granted(j)'
  BY <1>1, <1>2, <1>3 DEF Past, Rejected, Unfinished, Granted, Dead, Live
<1>8. Retried(j)'
  BY <1>1, <1>2, <1>3 DEF Past, Retried, Dead, Live
<1>9. QED
  BY <1>5, <1>6, <1>7, <1>8 DEF Past

\* The operations of the host, and time, keep the past.
LEMMA PastHost ==
  ASSUME Inv, History, Host \/ Tick, NEW j \in Intents
  PROVE  Past(j)'
<1>0. TypeOK /\ History
  BY DEF Inv
<1>1. ASSUME NEW g \in Grants, IssueGrant(g) PROVE Past(j)'
  <2>1. Ageing
    BY <1>0, <1>1 DEF IssueGrant, Ageing, Dead, Live, TypeOK
  <2>2. QED
    BY <1>1, <2>1, PastHosted DEF IssueGrant, Free
<1>2. ASSUME NEW g \in Grants, RevokeGrant(g) PROVE Past(j)'
  <2>1. Ageing
    BY <1>0, <1>2 DEF RevokeGrant, Ageing, Dead, Live, TypeOK, GrantRows
  <2>2. ASSUME NEW i \in Intents
        PROVE  /\ intents'[i].origin = intents[i].origin /\ intents'[i].grant = intents[i].grant
               /\ intents'[i].state = "absent" <=> intents[i].state = "absent"
               /\ intents'[i].state = "collected" => intents[i].state = "collected"
               /\ intents[i].state = "absent" => intents'[i] = intents[i]
    BY <1>0, <1>2 DEF RevokeGrant, TypeOK, IntentRows
  <2>3. QED
    BY <1>2, <2>1, <2>2, PastHosted DEF RevokeGrant, Free
<1>3. ASSUME NEW t \in Tasks, NEW status \in {"open", "paused", "cancelled"},
             ControlTask(t, status)
      PROVE  Past(j)'
  BY <1>0, <1>3, PastHosted DEF ControlTask, Free, Ageing, Dead, Live
<1>4. ASSUME NEW i \in Intents, Supersede(i) PROVE Past(j)'
  <2>1. Ageing
    BY <1>4 DEF Supersede, Ageing, Dead, Live
  <2>2. ASSUME NEW l \in Intents
        PROVE  /\ intents'[l].origin = intents[l].origin /\ intents'[l].grant = intents[l].grant
               /\ intents'[l].state = intents[l].state
               /\ intents[l].state = "absent" => intents'[l] = intents[l]
    BY <1>0, <1>4 DEF Supersede, TypeOK, IntentRows, Pending, Rows
  <2>3. QED
    BY <1>4, <2>1, <2>2, PastHosted DEF Supersede, Free
<1>5. CASE Submit
  BY <1>5, PastAccept, ExecutionAssumption DEF Submit, Free, Intents
<1>6. ASSUME NEW o \in Intents, NEW k \in Keys, RetryDelivery(o, k) PROVE Past(j)'
  <2>1. /\ intents[o].grant \in Grants /\ intents[o].kind \in {"agent", "reminder"}
        /\ intents[o].native \in BOOLEAN
    BY <1>0, IntentFields DEF TypeOK
  <2>2. /\ Accept(intents[o].grant, None, k, intents[o].kind, intents[o].native, o)
        /\ turn = 0 /\ boot = "up" /\ intents[o].state # "absent" /\ result[o] # "none"
    BY <1>6 DEF RetryDelivery, Free, Rows
  <2>3. QED
    BY <2>1, <2>2, PastAccept
<1>7. CASE Collect
  BY <1>7, PastCollect
<1>8. CASE Tick
  <2>1. ASSUME NEW g \in Grants
        PROVE  /\ grants'[g].status = grants[g].status
               /\ grants[g].life <= 0 => grants'[g].life <= 0
    <3> DEFINE life == Less(grants[g].life)
    <3>1. grants[g] \in GrantRows /\ (grants[g].life <= 0 => life <= 0)
      BY <1>0, ExecutionAssumption DEF Less, TypeOK, GrantRows
    <3>2. grants'[g] = [grants[g] EXCEPT !.life = life]
      BY <1>8 DEF Tick
    <3> HIDE DEF life
    <3>3. QED
      BY <3>1, <3>2 DEF GrantRows
  <2>2. \A g \in Grants : grants[g].life \in Int /\ grants'[g].life \in Int
    BY <1>0, <1>8, TypeRestart, ExecutionAssumption DEF TypeOK, GrantRows
  <2>3. Ageing
    BY <2>1, <2>2 DEF Ageing, Dead, Live
  <2>4. ASSUME NEW i \in Intents
        PROVE  /\ intents'[i].origin = intents[i].origin /\ intents'[i].grant = intents[i].grant
               /\ intents'[i].state = intents[i].state
               /\ intents[i].state = "absent" => intents'[i] = intents[i]
    <3> DEFINE wait == Less(intents[i].wait)
               age == Older(intents[i].age)
    <3>1. \/ intents'[i] = intents[i]
          \/ /\ intents'[i] = [intents[i] EXCEPT !.wait = wait, !.age = age]
             /\ intents[i].state # "absent"
      BY <1>8 DEF Tick, Rows
    <3> HIDE DEF wait, age
    <3>2. QED
      BY <1>0, <3>1 DEF TypeOK, IntentRows
  <2>5. QED
    BY <1>8, <2>3, <2>4, PastHosted DEF Tick
<1>9. QED
  BY <1>1, <1>2, <1>3, <1>4, <1>5, <1>6, <1>7, <1>8 DEF Host

\* Appending receipts to the trace adds only what is true.
LEMMA PastReconcile ==
  ASSUME Inv, History, Reconcile, NEW j \in Intents
  PROVE  Past(j)'
<1>1. /\ Past(j) /\ Sound(j) /\ runs[j] \in RunRows /\ send[j] \in OpStates
      /\ runs[j].log \in Outcome!Outcomes /\ intents[j].native \in BOOLEAN
  BY RowTypes, IntentFields DEF History
<1>2. /\ UNCHANGED <<grants, tasks, intents, calls, send, result, usage, proc, world>>
      /\ boot = "down" /\ boot' = "reconciled" /\ proc[j].pc = "idle"
  BY <1>1 DEF Reconcile, Sound, Owned
<1> DEFINE answered == [runs[j].log EXCEPT !.pending = @ \ Appended(j)]
           sent == SendAppended(answered, j)
           log == IF result[j] = "silent" THEN Outcome!Completed(sent) ELSE sent
<1>3. /\ answered \in Outcome!Outcomes /\ answered.delivered = runs[j].log.delivered
      /\ answered.quiet = runs[j].log.quiet /\ answered.failure = runs[j].log.failure
  BY <1>1 DEF Outcome!Outcomes
<1> HIDE DEF answered
<1>4. /\ sent \in Outcome!Outcomes /\ sent.quiet = runs[j].log.quiet
      /\ sent.delivered => runs[j].log.delivered \/ send[j] = "succeeded"
      /\ send[j] = "none" => sent.delivered = runs[j].log.delivered
      /\ send[j] = "failed" \/ runs[j].log.failure # "none" => sent.failure # "none"
  BY <1>1, <1>3, ReceiptSays, SendObservedType DEF SendAppended
<1> HIDE DEF sent
<1>5. /\ log.delivered = sent.delivered /\ log.failure = sent.failure
      /\ log.quiet => sent.quiet \/ result[j] = "silent"
      /\ result[j] # "silent" => log.quiet = sent.quiet
  BY <1>4 DEF Outcome!Completed, Outcome!Outcomes
<1> HIDE DEF log
<1>6. /\ runs'[j].status = runs[j].status
      /\ Reconcilable(j) => /\ runs'[j].log = log
                            /\ runs'[j].refused = (runs[j].refused \/ send[j] = "failed")
      /\ ~Reconcilable(j) => runs'[j] = runs[j]
  <2>1. Reconcilable(j) => runs'[j] = Reconciled(j)
    BY DEF Reconcile
  <2>2. /\ Reconciled(j).status = runs[j].status /\ Reconciled(j).log = log
        /\ Reconciled(j).refused = (runs[j].refused \/ send[j] = "failed")
    BY <1>1 DEF Reconciled, RunRows, log, sent, answered
  <2>3. ~Reconcilable(j) => runs'[j] = runs[j]
    BY DEF Reconcile
  <2>4. QED
    BY <2>1, <2>2, <2>3
<1>7. Judged(j)' /\ Kept(j)' /\ Permitted(j)' /\ Receipted(j)'
  <2>1. Reconcilable(j) => intents[j].state # "absent"
    BY DEF Reconcilable, Pending, Rows
  <2>2. QED
    BY <1>1, <1>2, <1>6, <2>1 DEF Past, Judged, Kept, Permitted, Receipted, Waiting
<1>8. Reported(j)'
  BY <1>1, <1>2, <1>4, <1>5, <1>6
  DEF Past, Reported, Receipted, Truthful, Blank, Waiting
<1>9. Rejected(j)'
  BY <1>1, <1>2, <1>4, <1>5, <1>6
  DEF Past, Rejected, Receipted, Reconcilable, Unfinished, Terminal
<1>10. Granted(j)' /\ Retried(j)'
  BY <1>1, <1>2 DEF Past, Granted, Retried, Dead, Live
<1>11. QED
  BY <1>7, <1>8, <1>9, <1>10 DEF Past

\* A crash, the verdicts of the recovery and its last pass keep the past.
LEMMA PastRestart ==
  ASSUME Inv, History, Crash \/ Restart, NEW j \in Intents
  PROVE  Past(j)'
<1>0. /\ Past(j) /\ Sound(j) /\ runs[j] \in RunRows /\ TypeOK
      /\ runs[j].log \in Outcome!Outcomes /\ intents[j] \in IntentRows
  BY RowTypes DEF History
<1>1. CASE Crash
  <2>1. /\ UNCHANGED <<grants, tasks, intents, runs, calls, send, result, usage, world>>
        /\ boot' = "down" /\ proc'[j] = IdleProc
    BY <1>1 DEF Crash, db
  <2>2. proc'[j].pc = "idle"
    BY <2>1 DEF IdleProc
  <2>3. Judged(j)' /\ Kept(j)' /\ Permitted(j)' /\ Receipted(j)' /\ Reported(j)'
    BY <1>0, <2>1, <2>2
    DEF Past, Judged, Kept, Permitted, Receipted, Reported, Truthful, Waiting, Asking
  <2>4. Rejected(j)'
    BY <1>0, <2>1 DEF Past, Rejected, Unfinished
  <2>5. Granted(j)' /\ Retried(j)'
    BY <1>0, <2>1, <2>2 DEF Past, Granted, Retried, Dead, Live, Looping, Asking
  <2>6. QED
    BY <2>3, <2>4, <2>5 DEF Past
<1>2. CASE Reconcile
  BY <1>2, PastReconcile
<1>3. CASE RecoverRuns
  <2> DEFINE verdict == Outcome!Verdict(runs[j].log)
  <2>1. /\ verdict \notin {"accepted", "running"}
        /\ runs[j].log.failure # "none" => verdict \in Terminal
        /\ verdict = "succeeded" => runs[j].log.delivered \/ runs[j].log.quiet
    BY <1>0, VerdictSays
  <2> HIDE DEF verdict
  <2>2. /\ UNCHANGED <<grants, tasks, intents, calls, send, result, usage, proc, world>>
        /\ boot = "reconciled" /\ boot' = "recovered" /\ proc[j].pc = "idle"
    BY <1>0, <1>3 DEF RecoverRuns, Sound, Owned
  <2>3. /\ runs'[j].refused = runs[j].refused /\ runs'[j].log = runs[j].log
        /\ runs'[j].status = IF intents[j].state # "absent" /\ Unfinished(j) THEN verdict
                             ELSE runs[j].status
        /\ intents[j].state = "absent" => runs'[j] = runs[j]
    BY <1>0, <1>3 DEF RecoverRuns, RunRows, verdict
  <2>4. intents[j].state = "absent" => runs[j].status = "accepted" /\ ~runs[j].refused
    BY <1>0 DEF Past, Kept, NewRun
  <2>5. Judged(j)' /\ Kept(j)' /\ Permitted(j)' /\ Receipted(j)'
    BY <1>0, <2>1, <2>2, <2>3, <2>4
    DEF Past, Judged, Kept, Permitted, Receipted, Waiting, Unfinished
  <2>6. Reported(j)'
    BY <1>0, <2>1, <2>2, <2>3, <2>4
    DEF Past, Reported, Truthful, Blank, Waiting, Unfinished
  <2>7. Rejected(j)'
    BY <1>0, <2>1, <2>2, <2>3, <2>4 DEF Past, Rejected, Unfinished, Terminal
  <2>8. Granted(j)' /\ Retried(j)'
    BY <1>0, <2>2 DEF Past, Granted, Retried, Dead, Live
  <2>9. QED
    BY <2>5, <2>6, <2>7, <2>8 DEF Past
<1>4. CASE RecoverIntents
  <2>1. /\ UNCHANGED <<grants, tasks, runs, calls, send, result, usage, proc, turn, world>>
        /\ boot = "recovered" /\ boot' = "up" /\ proc[j].pc = "idle"
    BY <1>0, <1>4 DEF RecoverIntents, Sound, Owned
  <2>2. \A i \in Intents :
          /\ intents'[i].origin = intents[i].origin /\ intents'[i].grant = intents[i].grant
          /\ intents'[i].state = "absent" <=> intents[i].state = "absent"
          /\ intents'[i].state = "collected" => intents[i].state = "collected"
          /\ intents[i].state = "absent" => intents'[i] = intents[i]
    <3>1. \A i \in Intents : RecoveredState(i) \in {"blocked", "done", "queued"}
      BY DEF RecoveredState
    <3>2. QED
      BY <1>0, <1>4, <3>1 DEF RecoverIntents, TypeOK, IntentRows, Pending, Rows
  <2>3. Judged(j)' /\ Kept(j)' /\ Permitted(j)' /\ Receipted(j)' /\ Reported(j)'
    BY <1>0, <2>1, <2>2
    DEF Past, Judged, Kept, Permitted, Receipted, Reported, Truthful, Waiting, Asking
  <2>4. Rejected(j)'
    BY <1>0, <2>1 DEF Past, Rejected
  <2>5. Granted(j)' /\ Retried(j)'
    BY <1>0, <2>1, <2>2 DEF Past, Granted, Retried, Dead, Live
  <2>6. QED
    BY <2>3, <2>4, <2>5 DEF Past
<1>5. QED
  BY <1>1, <1>2, <1>3, <1>4 DEF Restart

----------------------------------------------------------------------------
\* An empty database has no past.
LEMMA HistoryInit == ASSUME Init PROVE History
<1> SUFFICES ASSUME NEW i \in Intents PROVE Past(i)
  BY DEF History
<1>1. /\ intents[i] = NewIntent /\ runs[i] = NewRun /\ send[i] = "none"
      /\ result[i] = "none" /\ usage[i].models = 0 /\ proc[i] = IdleProc
      /\ world[i] = NewWorld
  BY DEF Init
<1>2. proc[i].pc = "idle" /\ intents[i].origin = 0 /\ intents[i].state = "absent"
  BY <1>1 DEF IdleProc, NewIntent
<1>3. runs[i].status = "accepted" /\ Blank(runs[i].log) /\ ~runs[i].refused
  BY <1>1 DEF NewRun, Blank, Outcome!NewOutcome
<1>4. Judged(i) /\ Kept(i) /\ Permitted(i) /\ Receipted(i) /\ Reported(i)
  BY <1>1, <1>2, <1>3 DEF Judged, Kept, Permitted, Receipted, Reported, Waiting, Asking
<1>5. Rejected(i) /\ Granted(i) /\ Retried(i)
  BY <1>2, <1>3 DEF Rejected, Granted, Retried
<1>6. QED
  BY <1>4, <1>5 DEF Past

\* Every step keeps the past of every request.
LEMMA HistoryStep ==
  ASSUME Inv, History, [Next]_vars
  PROVE  History'
<1> SUFFICES ASSUME NEW j \in Intents PROVE Past(j)'
  BY DEF History
<1>1. CASE UNCHANGED vars
  <2>1. Past(j) /\ UNCHANGED <<db, boot, proc, turn, world>>
    BY <1>1 DEF vars, History
  <2>2. Judged(j)' /\ Kept(j)' /\ Permitted(j)' /\ Receipted(j)' /\ Reported(j)'
    BY <2>1 DEF db, Past, Judged, Kept, Permitted, Valid, Live, Receipted, Reported, Truthful
  <2>3. Rejected(j)' /\ Granted(j)' /\ Retried(j)'
    BY <2>1 DEF db, Past, Rejected, Unfinished, Granted, Retried, Dead, Live
  <2>4. QED
    BY <2>2, <2>3 DEF Past
<1>2. CASE Host \/ Tick
  BY <1>2, PastHost
<1>3. CASE Crash \/ Restart
  BY <1>3, PastRestart
<1>4. ASSUME NEW i \in Intents, Pump(i) \/ RunStep(i) PROVE Past(j)'
  BY <1>4, PastOthers, PastOwn
<1>5. QED
  BY <1>1, <1>2, <1>3, <1>4 DEF Next

\* The records are true of the past in every behaviour of the queue: what a
\* trace, a receipt, a grant or a retry says has happened (store.ts:703,
\* sqlite-store.ts:339, delivery.ts:62).
THEOREM HistoryHolds == Spec => []History
<1>1. Init => History
  BY HistoryInit
<1>2. Inv /\ History /\ [Next]_vars => History'
  BY HistoryStep
<1>3. QED
  BY <1>1, <1>2, Invariance, PTL DEF Spec

\* A run recorded as succeeded with a message has delivered it, and a run with a
\* confirmed failure to send has not (sqlite-store.ts:339, store.ts:576).
THEOREM VerdictMatchesWorldHolds == Spec => []VerdictMatchesWorld
<1>1. History => VerdictMatchesWorld
  BY DEF History, Past, Reported, Rejected, VerdictMatchesWorld, Rows
<1>2. QED
  BY <1>1, HistoryHolds, PTL

\* The retry of a delivery asks no model and calls no tool (store.ts:590).
THEOREM RetryOnlyDeliversHolds == Spec => []RetryOnlyDelivers
<1>1. History => RetryOnlyDelivers
  BY DEF History, Past, Retried, RetryOnlyDelivers
<1>2. QED
  BY <1>1, HistoryHolds, PTL

----------------------------------------------------------------------------
(* What is final, and what is authorized: properties of steps.             *)

\* The steps that emit, report or end belong to an attempt.
LEMMA InsideAttempt ==
  ASSUME NEW i \in Intents, AgentStep(i) \/ DeliveryStep(i) \/ EndRun(i)
  PROVE  proc[i].pc \notin Waiting /\ boot = "up"
<1> USE DEF Waiting, At
<1>1. CASE AgentStep(i)
  BY <1>1 DEF AgentStep, StartModel, ModelRefused, ReplyText, Defer, Deadline,
     ReplyFailed, ToolRefused, CallTool, Choosing, OpenTool, DenyTool, RunExternal, RunLocal,
     AnswerTool, CloseTool
<1>2. CASE DeliveryStep(i)
  BY <1>2 DEF DeliveryStep, SaveResult, Deliver, PermitRefused, StartSend, HandOut,
     AnswerSend, AppendNative, OpenNative, StampNative, ReportSend
<1>3. CASE EndRun(i)
  BY <1>3 DEF EndRun
<1>4. QED
  BY <1>1, <1>2, <1>3

\* What accept() leaves of the requests that were accepted before.
LEMMA AcceptKeeps ==
  ASSUME Inv, NEW g \in Grants, NEW t \in Tasks \cup {None}, NEW k \in Keys,
         NEW kind \in {"agent", "reminder"}, NEW native \in BOOLEAN,
         NEW origin \in {0} \cup Intents, Accept(g, t, k, kind, native, origin),
         NEW i \in Intents, intents[i].state # "absent"
  PROVE  /\ intents'[i] = intents[i] /\ runs'[i] = runs[i] /\ usage'[i] = usage[i]
         /\ result'[i] = result[i] /\ world' = world
<1>1. PICK l \in Intents : Accept(g, t, k, kind, native, origin)!(l)
  BY DEF Accept
<1>2. QED
  BY <1>1 DEF Inv, TypeOK

\* The host changes no verdict, no result, no usage and nothing in the world,
\* except that collecting forgets a result.
LEMMA HostKeeps ==
  ASSUME Inv, Host, NEW i \in Intents, intents[i].state # "absent"
  PROVE  /\ runs'[i] = runs[i] /\ usage'[i] = usage[i] /\ world' = world
         /\ intents'[i].state # "collected" => result'[i] = result[i]
<1>0. intents[i] \in IntentRows /\ TypeOK
  BY RowTypes
<1>1. CASE Submit
  BY <1>1, AcceptKeeps, ExecutionAssumption DEF Submit
<1>2. ASSUME NEW o \in Intents, NEW k \in Keys, RetryDelivery(o, k)
      PROVE  /\ runs'[i] = runs[i] /\ usage'[i] = usage[i] /\ world' = world
             /\ result'[i] = result[i]
  <2>1. /\ intents[o].grant \in Grants /\ intents[o].kind \in {"agent", "reminder"}
        /\ intents[o].native \in BOOLEAN
    BY <1>0, IntentFields DEF TypeOK
  <2>2. Accept(intents[o].grant, None, k, intents[o].kind, intents[o].native, o)
    BY <1>2 DEF RetryDelivery
  <2>3. QED
    BY <2>1, <2>2, AcceptKeeps
<1>3. CASE Collect
  <2>1. Collectable(i) => intents'[i].state = "collected"
    BY <1>0, <1>3 DEF Collect, IntentRows
  <2>2. QED
    BY <1>3, <2>1 DEF Collect
<1>4. CASE ~Submit /\ ~Collect /\ ~\E o \in Intents, k \in Keys : RetryDelivery(o, k)
  BY <1>4 DEF Host, IssueGrant, RevokeGrant, ControlTask, Supersede
<1>5. QED
  BY <1>1, <1>2, <1>3, <1>4

\* No step changes a terminal verdict.
LEMMA VerdictStep ==
  ASSUME Inv, History, [Next]_vars, NEW i \in Intents,
         intents[i].state # "absent", runs[i].status \in Terminal
  PROVE  runs'[i].status = runs[i].status
<1>0. Past(i) /\ runs[i] \in RunRows /\ TypeOK /\ runs[i].status # "running"
  BY RowTypes DEF History, Terminal
<1>1. CASE UNCHANGED vars
  BY <1>1 DEF vars, db
<1>2. CASE Host
  BY <1>2, HostKeeps
<1>3. CASE Tick \/ Crash \/ Restart
  <2>1. CASE Tick \/ Crash \/ RecoverIntents
    BY <2>1 DEF Tick, Crash, RecoverIntents, db
  <2>2. CASE Reconcile \/ RecoverRuns
    BY <1>0, <2>2 DEF Reconcile, Reconcilable, RecoverRuns, Unfinished, Terminal
  <2>3. QED
    BY <1>3, <2>1, <2>2 DEF Restart
<1>4. ASSUME NEW j \in Intents, Pump(j) \/ RunStep(j) PROVE runs'[i].status = runs[i].status
  <2>1. CASE j # i
    BY <1>4, <2>1, LocalPump, LocalAgent, LocalDelivery DEF Inv, RunStep, LocalTo
  <2>2. CASE j = i
    <3>1. CASE AgentStep(i) \/ DeliveryStep(i) \/ EndRun(i)
      BY <1>0, <3>1, InsideAttempt DEF Past, Judged
    <3>2. CASE Claim(i) \/ BeginRefused(i) \/ Finish(i)
      BY <3>2 DEF Claim, BeginRefused, Finish
    <3>3. CASE Refuse(i) \/ Begin(i)
      BY <1>0, <3>3 DEF Refuse, BlockRun, Begin, Startable, Terminal
    <3>4. QED
      BY <1>4, <2>2, <3>1, <3>2, <3>3 DEF Pump, RunStep
  <2>3. QED
    BY <2>1, <2>2
<1>5. QED
  BY <1>1, <1>2, <1>3, <1>4 DEF Next

\* No step changes a stored result, or spends anything once there is one.
LEMMA ResultStep ==
  ASSUME Inv, History, [Next]_vars, NEW i \in Intents,
         result[i] # "none", intents'[i].state # "collected"
  PROVE  result'[i] = result[i] /\ usage'[i] = usage[i]
<1>0. intents[i].state # "absent"
  BY DEF History, Past, Kept
<1>1. CASE UNCHANGED vars
  BY <1>1 DEF vars, db
<1>2. CASE Host
  BY <1>0, <1>2, HostKeeps
<1>3. CASE Tick \/ Crash \/ Restart
  BY <1>3 DEF Tick, Crash, Restart, Reconcile, RecoverRuns, RecoverIntents, db
<1>4. ASSUME NEW j \in Intents, Pump(j) \/ RunStep(j)
      PROVE  result'[i] = result[i] /\ usage'[i] = usage[i]
  <2>1. CASE j # i
    BY <1>4, <2>1, LocalPump, LocalAgent, LocalDelivery DEF Inv, RunStep, LocalTo
  <2>2. CASE j = i
    BY <1>4, <2>2, Lasts DEF Lasting
  <2>3. QED
    BY <2>1, <2>2
<1>5. QED
  BY <1>1, <1>2, <1>3, <1>4 DEF Next

\* No step of the agent loop asks for the session of a native delivery.
LEMMA AgentStaysOut ==
  ASSUME Inv, NEW i \in Intents, AgentStep(i)
  PROVE  ~SessionAwaited(i)'
<1>0. proc[i] \in Handlers /\ proc \in [Intents -> Handlers]
  BY RowTypes DEF TypeOK
<1> USE DEF SessionAwaited, Go, To, Stop, Handlers
<1>1. CASE StartModel(i)
  BY <1>0, <1>1 DEF StartModel
<1>2. CASE ModelRefused(i)
  BY <1>0, <1>2 DEF ModelRefused
<1>3. CASE ReplyText(i)
  BY <1>0, <1>3 DEF ReplyText
<1>4. CASE Defer(i)
  BY <1>0, <1>4 DEF Defer
<1>5. CASE Deadline(i)
  BY <1>0, <1>5 DEF Deadline
<1>6. ASSUME NEW retryable \in BOOLEAN, ReplyFailed(i, retryable) PROVE ~SessionAwaited(i)'
  BY <1>0, <1>6 DEF ReplyFailed
<1>7. CASE ToolRefused(i)
  BY <1>0, <1>7 DEF ToolRefused
<1>8. ASSUME NEW name \in Tools, CallTool(i, name) PROVE ~SessionAwaited(i)'
  <2> DEFINE p == [proc[i] EXCEPT !.seq = proc[i].seq + 1]
  <2>1. /\ DOMAIN p = DOMAIN proc[i]
        /\ \/ Go(i, [p EXCEPT !.pc = "opened"])
           \/ \E next \in {"calling", "model"} :
                Go(i, [p EXCEPT !.pc = next,
                         !.halted = @ \/ ~Replayed(i, proc[i].seq + 1, name)])
           \/ \E next \in {"calling", "model"} : Go(i, [p EXCEPT !.pc = next])
    <3> HIDE DEF SessionAwaited, Go
    <3>1. QED
      BY <1>8, Zenon DEF CallTool
  <2>2. "pc" \in DOMAIN p
    BY <1>0, <2>1
  <2> HIDE DEF p
  <2>3. ASSUME NEW q, q.pc # "native", Go(i, q) PROVE ~SessionAwaited(i)'
    BY <1>0, <2>3
  <2>4. \A pc, v : /\ [p EXCEPT !.pc = pc].pc = pc
                 /\ [p EXCEPT !.pc = pc, !.halted = v].pc = pc
                 /\ [p EXCEPT !.pc = pc, !.out = v].pc = pc
    BY <2>2
  <2>5. QED
    <3> HIDE DEF SessionAwaited, Go
    <3>1. ASSUME NEW pc \in {"opened", "calling", "model"}, Go(i, [p EXCEPT !.pc = pc])
          PROVE  ~SessionAwaited(i)'
      <4>1. [p EXCEPT !.pc = pc].pc # "native"
        BY <2>4
      <4>2. QED
        BY <2>3, <3>1, <4>1
    <3>2. ASSUME NEW pc \in {"calling", "model"}, NEW v, Go(i, [p EXCEPT !.pc = pc, !.halted = v])
          PROVE  ~SessionAwaited(i)'
      <4>1. [p EXCEPT !.pc = pc, !.halted = v].pc # "native"
        BY <2>4
      <4>2. QED
        BY <2>3, <3>2, <4>1
    <3>3. QED
      BY <2>1, <3>1, <3>2, Zenon
<1>9. CASE OpenTool(i)
  BY <1>0, <1>9 DEF OpenTool
<1>10. CASE DenyTool(i)
  BY <1>0, <1>10 DEF DenyTool
<1>11. CASE RunExternal(i)
  BY <1>0, <1>11 DEF RunExternal
<1>12. CASE RunLocal(i)
  BY <1>0, <1>12 DEF RunLocal
<1>13. CASE AnswerTool(i)
  <2>1. CASE To(i, "closed")
    BY <1>0, <2>1
  <2>2. ASSUME NEW recovery, Go(i, [proc[i] EXCEPT !.pc = "closed", !.recovery = recovery])
        PROVE  ~SessionAwaited(i)'
    BY <1>0, <2>2
  <2>3. QED
    <3> HIDE DEF SessionAwaited, Go, To
    <3>1. QED
      BY <1>13, <2>1, <2>2 DEF AnswerTool
<1>14. CASE CloseTool(i)
  <2> DEFINE n == proc[i].seq
             status == calls[i][n].state
             mem == IF status = "uncertain" THEN Outcome!Fail(proc[i].mem, "uncertain")
                    ELSE proc[i].mem
             p == [proc[i] EXCEPT !.recovery = FALSE,
                     !.halted = @ \/ status \in {"failed", "uncertain"},
                     !.mem = Observed(mem, n, status, proc[i].recovery)]
  <2>1. /\ DOMAIN p = DOMAIN proc[i]
        /\ \/ Go(i, [p EXCEPT !.pc = "save", !.out = result[i]])
           \/ \E next \in {"calling", "model"} : Go(i, [p EXCEPT !.pc = next])
    <3> HIDE DEF SessionAwaited, Go
    <3>1. QED
      BY <1>14, Zenon DEF CloseTool
  <2>2. "pc" \in DOMAIN p
    BY <1>0, <2>1
  <2> HIDE DEF p
  <2>3. ASSUME NEW q, q.pc # "native", Go(i, q) PROVE ~SessionAwaited(i)'
    BY <1>0, <2>3
  <2>4. \A pc, v : /\ [p EXCEPT !.pc = pc].pc = pc
                 /\ [p EXCEPT !.pc = pc, !.halted = v].pc = pc
                 /\ [p EXCEPT !.pc = pc, !.out = v].pc = pc
    BY <2>2
  <2>5. QED
    <3> HIDE DEF SessionAwaited, Go
    <3>1. CASE Go(i, [p EXCEPT !.pc = "save", !.out = result[i]])
      <4>1. [p EXCEPT !.pc = "save", !.out = result[i]].pc # "native"
        BY <2>4
      <4>2. QED
        BY <2>3, <3>1, <4>1
    <3>2. ASSUME NEW pc \in {"calling", "model"}, Go(i, [p EXCEPT !.pc = pc])
          PROVE  ~SessionAwaited(i)'
      <4>1. [p EXCEPT !.pc = pc].pc # "native"
        BY <2>4
      <4>2. QED
        BY <2>3, <3>2, <4>1
    <3>3. QED
      BY <2>1, <3>1, <3>2, Zenon
<1>15. QED
  BY <1>1, <1>2, <1>3, <1>4, <1>5, <1>6, <1>7, <1>8, <1>9, <1>10, <1>11, <1>12,
     <1>13, <1>14 DEF AgentStep

\* The session of a native delivery is asked for under an authorization.
LEMMA SessionAsked ==
  ASSUME Inv, NEW i \in Intents, Pump(i) \/ RunStep(i), ~Valid(i), ~SessionAwaited(i)
  PROVE  ~SessionAwaited(i)'
<1>0. proc[i] \in Handlers /\ proc \in [Intents -> Handlers]
  BY RowTypes DEF TypeOK
<1>1. CASE AgentStep(i)
  BY <1>1, AgentStaysOut
<1>2. CASE Deliver(i)
  BY <1>0, <1>2 DEF Deliver, Stop, Go, SessionAwaited, Handlers
<1>3. CASE DeliveryStep(i) /\ ~Deliver(i)
  <2>1. CASE SaveResult(i) \/ PermitRefused(i) \/ StartSend(i)
    <3>1. CASE SaveResult(i)
      BY <1>0, <3>1 DEF SaveResult, To, Go, SessionAwaited, Handlers
    <3>2. CASE PermitRefused(i)
      BY <1>0, <3>2 DEF PermitRefused, Stop, Go, SessionAwaited, Handlers
    <3>3. CASE StartSend(i)
      BY <1>0, <3>3 DEF StartSend, To, Go, SessionAwaited, Handlers
    <3>4. QED
      BY <2>1, <3>1, <3>2, <3>3
  <2>2. CASE HandOut(i) \/ ReportSend(i)
    <3>1. CASE HandOut(i)
      BY <1>0, <3>1 DEF HandOut, Go, SessionAwaited, Handlers
    <3>2. CASE ReportSend(i)
      BY <1>0, <3>2 DEF ReportSend, Go, SessionAwaited, Handlers
    <3>3. QED
      BY <2>2, <3>1, <3>2
  <2>3. ASSUME NEW status \in {"succeeded", "failed", "uncertain"}, AnswerSend(i, status)
        PROVE  ~SessionAwaited(i)'
    BY <1>0, <2>3 DEF AnswerSend, To, Go, SessionAwaited, Handlers
  <2>4. CASE AppendNative(i) \/ OpenNative(i) \/ StampNative(i)
    <3>1. CASE AppendNative(i)
      BY <1>0, <3>1 DEF AppendNative, Stop, To, Go, SessionAwaited, Handlers
    <3>2. CASE OpenNative(i) \/ StampNative(i)
      BY <1>0, <3>2 DEF OpenNative, StampNative, To, Go, SessionAwaited, Handlers
    <3>3. QED
      BY <2>4, <3>1, <3>2
  <2>5. QED
    BY <1>3, <2>1, <2>2, <2>3, <2>4 DEF DeliveryStep
<1>4. CASE Claim(i) \/ Begin(i) \/ BeginRefused(i) \/ EndRun(i) \/ Finish(i)
  <2>1. CASE Claim(i) \/ Finish(i)
    BY <1>0, <2>1 DEF Claim, Finish, IdleProc, Go, SessionAwaited, Handlers
  <2>2. CASE Begin(i)
    BY <1>0, <2>2 DEF Begin, To, Go, SessionAwaited, Handlers
  <2>3. CASE BeginRefused(i) \/ EndRun(i)
    BY <1>0, <2>3 DEF BeginRefused, EndRun, To, Go, SessionAwaited, Handlers
  <2>4. QED
    BY <1>4, <2>1, <2>2, <2>3
<1>5. CASE Refuse(i)
  BY <1>5 DEF Refuse, SessionAwaited
<1>6. QED
  BY <1>1, <1>2, <1>3, <1>4, <1>5 DEF Pump, RunStep

\* A message leaves in two places only: right after its authorization was seen, or
\* after the session of a native delivery was awaited.
LEMMA SentStep ==
  ASSUME Inv, History, [Next]_vars, NEW i \in Intents, ~Valid(i), ~SessionAwaited(i)
  PROVE  world'[i].sent = world[i].sent
<1>0. Past(i) /\ world[i] \in Worlds /\ TypeOK
  BY RowTypes DEF History
<1>1. CASE UNCHANGED vars
  BY <1>1 DEF vars
<1>2. CASE Host
  <2>1. CASE Submit \/ \E o \in Intents, k \in Keys : RetryDelivery(o, k)
    <3>1. ASSUME NEW g, NEW t, NEW k, NEW kind, NEW native, NEW origin,
                 Accept(g, t, k, kind, native, origin)
          PROVE  world' = world
      BY <3>1 DEF Accept
    <3>2. QED
      BY <2>1, <3>1 DEF Submit, RetryDelivery
  <2>2. CASE ~Submit /\ ~\E o \in Intents, k \in Keys : RetryDelivery(o, k)
    BY <1>2, <2>2 DEF Host, IssueGrant, RevokeGrant, ControlTask, Supersede, Collect
  <2>3. QED
    BY <2>1, <2>2
<1>3. CASE Tick \/ Crash \/ Restart
  BY <1>3 DEF Tick, Crash, Restart, Reconcile, RecoverRuns, RecoverIntents
<1>4. ASSUME NEW j \in Intents, Pump(j) \/ RunStep(j) PROVE world'[i].sent = world[i].sent
  <2>1. CASE j # i
    BY <1>4, <2>1, LocalPump, LocalAgent, LocalDelivery DEF Inv, RunStep, LocalTo
  <2>2. CASE HandOut(i) \/ AppendNative(i)
    BY <1>0, <2>2 DEF HandOut, AppendNative, At, Past, Permitted, SessionAwaited
  <2>3. CASE RunExternal(i)
    BY <1>0, <2>3 DEF RunExternal, TypeOK, Worlds
  <2>4. CASE j = i /\ ~HandOut(i) /\ ~AppendNative(i) /\ ~RunExternal(i)
    <3>1. world' = world
      <4>1. CASE AgentStep(i)
        BY <2>4, <4>1 DEF AgentStep, StartModel, ModelRefused, ReplyText, Defer, Deadline,
           ReplyFailed, ToolRefused, CallTool, OpenTool, DenyTool, RunLocal, AnswerTool,
           CloseTool
      <4>2. CASE DeliveryStep(i)
        BY <2>4, <4>2 DEF DeliveryStep, SaveResult, Deliver, PermitRefused, StartSend,
           AnswerSend, OpenNative, StampNative, ReportSend
      <4>3. CASE ~AgentStep(i) /\ ~DeliveryStep(i)
        BY <1>4, <2>4, <4>3 DEF Pump, RunStep, Claim, Refuse, Begin, BeginRefused, EndRun,
           Finish
      <4>4. QED
        BY <4>1, <4>2, <4>3
    <3>2. QED
      BY <3>1
  <2>5. QED
    BY <2>1, <2>2, <2>3, <2>4
<1>5. QED
  BY <1>1, <1>2, <1>3, <1>4 DEF Next

\* No other step begins to await a session.
LEMMA SessionStep ==
  ASSUME Inv, [Next]_vars, NEW i \in Intents, ~Valid(i), ~SessionAwaited(i)
  PROVE  ~SessionAwaited(i)'
<1>1. CASE UNCHANGED vars
  BY <1>1 DEF vars, SessionAwaited
<1>2. CASE Host
  <2>1. ASSUME NEW g, NEW t, NEW k, NEW kind, NEW native, NEW origin,
               Accept(g, t, k, kind, native, origin)
        PROVE  proc' = proc
    BY <2>1 DEF Accept
  <2>2. proc' = proc
    BY <1>2, <2>1 DEF Host, Submit, RetryDelivery, IssueGrant, RevokeGrant, ControlTask, Supersede, Collect
  <2>3. QED
    BY <2>2 DEF SessionAwaited
<1>3. CASE Tick \/ Crash \/ Restart
  <2>1. CASE Crash
    BY <2>1 DEF Crash, IdleProc, SessionAwaited
  <2>2. CASE Tick \/ Restart
    BY <2>2 DEF Tick, Restart, Reconcile, RecoverRuns, RecoverIntents, SessionAwaited
  <2>3. QED
    BY <1>3, <2>1, <2>2
<1>4. ASSUME NEW j \in Intents, Pump(j) \/ RunStep(j) PROVE ~SessionAwaited(i)'
  <2>1. CASE j = i
    BY <1>4, <2>1, SessionAsked
  <2>2. CASE j # i
    BY <1>4, <2>2, LocalPump, LocalAgent, LocalDelivery DEF Inv, RunStep, LocalTo, SessionAwaited
  <2>3. QED
    BY <2>1, <2>2
<1>5. QED
  BY <1>1, <1>2, <1>3, <1>4 DEF Next

\* A run that ended stays as it ended: neither another attempt nor a recovery
\* touches its verdict (sqlite-store.ts:339).
THEOREM VerdictFinalHolds == Spec => VerdictFinal
<1>1. Inv /\ History /\ [Next]_vars =>
        [\A i \in Intents :
           intents[i].state # "absent" /\ runs[i].status \in Terminal =>
             runs'[i].status = runs[i].status]_vars
  BY VerdictStep
<1>2. QED
  BY <1>1, Invariance, HistoryHolds, PTL DEF Spec, VerdictFinal

\* A stored result is final, and nothing is spent once there is one
\* (operations.ts:9, run-coordinator.ts:441).
THEOREM ResultFinalHolds == Spec => ResultFinal
<1>1. Inv /\ History /\ [Next]_vars =>
        [\A i \in Intents :
           result[i] # "none" /\ intents'[i].state # "collected" =>
             result'[i] = result[i] /\ usage'[i] = usage[i]]_vars
  BY ResultStep
<1>2. QED
  BY <1>1, Invariance, HistoryHolds, PTL DEF Spec, ResultFinal

\* Without authorization by grant, task and schedule no message leaves and no
\* native delivery is begun (delivery.ts:95-106).
THEOREM SentAuthorizedHolds == Spec => SentAuthorized
<1>1. Inv /\ History /\ [Next]_vars =>
        [\A i \in Intents :
           ~Valid(i) /\ ~SessionAwaited(i) =>
             world'[i].sent = world[i].sent /\ ~SessionAwaited(i)']_vars
  BY SentStep, SessionStep
<1>2. QED
  BY <1>1, Invariance, HistoryHolds, PTL DEF Spec, SentAuthorized

----------------------------------------------------------------------------
(* The budget of a grant.                                                  *)

Started(g) == {i \in Intents : intents[i].state # "absent" /\ intents[i].grant = g}

\* A step that accepts nothing starts nothing.
LEMMA NothingStarted ==
  ASSUME \A i \in Intents :
           /\ intents'[i].state = "absent" <=> intents[i].state = "absent"
           /\ intents[i].state # "absent" => intents'[i].grant = intents[i].grant,
         NEW g \in Grants
  PROVE  Started(g)' = Started(g)
BY DEF Started

\* Accepting under a live grant counts every request the grant has started: none
\* of them can have been collected (store.ts:930).
LEMMA AcceptBudget ==
  ASSUME Inv, History, NEW g \in Grants, NEW t \in Tasks \cup {None}, NEW k \in Keys,
         NEW kind \in {"agent", "reminder"}, NEW native \in BOOLEAN,
         NEW origin \in {0} \cup Intents, Accept(g, t, k, kind, native, origin),
         GrantBudgetKept
  PROVE  GrantBudgetKept'
<1>1. PICK i \in Intents : Accept(g, t, k, kind, native, origin)!(i)
  BY DEF Accept
<1>2. /\ intents[i].state = "absent" /\ intents'[i].state = "queued"
      /\ intents'[i].grant = g /\ \A l \in Intents \ {i} : intents'[l] = intents[l]
      /\ Cardinality({j \in Rows : intents[j].grant = g}) < MaxRunsPerGrant /\ Live(g)
  BY <1>1 DEF Inv, TypeOK
<1>3. \A j \in Intents : intents[j].state = "collected" => Dead(intents[j].grant)
  BY DEF History, Past, Granted
<1>4. Started(g) = {j \in Rows : intents[j].grant = g}
  BY <1>2, <1>3 DEF Started, Rows, Dead
<1>5. Started(g)' = Started(g) \cup {i} /\ i \notin Started(g)
  BY <1>2 DEF Started
<1>6. IsFiniteSet(Started(g)) /\ Cardinality(Started(g)) \in Nat
  <2>1. IsFiniteSet(Intents)
    BY FS_Interval, ExecutionAssumption DEF Intents
  <2>2. Started(g) \in SUBSET Intents
    BY DEF Started
  <2>3. QED
    BY <2>1, <2>2, FS_Subset, FS_CardinalityType
<1>7. Cardinality(Started(g)') <= MaxRunsPerGrant
  <2>1. Cardinality(Started(g)) < MaxRunsPerGrant /\ MaxRunsPerGrant \in Nat
    BY <1>2, <1>4, ExecutionAssumption
  <2>2. Cardinality(Started(g) \cup {i}) = Cardinality(Started(g)) + 1
    BY <1>5, <1>6, FS_AddElement
  <2>3. QED
    BY <1>5, <1>6, <2>1, <2>2
<1>8. ASSUME NEW h \in Grants, h # g PROVE Started(h)' = Started(h)
  BY <1>2, <1>8 DEF Started
<1>9. QED
  BY <1>7, <1>8 DEF GrantBudgetKept, Started

\* Every step keeps the budgets.
LEMMA BudgetStep ==
  ASSUME Inv, History, [Next]_vars, GrantBudgetKept
  PROVE  GrantBudgetKept'
<1>0. TypeOK
  BY DEF Inv
<1> DEFINE Same(i) ==
             /\ intents'[i].state = "absent" <=> intents[i].state = "absent"
             /\ intents[i].state # "absent" => intents'[i].grant = intents[i].grant
<1>a. ASSUME \A i \in Intents : Same(i) PROVE GrantBudgetKept'
  BY <1>a, NothingStarted DEF GrantBudgetKept, Started
<1>1. CASE UNCHANGED intents
  BY <1>1, <1>a
<1>2. CASE Submit
  BY <1>2, AcceptBudget, ExecutionAssumption DEF Submit
<1>3. ASSUME NEW o \in Intents, NEW k \in Keys, RetryDelivery(o, k) PROVE GrantBudgetKept'
  <2>1. /\ intents[o].grant \in Grants /\ intents[o].kind \in {"agent", "reminder"}
        /\ intents[o].native \in BOOLEAN
    BY <1>0, IntentFields DEF TypeOK
  <2>2. Accept(intents[o].grant, None, k, intents[o].kind, intents[o].native, o)
    BY <1>3 DEF RetryDelivery
  <2>3. QED
    BY <2>1, <2>2, AcceptBudget
<1>4. CASE Collect \/ (\E g \in Grants : RevokeGrant(g)) \/ (\E i \in Intents : Supersede(i))
  <2>1. ASSUME NEW i \in Intents PROVE Same(i)
    <3>1. CASE Collect
      BY <1>0, <3>1 DEF Collect, Collectable, TypeOK, IntentRows
    <3>2. ASSUME NEW g \in Grants, RevokeGrant(g) PROVE Same(i)
      BY <1>0, <3>2 DEF RevokeGrant, TypeOK, IntentRows
    <3>3. ASSUME NEW j \in Intents, Supersede(j) PROVE Same(i)
      BY <1>0, <3>3 DEF Supersede, TypeOK, IntentRows
    <3>4. QED
      BY <1>4, <3>1, <3>2, <3>3
  <2>2. QED
    BY <1>a, <2>1
<1>5. CASE Tick \/ RecoverIntents
  <2>1. ASSUME NEW i \in Intents PROVE Same(i)
    <3> DEFINE wait == Less(intents[i].wait)
               age == Older(intents[i].age)
    <3>1. RecoveredState(i) # "absent"
      BY DEF RecoveredState
    <3>2. \/ intents'[i] = intents[i]
          \/ intents'[i] = [intents[i] EXCEPT !.wait = wait, !.age = age]
          \/ /\ intents'[i] = [intents[i] EXCEPT !.state = RecoveredState(i)]
             /\ intents[i].state # "absent"
      BY <1>5 DEF Tick, RecoverIntents, Pending, Rows
    <3> HIDE DEF wait, age
    <3>3. CASE intents'[i] = [intents[i] EXCEPT !.wait = wait, !.age = age]
      BY <1>0, <3>3 DEF TypeOK, IntentRows
    <3>4. CASE intents'[i] = [intents[i] EXCEPT !.state = RecoveredState(i)]
               /\ intents[i].state # "absent"
      BY <1>0, <3>1, <3>4 DEF TypeOK, IntentRows
    <3>5. QED
      BY <3>2, <3>3, <3>4
  <2>2. QED
    BY <1>a, <2>1
<1>6. ASSUME NEW j \in Intents, Pump(j) \/ RunStep(j) PROVE GrantBudgetKept'
  <2>1. ASSUME NEW i \in Intents PROVE Same(i)
    <3>1. LocalTo(j) /\ Lasting(j)
      BY <1>6, LocalPump, LocalAgent, LocalDelivery, Lasts DEF Inv, RunStep
    <3>2. QED
      BY <3>1 DEF LocalTo, Lasting
  <2>2. QED
    BY <1>a, <2>1
<1>7. QED
  <2>1. CASE UNCHANGED vars \/ Crash \/ Reconcile \/ RecoverRuns
    BY <1>1, <2>1 DEF vars, db, Crash, Reconcile, RecoverRuns
  <2>2. CASE Host
    BY <1>1, <1>2, <1>3, <1>4, <2>2 DEF Host, IssueGrant, ControlTask
  <2>3. QED
    BY <1>5, <1>6, <2>1, <2>2 DEF Next, Restart

\* A grant never starts more runs than it allows, although accept() counts only
\* the rows that are still there: records under a live grant are not collected
\* (store.ts:930).
THEOREM GrantBudgetHolds == Spec => []GrantBudgetKept
<1>1. ASSUME Init PROVE GrantBudgetKept
  <2>1. \A g \in Grants : Started(g) = {}
    BY <1>1 DEF Init, NewIntent, Started
  <2>2. \A g \in Grants : Cardinality(Started(g)) = 0
    BY <2>1, FS_EmptySet
  <2>3. MaxRunsPerGrant \in Nat
    BY ExecutionAssumption
  <2>4. \A g \in Grants : Cardinality(Started(g)) <= MaxRunsPerGrant
    BY <2>2, <2>3
  <2>5. QED
    BY <2>4 DEF GrantBudgetKept, Started
<1>2. QED
  BY <1>1, BudgetStep, Invariance, HistoryHolds, PTL DEF Spec

=============================================================================
