---------------------------- MODULE Interaction ----------------------------
(***************************************************************************)
(* One message of a platform, from its first delivery to the reply: the    *)
(* row of event_process_state, the facts on the conversation line, the run *)
(* of the durable queue when the host has one, and the handler that works  *)
(* on the message (runtime/runtime-core.ts, run-coordinator.ts,            *)
(* delivery.ts, recovery.ts, event-process/in-memory.ts).                  *)
(*                                                                         *)
(* Every await that follows a write is a step, so that the process may be  *)
(* killed between any two writes.  A handler that throws leaves the row as *)
(* it is.  Without a durable queue only the platform's redelivery takes    *)
(* the message up again; with one, the pump does, after a restart has      *)
(* judged the run.                                                         *)
(***************************************************************************)
EXTENDS Integers, FiniteSets

CONSTANTS
  Answers,          \* texts an agent or a command may produce
  MaxTries,         \* bound: deliveries, and maxAttempts of the queue
  MaxKills          \* bound: process kills

ASSUME InteractionAssumption ==
  /\ Answers # {} /\ {"none", "silent", "notice"} \cap Answers = {}
  /\ MaxTries \in Nat \ {0} /\ MaxKills \in Nat

Texts == Answers \cup {"notice"}   \* "notice": agent.request_failed
RunOutcome == INSTANCE Outcome WITH Calls <- {1}, Artifacts <- {}

VARIABLES
  setting,   \* durable: is there a queue; native: a first-party session;
             \* command: is the message a command
  row,       \* event_process_state
  line,      \* what the conversation line says about the message
  run,       \* intent, trace, operation and result of the durable queue
  handler,   \* the one handler of the message, if it is being handled
  outside,   \* what the agent, the tool and the platform really saw
  tries, kills

interaction == <<setting, row, line, run, handler, outside, tries, kills>>

Phases == {"none", "other", "send_started", "send_failed", "send_uncertain"}
Whys == {"sent", "native", "confirmed", "denied", "missing", "refused", "prepare",
         "thrown", "unknown", "recovered"}

NewRow == [status |-> "received", phase |-> "none", output |-> "none", fresh |-> FALSE]
\* attempt: how the latest agent run ended; call: the tool call of the message
NewLine == [attempt |-> "none", completed |-> "none", call |-> "none",
            assistant |-> "none", facts |-> {}]
NewDurable == [intent |-> "queued", status |-> "accepted", operation |-> "none",
               result |-> "none", log |-> RunOutcome!NewOutcome]
Idle == [pc |-> "idle", from |-> "received", out |-> "none", by |-> "nobody",
         answer |-> "none", called |-> FALSE, halted |-> FALSE, end |-> "none",
         mem |-> RunOutcome!NewOutcome]
Untouched == [ran |-> 0, acted |-> 0, arrived |-> 0, said |-> {}, reached |-> FALSE]

InteractionInit ==
  /\ setting \in [durable : BOOLEAN, native : BOOLEAN, command : BOOLEAN]
  /\ setting.native => setting.durable
  /\ row = NewRow /\ line = NewLine /\ run = NewDurable
  /\ handler = Idle /\ outside = Untouched /\ tries = 0 /\ kills = 0

----------------------------------------------------------------------------
(* Helpers.                                                                *)

At(pc) == handler.pc = pc
To(pc) == handler' = [handler EXCEPT !.pc = pc]

\* recoveryStatusFromProcess(): what the row says about an earlier handler
WrongRecoveryStatus(r) ==
  CASE r.status # "processing" -> r.status
    [] r.output # "none" -> "agent_completed"
    [] OTHER -> "received"

RecoveryStatus(r) ==
  CASE r.status # "processing" -> r.status
    [] r.phase = "send_started" -> "send_uncertain"
    [] r.phase # "send_started" /\ r.output # "none" -> "agent_completed"
    [] OTHER -> "received"

\* A write to the row, which also makes it fresh.
Stored(changed) == row' = [changed EXCEPT !.fresh = TRUE]

\* The recorder puts an event into the trace and into its own fold.
Emit(fold(_)) == [run EXCEPT !.log = IF setting.durable THEN fold(@) ELSE @]
Heard(h, fold(_)) == [h EXCEPT !.mem = IF setting.durable THEN fold(@) ELSE @]
Blame(h, status) == Heard(h, LAMBDA o : RunOutcome!Fail(o, status))

\* A handler ends: in the catch clause with a failure, else with what it heard.
Throws(status) == handler' = [Blame(handler, status) EXCEPT !.pc = "ending"]

\* What the line and the trace are told of a delivery.
Kind(why) ==
  CASE why \in {"sent", "native", "confirmed"} -> "succeeded"
    [] why = "denied"                          -> "blocked"
    [] why \in {"unknown", "recovered"}        -> "uncertain"
    [] OTHER                                   -> "failed"

WrongHeardOf(o, why) ==
  IF Kind(why) = "succeeded" THEN RunOutcome!ResponseSent(o, why = "native", {})
  ELSE IF Kind(why) = "blocked" THEN RunOutcome!Fail(o, "blocked")
       ELSE RunOutcome!ResponseFailed(o)

HeardOf(o, why) ==
  CASE Kind(why) = "succeeded" -> RunOutcome!ResponseSent(o, why = "native", {})
    [] Kind(why) = "blocked" -> RunOutcome!Fail(o, "blocked")
    [] why \in {"unknown", "recovered", "thrown"} -> RunOutcome!ResponseUncertain(o)
    [] why \in {"missing", "refused", "prepare"} -> RunOutcome!ResponseFailed(o)

\* A fact is keyed by its kind and the run, and refused if the key holds another
\* one.  Without a queue a recovery and a command have a fixed run id, and every
\* agent run ("own") a new one, so that its facts meet no earlier ones.
RunKey == IF setting.durable THEN "run" ELSE handler.by
Refused(why) ==
  RunKey # "own" /\ \E f \in line.facts : f.by = RunKey /\ Kind(f.why) = Kind(why) /\ f.why # why
Delivered == \E f \in line.facts : Kind(f.why) = "succeeded"

\* appendDeliveryEvent(): the line first, the recorder after it (Report).
Note(why, end) ==
  IF Refused(why)
  THEN Throws("failed") /\ UNCHANGED line
  ELSE /\ line' = [line EXCEPT !.facts = @ \cup {[by |-> RunKey, why |-> why]}]
       /\ handler' = [handler EXCEPT !.pc = "report", !.answer = why, !.end = end]

----------------------------------------------------------------------------
(* Taking the message up.                                                  *)

\* The guards of #runAgent() before the claim.
Ignored ==
  \/ row.status = "completed"
  \/ row.status = "processing" /\ run.status # "interrupted" /\ row.fresh

\* claim() and beginRecording(), which starts a new fold of the run.
Claimed ==
  /\ Stored([row EXCEPT !.status = "processing"])
  /\ handler' = [Idle EXCEPT !.pc = "claimed", !.from = RecoveryStatus(row)]

Redeliver ==
  /\ ~setting.durable /\ At("idle") /\ tries < MaxTries /\ ~Ignored
  /\ Claimed /\ tries' = tries + 1
  /\ UNCHANGED <<setting, line, run, outside, kills>>

\* #dispatchIntent(): claim the intent, then either work or find nothing to do.
Dispatch ==
  /\ setting.durable /\ At("idle") /\ run.intent = "queued"
  /\ IF tries >= MaxTries
     THEN /\ run' = [run EXCEPT !.intent = "blocked", !.status = "blocked"]
          /\ UNCHANGED <<row, handler, tries>>
     ELSE /\ tries' = tries + 1
          /\ IF Ignored THEN UNCHANGED <<row, run, handler>>   \* queued again
             ELSE /\ Claimed
                  /\ run' = [run EXCEPT !.intent = "claimed", !.status = "running",
                                        !.log = RunOutcome!NewOutcome]
  /\ UNCHANGED <<setting, line, outside, kills>>

\* isFreshProcessState() protects a row for five minutes.
Age ==
  /\ At("idle") /\ row.fresh /\ row' = [row EXCEPT !.fresh = FALSE]
  /\ UNCHANGED <<setting, line, run, handler, outside, tries, kills>>

\* Whatever comes next may throw: the resolvers, the validation of the intent, a
\* passed deadline, a write to a store.  Throws of the agent, of a tool, of the
\* channel and of the last write after a confirmed send are caught where they
\* happen.
ThrowPoints == {"claimed", "resume", "finish", "save", "settle", "present", "native",
                "store", "permit", "start", "answered", "sent", "close"}

Throw ==
  /\ handler.pc \in ThrowPoints /\ ~(At("close") /\ handler.answer = "sent")
  /\ Throws("failed")
  /\ UNCHANGED <<setting, row, line, run, outside, tries, kills>>

----------------------------------------------------------------------------
(* Resuming what an earlier handler has left.                              *)

\* A stored result of the run goes to delivery before anything else is read.
UseResult ==
  /\ At("claimed") /\ run.result # "none"
  /\ IF run.result = "silent"
     THEN /\ run' = Emit(RunOutcome!Completed)
          /\ handler' = [Heard(handler, RunOutcome!Completed) EXCEPT !.pc = "close",
                                                                  !.end = "completed"]
     ELSE /\ handler' = [handler EXCEPT !.pc = "present", !.out = run.result]
          /\ UNCHANGED run
  /\ UNCHANGED <<setting, row, line, outside, tries, kills>>

\* The output of the row, else the one of the completed agent run on the line.
WrongKept == row.output

Kept ==
  IF row.output # "none" THEN row.output
  ELSE IF line.completed \in Texts THEN line.completed ELSE "none"

\* #ensureCompletedAgentEvent(): the completion goes to the latest attempt, and
\* is refused if that attempt is on the line as failed.
Completion ==
  Kept # "none" /\ ~setting.command /\ line.completed = "none" /\ line.attempt # "none"

Recover ==
  /\ At("claimed") /\ run.result = "none"
  /\ IF Kept # row.output
     THEN Stored([row EXCEPT !.status = "processing", !.output = Kept])
     ELSE UNCHANGED row
  /\ IF Completion /\ line.attempt = "failed"
     THEN Throws("failed") /\ UNCHANGED line
     ELSE /\ line' = IF Completion
                     THEN [line EXCEPT !.completed = Kept, !.attempt = "completed"]
                     ELSE line
          /\ handler' = [handler EXCEPT !.pc = "resume", !.out = Kept,
               !.by = IF Kept # "none" THEN "recovered" ELSE "command",
               !.from = IF Kept # row.output /\ @ = "received"
                        THEN "agent_completed" ELSE @]
  /\ UNCHANGED <<setting, run, outside, tries, kills>>

Resendable == handler.from \in {"agent_completed", "send_failed"} /\ handler.out # "none"
Resumable == handler.from \in {"send_uncertain", "send_succeeded"} \/ Resendable

\* An unknown delivery is noted as such and never repeated.
ResumeUnknown ==
  /\ At("resume") /\ handler.from = "send_uncertain"
  /\ IF line.assistant = "none" \/ handler.out = "none"
     THEN Throws("failed") /\ UNCHANGED line
     ELSE Note("recovered", "send_uncertain")
  /\ UNCHANGED <<setting, row, run, outside, tries, kills>>

\* A finished answer is delivered, unless the line says that it was.
ResumeAnswer ==
  /\ At("resume") /\ Resendable
  /\ LET sent(o) == RunOutcome!ResponseSent(o, FALSE, {})
     IN  IF line.assistant # "none" /\ Delivered
         THEN /\ run' = Emit(sent)
              /\ handler' = [Heard(handler, sent) EXCEPT !.pc = "close", !.end = "completed"]
         ELSE To("present") /\ UNCHANGED run
  /\ UNCHANGED <<setting, row, line, outside, tries, kills>>

\* A confirmed delivery gets the fact it still lacks.  (A durable run never gets
\* here: its open send has made it uncertain.)
ResumeSent ==
  /\ At("resume") /\ handler.from = "send_succeeded"
  /\ CASE line.assistant = "none" /\ handler.out # "none" ->
            Throws("failed") /\ UNCHANGED line
       [] line.assistant # "none" /\ handler.out # "none" /\ ~Delivered ->
            Note("confirmed", "completed")
       [] handler.out = "none" \/ (Delivered /\ line.assistant # "none") ->
            /\ handler' = [handler EXCEPT !.pc = "close", !.end = "completed"]
            /\ UNCHANGED line
  /\ UNCHANGED <<setting, row, run, outside, tries, kills>>

----------------------------------------------------------------------------
(* The agent.                                                              *)

Command ==
  /\ At("resume") /\ ~Resumable /\ setting.command
  /\ \E text \in Answers : handler' = [handler EXCEPT !.pc = "present", !.out = text]
  /\ UNCHANGED <<setting, row, line, run, outside, tries, kills>>

StartAgent ==
  /\ At("resume") /\ ~Resumable /\ ~setting.command
  /\ line' = [line EXCEPT !.attempt = "open"]
  /\ outside' = [outside EXCEPT !.ran = @ + 1]
  /\ handler' = [handler EXCEPT !.pc = "agent", !.by = "own"]
  /\ UNCHANGED <<setting, row, run, tries, kills>>

\* replayToolCall() and replayOperation(): only a call that nobody started may
\* be executed; all the others answer from the record or halt the scope.
Recorded == IF setting.durable THEN run.operation ELSE line.call

Missing == Recorded = "none"

\* A call that may be executed is put on record first.
CallTool ==
  /\ At("agent") /\ ~handler.called /\ Missing
  /\ IF setting.durable
     THEN run' = [run EXCEPT !.operation = "started"] /\ UNCHANGED line
     ELSE line' = [line EXCEPT !.call = "started"] /\ UNCHANGED run
  /\ handler' = [handler EXCEPT !.pc = IF setting.durable THEN "called" ELSE "tool",
                                !.called = TRUE]
  /\ UNCHANGED <<setting, row, outside, tries, kills>>

\* Another name or input than the recorded one is a conflict.
ReplayTool ==
  /\ At("agent") /\ ~handler.called /\ ~Missing
  /\ \E conflict \in BOOLEAN :
       LET undecided == ~conflict /\ Recorded \in {"started", "uncertain"}
       IN  /\ handler' = [(IF undecided THEN Blame(handler, "uncertain") ELSE handler)
                            EXCEPT !.called = TRUE,
                                   !.halted = conflict \/ undecided \/ Recorded = "failed"]
           /\ line' = IF undecided /\ ~setting.durable
                      THEN [line EXCEPT !.call = "uncertain"] ELSE line
  /\ UNCHANGED <<setting, row, run, outside, tries, kills>>

\* #recordToolRuntimeEvent(): after the operation come the line and the trace.
NoteCall ==
  /\ At("called")
  /\ line' = [line EXCEPT !.call = "started"]
  /\ run' = [run EXCEPT !.log = RunOutcome!ToolStarted(@, 1)]
  /\ handler' = [handler EXCEPT !.pc = "tool", !.mem = RunOutcome!ToolStarted(@, 1)]
  /\ UNCHANGED <<setting, row, outside, tries, kills>>

\* The permission is refused, or the tool runs and succeeds or fails.
RunTool ==
  /\ At("tool")
  /\ \E answer \in {"blocked", "succeeded", "failed"} :
       /\ outside' = [outside EXCEPT !.acted = IF answer = "blocked" THEN @ ELSE @ + 1]
       /\ handler' = [handler EXCEPT !.pc = IF setting.durable THEN "receipt" ELSE "noting",
                                     !.answer = answer]
  /\ UNCHANGED <<setting, row, line, run, tries, kills>>

\* An external call that failed has an unknown effect.
ReceiveTool ==
  /\ At("receipt")
  /\ run' = [run EXCEPT !.operation =
               IF handler.answer = "failed" THEN "uncertain" ELSE handler.answer]
  /\ To("noting")
  /\ UNCHANGED <<setting, row, line, outside, tries, kills>>

NoteTool ==
  /\ At("noting")
  /\ line' = [line EXCEPT !.call = handler.answer]
  /\ LET answered(o) == RunOutcome!ToolAnswered(o, 1)
         h == Heard(handler, answered)
     IN  /\ run' = Emit(answered)
         /\ handler' = [(IF handler.answer = "failed" THEN Blame(h, "uncertain") ELSE h)
                          EXCEPT !.pc = "agent", !.answer = "none",
                                 !.halted = handler.answer = "failed"]
  /\ UNCHANGED <<setting, row, outside, tries, kills>>

\* A text, or an outcome without one.  The output is checkpointed first; that
\* this fails is only logged.
Answer ==
  /\ At("agent")
  /\ \E text \in Answers \cup {"silent"}, kept \in BOOLEAN :
       /\ handler' = [handler EXCEPT !.pc = "finish", !.out = text]
       /\ IF text # "silent" /\ kept
          THEN Stored([row EXCEPT !.status = "processing", !.output = text])
          ELSE UNCHANGED row
  /\ UNCHANGED <<setting, line, run, outside, tries, kills>>

FinishAgent ==
  /\ At("finish")
  /\ line' = [line EXCEPT !.attempt = "completed", !.completed = handler.out]
  /\ To(IF setting.durable THEN "save" ELSE "settle")
  /\ UNCHANGED <<setting, row, run, outside, tries, kills>>

\* saveResult()
Save ==
  /\ At("save")
  /\ run' = [run EXCEPT !.result = handler.out,
       !.log = IF handler.out = "silent" THEN RunOutcome!Completed(@) ELSE @]
  /\ handler' = IF handler.out = "silent"
                THEN [Heard(handler, RunOutcome!Completed) EXCEPT !.pc = "close",
                                                                !.end = "completed"]
                ELSE [handler EXCEPT !.pc = "settle"]
  /\ UNCHANGED <<setting, row, line, outside, tries, kills>>

Settle ==
  /\ At("settle")
  /\ IF handler.out = "silent"
     THEN Stored([row EXCEPT !.status = "completed"]) /\ To("ending")
     ELSE /\ Stored([row EXCEPT !.status = "agent_completed", !.output = handler.out])
          /\ To("present")
  /\ UNCHANGED <<setting, line, run, outside, tries, kills>>

\* The agent reports a failure, of its model or another one: the user gets a
\* notice.
FailAgent ==
  /\ At("agent")
  /\ line' = [line EXCEPT !.attempt = "failed"]
  /\ run' \in {run, Emit(RunOutcome!ModelFailed)}
  /\ handler' = [Blame(handler, "failed") EXCEPT !.pc = "present", !.out = "notice"]
  /\ UNCHANGED <<setting, row, outside, tries, kills>>

\* retryModel(): a transient failure of the model before any effect queues the
\* intent again.
DeferAgent ==
  /\ At("agent") /\ setting.durable /\ tries < MaxTries
  /\ run.operation = "none" /\ run.result = "none"
  /\ run' = [run EXCEPT !.intent = "queued", !.status = "interrupted"]
  /\ line' = [line EXCEPT !.attempt = "failed"]
  /\ Stored([row EXCEPT !.status = "received"])
  /\ handler' = Idle
  /\ UNCHANGED <<setting, outside, tries, kills>>

\* The agent throws or its deadline passes.  A ToolCallRecoveryError closes the
\* event, any other error leaves it to the next delivery.
AgentThrows ==
  /\ At("agent")
  /\ \E recovery \in {FALSE, handler.halted} :
       /\ line' = [line EXCEPT !.attempt = "failed"]
       /\ Stored([row EXCEPT !.status = IF recovery THEN "completed" ELSE "received",
                             !.phase = "other"])
       /\ Throws(IF recovery THEN "uncertain" ELSE "failed")
  /\ UNCHANGED <<setting, run, outside, tries, kills>>

----------------------------------------------------------------------------
(* sendOutput().                                                           *)

\* The assistant's message has one key per message: another text is refused.
WrongSayable(text) == TRUE
Sayable(text) == line.assistant \in {"none", text}

Present ==
  /\ At("present")
  /\ IF Sayable(handler.out)
     THEN /\ line' = [line EXCEPT !.assistant = IF @ = "none" THEN handler.out ELSE @]
          /\ To(IF setting.native THEN "native" ELSE "store")
     ELSE Throws("failed") /\ UNCHANGED line
  /\ UNCHANGED <<setting, row, run, outside, tries, kills>>

\* A first-party reply is delivered by being on the line.
DeliverNative ==
  /\ At("native") /\ Note("native", "completed")
  /\ UNCHANGED <<setting, row, run, outside, tries, kills>>

\* The channel is gone: a failure that is not retried.
NoChannel ==
  /\ At("store") /\ Note("missing", "other")
  /\ UNCHANGED <<setting, row, run, outside, tries, kills>>

StoreOutput ==
  /\ At("store")
  /\ Stored([row EXCEPT !.output = handler.out])
  /\ To("permit")
  /\ UNCHANGED <<setting, line, run, outside, tries, kills>>

Permit ==
  /\ At("permit") /\ To("start")
  /\ UNCHANGED <<setting, row, line, run, outside, tries, kills>>

Deny ==
  /\ At("permit") /\ Note("denied", "other")
  /\ UNCHANGED <<setting, row, run, outside, tries, kills>>

StartSend ==
  /\ At("start")
  /\ Stored([row EXCEPT !.status = "processing", !.phase = "send_started"])
  /\ To("announce")
  /\ UNCHANGED <<setting, line, run, outside, tries, kills>>

Announce ==
  /\ At("announce")
  /\ run' = Emit(RunOutcome!ResponseSending)
  /\ handler' = [Heard(handler, RunOutcome!ResponseSending) EXCEPT !.pc = "prepare"]
  /\ UNCHANGED <<setting, row, line, outside, tries, kills>>

\* prepareDelivery() may fail for good, with an unknown upload, or be aborted.
PrepareFails ==
  /\ At("prepare")
  /\ \E why \in {"prepare", "thrown"} :
       handler' = [handler EXCEPT !.pc = "answered", !.answer = why]
  /\ UNCHANGED <<setting, row, line, run, outside, tries, kills>>

HandOut ==
  /\ At("prepare")
  /\ \E reached \in BOOLEAN :
       outside' = [outside EXCEPT !.reached = reached, !.said = @ \cup {handler.out},
                                  !.arrived = IF reached THEN @ + 1 ELSE @]
  /\ To("sending")
  /\ UNCHANGED <<setting, row, line, run, tries, kills>>

\* The platform confirms only what it did; silence and errors say nothing.
PlatformAnswers ==
  /\ At("sending")
  /\ \E answer \in {"thrown", "unknown", IF outside.reached THEN "sent" ELSE "refused"} :
       handler' = [handler EXCEPT !.pc = "answered", !.answer = answer]
  /\ UNCHANGED <<setting, row, line, run, outside, tries, kills>>

NoteFailure ==
  /\ At("answered") /\ handler.answer # "sent"
  /\ Note(handler.answer, IF handler.answer \in {"unknown", "thrown"}
                          THEN "send_uncertain" ELSE "send_failed")
  /\ UNCHANGED <<setting, row, run, outside, tries, kills>>

StoreReceipt ==
  /\ At("answered") /\ handler.answer = "sent"
  /\ Stored([row EXCEPT !.status = "send_succeeded"])
  /\ To("sent")
  /\ UNCHANGED <<setting, line, run, outside, tries, kills>>

NoteSent ==
  /\ At("sent") /\ Note("sent", "completed")
  /\ UNCHANGED <<setting, row, run, outside, tries, kills>>

\* The recorder's part; a refused permission is kept in its memory only.
Report ==
  /\ At("report")
  /\ LET fold(o) == HeardOf(o, handler.answer)
     IN  /\ run' = IF handler.answer = "denied" THEN run ELSE Emit(fold)
         /\ handler' = [Heard(handler, fold) EXCEPT !.pc = "close"]
  /\ UNCHANGED <<setting, row, line, outside, tries, kills>>

\* The last write to the row.  A transcript that fails after a confirmed send is
\* only logged and leaves the row as it is.
Close ==
  /\ At("close")
  /\ \/ Stored([row EXCEPT
          !.status = IF handler.end = "send_failed" THEN "send_failed" ELSE "completed",
          !.output = IF setting.native /\ handler.out \in Texts THEN handler.out ELSE @,
          !.phase = IF handler.end = "completed" THEN @ ELSE handler.end])
     \/ handler.answer = "sent" /\ UNCHANGED row
  /\ To("ending")
  /\ UNCHANGED <<setting, line, run, outside, tries, kills>>

----------------------------------------------------------------------------
(* The end of a handler, and of the process.                               *)

StateOf(status) ==
  CASE status \in {"uncertain", "running"}    -> "blocked"
    [] status \in {"accepted", "interrupted"} -> "queued"
    [] OTHER                                  -> "done"

\* finishRun() and finish()
End ==
  /\ At("ending")
  /\ run' = IF setting.durable
            THEN LET verdict == RunOutcome!Verdict(handler.mem)
                 IN  [run EXCEPT !.status = verdict, !.intent = StateOf(verdict)]
            ELSE run
  /\ handler' = Idle
  /\ UNCHANGED <<setting, row, line, outside, tries, kills>>

\* The process dies.  Before a durable host works again it judges the run by
\* its trace and by what the database and the line confirm (reconcile(),
\* reconcileRunReceipts(), recover()).  A durable run has one delivery fact.
Unknown == run.operation \in {"started", "uncertain"}

FromTool(o) == IF run.operation \in {"succeeded", "blocked"}
               THEN RunOutcome!ToolAnswered(o, 1) ELSE o
FromResult(o) == IF run.result = "silent" THEN RunOutcome!Completed(o) ELSE o
FromAttempt(o) == IF handler.by = "own" /\ line.attempt = "failed"
                  THEN RunOutcome!Fail(o, "failed") ELSE o
FromDelivery(o) ==
  IF line.facts = {} THEN o ELSE HeardOf(o, (CHOOSE f \in line.facts : TRUE).why)

Judgement == RunOutcome!Verdict(FromDelivery(FromAttempt(FromResult(FromTool(run.log)))))

Judged ==
  [run EXCEPT !.status = Judgement,
     !.intent = IF Unknown \/ Judgement = "uncertain" THEN "blocked" ELSE StateOf(Judgement)]

Kill ==
  /\ kills < MaxKills /\ ~At("idle")
  /\ kills' = kills + 1 /\ handler' = Idle
  /\ run' = IF setting.durable THEN Judged ELSE run
  /\ UNCHANGED <<setting, row, line, outside, tries>>

----------------------------------------------------------------------------
ResumeStep == UseResult \/ Recover \/ ResumeUnknown \/ ResumeAnswer \/ ResumeSent

AgentStep ==
  \/ Command \/ StartAgent \/ CallTool \/ ReplayTool \/ NoteCall \/ RunTool
  \/ ReceiveTool \/ NoteTool \/ Answer \/ FinishAgent \/ Save \/ Settle
  \/ FailAgent \/ DeferAgent \/ AgentThrows

SendStep ==
  \/ Present \/ DeliverNative \/ NoChannel \/ StoreOutput \/ Permit \/ Deny
  \/ StartSend \/ Announce \/ PrepareFails \/ HandOut \/ PlatformAnswers
  \/ NoteFailure \/ StoreReceipt \/ NoteSent \/ Report \/ Close

InteractionNext ==
  \/ Redeliver \/ Dispatch \/ Age \/ Throw \/ ResumeStep \/ AgentStep \/ SendStep
  \/ End \/ Kill

InteractionSpec == InteractionInit /\ [][InteractionNext]_interaction

----------------------------------------------------------------------------
(* Properties.                                                             *)

\* The user reads a reply at most once: after a kill, a redelivery or a restart
\* only a delivery that is known to have failed is repeated (recovery.ts:72).
RepliedOnce == outside.arrived <= 1

\* A tool call of the message takes effect at most once, however often the agent
\* runs again (recovery.ts:257, run-coordinator.ts:409).
ActedOnce == outside.acted <= 1

\* Both: whatever is killed and resumed in between, the outside sees the event
\* handled once.
HandledOnce == RepliedOnce /\ ActedOnce

\* What the platform was given is what the line keeps as the assistant's
\* message, though several runs may have produced different texts.
SaidIsRecorded == outside.said \subseteq {line.assistant}

\* An agent is never asked again once its answer is stored anywhere: in the row,
\* on the line or as the result of the run (delivery.ts:260, recovery.ts:34).
AnswerNotRepeated ==
  [][outside'.ran > outside.ran =>
       row.output = "none" /\ line.completed \notin Texts /\ run.result = "none"]_interaction

\* The verdict of a durable run agrees with the line and with the world.  It has
\* succeeded only with a delivery on record that really happened, a failure does
\* not cover a reply that arrived, and it is uncertain only if there is something
\* to look up: a tool call, or a reply without a fact of success.
VerdictTrue ==
  /\ run.status = "succeeded" /\ run.result \notin {"none", "silent"} =>
       Delivered /\ (setting.native \/ outside.arrived = 1)
  /\ run.intent = "done" /\ run.status \in {"failed", "blocked"} =>
       Delivered \/ outside.arrived = 0
  /\ run.status = "uncertain" => Unknown \/ ~Delivered
=============================================================================
