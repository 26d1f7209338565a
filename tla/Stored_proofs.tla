---------------------------- MODULE Stored_proofs ----------------------------
(* What is stored keeps its meaning, for any number of deliveries, kills,    *)
(* texts, writes, runs and files: the rows, facts and folds that an event is *)
(* resumed from, the blobs and versions of an asset, the receipts of the     *)
(* files that containers make, the journal that a page follows, and the      *)
(* commits and the paths of a context.  Each component has an inductive      *)
(* invariant (InteractionInv, AssetInv, ArtifactInv, WatchInv, CommitsInv    *)
(* and PathsInv), the lemmas that show every action keeps it, and the        *)
(* theorems it yields.                                                     *)
EXTENDS Interaction, Assets, Artifacts, Watching, ContextGraph, FiniteSetTheorems, SequenceTheorems,
        TLAPS

(* ----------------------------- the interaction --------------------------- *)

Calling == {"called", "tool", "receipt", "noting"}
AtWork == {"agent"} \union Calling
Saying == {"native", "store", "permit", "start", "announce", "prepare"}
Handing == {"prepare", "sending", "answered", "sent"}
Unsaid == AtWork \union {"finish", "save", "settle", "present"} \union Saying
Steps == Unsaid \union Handing \union {"idle", "claimed", "resume", "report", "close", "ending"}

Spoken == Texts \union {"none", "silent"}
CallStates == {"none", "started", "uncertain", "blocked", "succeeded", "failed"}
Runners == {"nobody", "own", "recovered", "command"}

Rows == [status : {"received", "processing", "agent_completed", "send_succeeded", "send_failed", "completed"},
         phase : Phases, output : Texts \union {"none"}, fresh : BOOLEAN]
Lines == [attempt : {"none", "open", "completed", "failed"}, completed : Spoken, call : CallStates,
          assistant : Texts \union {"none"}, facts : SUBSET [by : Runners \union {"run"}, why : Whys]]
Durables == [intent : {"queued", "claimed", "blocked", "done"},
             status : {"accepted", "running", "interrupted", "uncertain", "failed", "blocked", "succeeded"},
             operation : CallStates, result : Spoken, log : RunOutcome!Outcomes]
Handlers == [pc : Steps,
             from : {"received", "agent_completed", "send_uncertain", "send_succeeded", "send_failed"},
             out : Spoken, by : Runners, answer : Whys \union CallStates, called : BOOLEAN, halted : BOOLEAN,
             end : {"none", "completed", "other", "send_uncertain", "send_failed"},
             mem : RunOutcome!Outcomes]

InteractionRows ==
  /\ setting \in [durable : BOOLEAN, native : BOOLEAN, command : BOOLEAN]
  /\ row \in Rows /\ line \in Lines /\ run \in Durables /\ handler \in Handlers
  /\ outside \in [ran : Nat, acted : Nat, arrived : Nat, said : SUBSET Texts, reached : BOOLEAN]
  /\ ~setting.durable => run = NewDurable
  /\ handler.pc \in {"called", "receipt", "save"} => setting.durable
  /\ handler.pc = "native" => setting.native

\* what a handler resumes from: a row that is received has no answer, and an
\* agent works only where there is none anywhere
Answering ==
  /\ row.status = "received" => row.output = "none"
  /\ handler.pc \notin {"idle", "ending"} => row.status # "received"
  /\ handler.pc = "claimed" => /\ row.status = "processing"
                               /\ handler.from = "received" => row.output = "none"
  /\ handler.pc = "resume" => /\ run.result = "none" /\ handler.out = row.output
                              /\ handler.out # "none" => handler.from # "received"
                              /\ handler.out = "none" => line.completed \notin Texts
  /\ handler.pc \in AtWork => row.output = "none" /\ line.completed \notin Texts
  /\ handler.pc \in AtWork \union {"finish", "save"} => run.result = "none"
  /\ handler.pc \in {"finish", "save", "settle"} => handler.out \in Answers \union {"silent"}
  /\ handler.pc \in Saying \union {"present"} => handler.out \in Texts

\* what is said is on the line before
Saids ==
  /\ outside.said \subseteq {line.assistant}
  /\ handler.pc \in Saying => line.assistant = handler.out

\* a call is on record before it acts
Acts ==
  /\ outside.acted <= 1
  /\ Recorded = "none" \/ handler.pc \in {"called", "tool"} => outside.acted = 0
  /\ handler.pc \in Calling => Recorded # "none"
  /\ handler.pc \in {"receipt", "noting"} => handler.answer \in {"blocked", "succeeded", "failed"}
  /\ handler.pc = "noting" /\ setting.durable /\ handler.answer = "failed" => run.operation = "uncertain"

\* what has arrived is never on the way again
Arrivals ==
  /\ outside.arrived <= 1
  /\ handler.pc \in Unsaid => outside.arrived = 0
  /\ handler.pc \in {"claimed", "resume"} /\ outside.arrived # 0 =>
       ~setting.durable /\ handler.from \in {"send_uncertain", "send_succeeded"}
  /\ handler.pc \in {"announce", "prepare", "sending", "answered"} =>
       row.status = "processing" /\ row.phase = "send_started"
  /\ outside.arrived # 0 => \/ row.status = "completed"
                            \/ row.status \in {"processing", "send_succeeded"} /\ row.phase = "send_started"
  /\ handler.pc = "sending" => outside.arrived = IF outside.reached THEN 1 ELSE 0
  /\ handler.pc = "answered" =>
       /\ handler.answer \in {"sent", "thrown", "unknown", "refused", "prepare"}
       /\ handler.answer \in {"refused", "prepare"} => outside.arrived = 0
       /\ handler.answer = "sent" => outside.arrived = 1
  /\ handler.pc = "sent" => outside.arrived = 1
  /\ handler.pc \in {"report", "close"} /\ handler.end = "send_failed" => outside.arrived = 0

Begun(o) == o.responding \/ o.delivered \/ o.failure # "none"
Noted == line.facts # {}

\* a durable run is not queued again once a send was announced or noted
Queued ==
  setting.durable =>
    /\ handler.pc # "idle" => run.intent = "claimed" /\ run.status = "running"
    /\ (outside.arrived # 0 \/ row.status = "send_succeeded" \/ handler.pc \in Handing) =>
         /\ Begun(run.log)
         /\ handler.pc = "idle" => run.intent # "queued"
         /\ handler.pc # "idle" => Begun(handler.mem)
    /\ handler.pc \in {"claimed", "resume"} => handler.from # "send_succeeded"
    /\ Noted => /\ handler.pc \in {"idle", "report", "close", "ending"}
                /\ handler.pc = "idle" => run.intent # "queued"
                /\ handler.pc \in {"close", "ending"} => Begun(handler.mem)
    /\ \A f, g \in line.facts : f.why = g.why
    /\ handler.pc = "report" => Noted /\ \A f \in line.facts : f.why = handler.answer

\* what a fold says about the line and the world
TrueFold(o) ==
  /\ o.delivered => Delivered /\ (setting.native \/ outside.arrived = 1)
  /\ o.quiet => run.result = "silent"
  /\ outside.arrived # 0 => o.responding \/ Delivered
  /\ handler.pc \in Handing => o.responding
  /\ o.pending # {} => handler.pc \in {"idle", "tool", "receipt", "noting"}

Truth ==
  setting.durable =>
    /\ TrueFold(run.log) /\ (handler.pc # "idle" => TrueFold(handler.mem))
    /\ run.log.failure = "uncertain" => Noted /\ ~Delivered
    /\ handler.pc # "idle" /\ handler.mem.failure = "uncertain" =>
         Unknown \/ (handler.pc \in {"close", "ending"} /\ ~Delivered)
    /\ handler.pc \in Calling => handler.mem.failure # "uncertain"
    /\ Delivered /\ handler.pc \in {"close", "ending"} => ~handler.mem.responding
    /\ \A f \in line.facts :
         /\ f.why # "confirmed"
         /\ f.why = "native" => setting.native
         /\ f.why = "sent" => outside.arrived = 1
         /\ f.why \in {"missing", "refused", "prepare", "denied"} => outside.arrived = 0

InteractionInv == InteractionRows /\ Answering /\ Saids /\ Acts /\ Arrivals /\ Queued /\ Truth /\ VerdictTrue

----------------------------------------------------------------------------

\* A handler goes on, with all else as it was.
Moves(pc) ==
  /\ handler' \in Handlers /\ handler'.pc = pc
  /\ handler'.from = handler.from /\ handler'.out = handler.out /\ handler'.by = handler.by
  /\ handler'.answer = handler.answer /\ handler'.end = handler.end /\ handler'.mem = handler.mem

Others(o, p) == p.pending = o.pending /\ p.delivered = o.delivered /\ p.quiet = o.quiet

Folds == RunOutcome!Outcomes

\* What the folds of the trace change.
LEMMA FoldFacts ==
  /\ RunOutcome!NewOutcome \in Folds /\ ~Begun(RunOutcome!NewOutcome)
  /\ RunOutcome!NewOutcome.pending = {} /\ ~RunOutcome!NewOutcome.quiet
  /\ \A o \in Folds, status \in {"failed", "blocked", "uncertain"} :
       LET p == RunOutcome!Fail(o, status)
       IN  /\ p \in Folds /\ Others(o, p) /\ p.responding = o.responding
           /\ p.failure = IF o.failure = "uncertain" THEN "uncertain" ELSE status
  /\ \A o \in Folds :
       /\ LET p == RunOutcome!ToolStarted(o, 1)
          IN  /\ p \in Folds /\ p.responding = o.responding /\ p.failure = o.failure
              /\ p.delivered = o.delivered /\ p.quiet = o.quiet
       /\ LET p == RunOutcome!ToolAnswered(o, 1)
          IN  /\ p \in Folds /\ p.responding = o.responding /\ p.failure = o.failure
              /\ p.delivered = o.delivered /\ p.quiet = o.quiet /\ p.pending = {}
       /\ LET p == RunOutcome!ResponseSending(o)
          IN  p \in Folds /\ Others(o, p) /\ p.responding /\ p.failure = o.failure
       /\ LET p == RunOutcome!Completed(o)
          IN  /\ p \in Folds /\ p.responding = o.responding /\ p.failure = o.failure
              /\ p.delivered = o.delivered /\ p.quiet /\ p.pending = o.pending
<1> DEFINE new == RunOutcome!NewOutcome
<1>1. new \in Folds /\ ~Begun(new) /\ new.pending = {} /\ ~new.quiet
  BY DEF Folds, RunOutcome!Outcomes, RunOutcome!NewOutcome, RunOutcome!Failures, Begun
<1>2. ASSUME NEW o \in Folds, NEW status \in {"failed", "blocked", "uncertain"}
      PROVE  LET p == RunOutcome!Fail(o, status)
             IN  /\ p \in Folds /\ Others(o, p) /\ p.responding = o.responding
                 /\ p.failure = IF o.failure = "uncertain" THEN "uncertain" ELSE status
  BY DEF Folds, RunOutcome!Outcomes, RunOutcome!Fail, RunOutcome!Failures, Others
<1>3. ASSUME NEW o \in Folds
      PROVE  /\ LET p == RunOutcome!ToolStarted(o, 1)
                IN  /\ p \in Folds /\ p.responding = o.responding /\ p.failure = o.failure
                    /\ p.delivered = o.delivered /\ p.quiet = o.quiet
             /\ LET p == RunOutcome!ToolAnswered(o, 1)
                IN  /\ p \in Folds /\ p.responding = o.responding /\ p.failure = o.failure
                    /\ p.delivered = o.delivered /\ p.quiet = o.quiet /\ p.pending = {}
  BY <1>3 DEF Folds, RunOutcome!Outcomes, RunOutcome!ToolStarted, RunOutcome!ToolAnswered
<1>4. ASSUME NEW o \in Folds
      PROVE  /\ LET p == RunOutcome!ResponseSending(o)
                IN  p \in Folds /\ Others(o, p) /\ p.responding /\ p.failure = o.failure
             /\ LET p == RunOutcome!Completed(o)
                IN  /\ p \in Folds /\ p.responding = o.responding /\ p.failure = o.failure
                    /\ p.delivered = o.delivered /\ p.quiet /\ p.pending = o.pending
  BY <1>4 DEF Folds, RunOutcome!Outcomes, RunOutcome!ResponseSending, RunOutcome!Completed, Others
<1> QED BY <1>1, <1>2, <1>3, <1>4

\* What the trace is told of a delivery.
LEMMA HeardFacts ==
  ASSUME NEW o \in Folds, NEW why \in Whys
  PROVE  LET p == HeardOf(o, why)
         IN  /\ p \in Folds /\ Begun(p) /\ p.pending = o.pending /\ p.quiet = o.quiet
             /\ p.delivered => o.delivered \/ Kind(why) = "succeeded"
             /\ Kind(why) = "succeeded" => ~p.responding /\ p.failure = o.failure
             /\ why \notin {"missing", "refused", "prepare"} /\ Kind(why) # "succeeded" =>
                  p.responding = o.responding
             /\ p.failure = "uncertain" => o.failure = "uncertain" \/ Kind(why) # "succeeded"
<1> USE DEF Folds, RunOutcome!Outcomes, RunOutcome!Failures, Begun, Kind
<1>1. CASE why \in {"sent", "native", "confirmed"}
  <2>1. \A n \in BOOLEAN :
          LET p == RunOutcome!ResponseSent(o, n, {})
          IN  /\ p \in Folds /\ p.pending = o.pending /\ p.quiet = o.quiet /\ p.delivered
              /\ ~p.responding /\ p.failure = o.failure
    BY DEF RunOutcome!ResponseSent
  <2>2. HeardOf(o, why) = RunOutcome!ResponseSent(o, why = "native", {})
    BY <1>1 DEF HeardOf
  <2> QED BY <1>1, <2>1, <2>2
<1>2. CASE why = "denied"
  BY <1>2 DEF HeardOf, RunOutcome!Fail
<1>3. CASE why \in {"unknown", "recovered", "thrown"}
  BY <1>3 DEF HeardOf, RunOutcome!Fail, RunOutcome!ResponseUncertain
<1>4. CASE why \in {"missing", "refused", "prepare"}
  BY <1>4 DEF HeardOf, RunOutcome!Fail, RunOutcome!ResponseFailed
<1> QED BY <1>1, <1>2, <1>3, <1>4 DEF Whys

\* What the verdict on a fold says about it.
LEMMA VerdictFacts ==
  ASSUME NEW o \in Folds
  PROVE  LET verdict == RunOutcome!Verdict(o)
         IN  /\ verdict \in RunOutcome!Verdicts
             /\ Begun(o) => verdict # "interrupted"
             /\ verdict = "succeeded" => o.delivered \/ o.quiet
             /\ verdict \in {"failed", "blocked"} => ~o.responding
             /\ verdict = "uncertain" => o.pending # {} \/ o.responding \/ o.failure = "uncertain"
BY DEF Folds, Begun, RunOutcome!Outcomes, RunOutcome!Failures, RunOutcome!Verdict, RunOutcome!Verdicts,
   RunOutcome!Unanswered

----------------------------------------------------------------------------

LEMMA ToFacts ==
  ASSUME handler \in Handlers, NEW pc \in Steps, To(pc)
  PROVE  Moves(pc)
BY DEF To, Moves, Handlers

\* A handler that throws ends, and its recorder has heard of it.
LEMMA ThrowsFacts ==
  ASSUME handler \in Handlers, NEW status \in {"failed", "blocked", "uncertain"}, Throws(status)
  PROVE  /\ handler' \in Handlers /\ handler'.pc = "ending"
         /\ Others(handler.mem, handler'.mem) /\ handler'.mem.responding = handler.mem.responding
         /\ setting.durable => Begun(handler'.mem)
         /\ handler'.mem.failure = IF ~setting.durable \/ handler.mem.failure = "uncertain"
                                   THEN handler.mem.failure ELSE status
<1> DEFINE mem == IF setting.durable THEN RunOutcome!Fail(handler.mem, status) ELSE handler.mem
<1>1. handler.mem \in Folds /\ "ending" \in Steps
  BY DEF Handlers, Folds, Steps
<1>2. /\ mem \in Folds /\ Others(handler.mem, mem) /\ mem.responding = handler.mem.responding
      /\ mem.failure = IF ~setting.durable \/ handler.mem.failure = "uncertain"
                         THEN handler.mem.failure ELSE status
  BY <1>1, FoldFacts DEF Others
<1>3. handler' = [handler EXCEPT !.pc = "ending", !.mem = mem]
  BY DEF Throws, Blame, Heard, Handlers
<1> HIDE DEF mem
<1>4. handler' \in Handlers /\ handler'.pc = "ending" /\ handler'.mem = mem
  BY <1>1, <1>2, <1>3 DEF Handlers, Folds
<1> QED BY <1>2, <1>4 DEF Begun

\* What throws between two writes, or with the last of them, leaves the invariant.
LEMMA ThrownInv ==
  ASSUME InteractionInv, NEW status \in {"failed", "blocked", "uncertain"}, Throws(status),
         UNCHANGED <<setting, run, outside>>,
         handler.pc \notin {"idle", "tool", "receipt", "noting", "report", "ending"},
         status = "uncertain" => handler.pc = "agent",
         row' \in Rows, row'.status = "received" => row'.output = "none",
         row'.status = "send_succeeded" => row.status = "send_succeeded",
         outside.arrived # 0 => \/ row'.status = "completed"
                                \/ row'.status \in {"processing", "send_succeeded"} /\ row'.phase = "send_started",
         line' \in Lines, line'.assistant = line.assistant, line'.call = line.call, line'.facts = line.facts
  PROVE  InteractionInv'
<1>1. handler \in Handlers
  BY DEF InteractionInv, InteractionRows
<1>2. /\ handler' \in Handlers /\ handler'.pc = "ending"
      /\ Others(handler.mem, handler'.mem) /\ handler'.mem.responding = handler.mem.responding
      /\ setting.durable => Begun(handler'.mem)
      /\ handler'.mem.failure = IF ~setting.durable \/ handler.mem.failure = "uncertain"
                                THEN handler.mem.failure ELSE status
  BY <1>1, ThrowsFacts
<1>3. (InteractionRows /\ Answering /\ Saids /\ Acts /\ Arrivals)'
  BY <1>2 DEF InteractionInv, InteractionRows, Answering, Saids, Acts, Arrivals, Recorded, Unsaid, Calling,
     AtWork, Saying
<1>4. Queued'
  BY <1>2 DEF InteractionInv, Queued, Noted, Handing, Begun
<1>5. Truth'
  BY <1>2 DEF InteractionInv, Truth, TrueFold, Queued, Noted, Delivered, Handing, Calling, Others, Unknown
<1>6. VerdictTrue'
  BY DEF InteractionInv, VerdictTrue, Delivered, Unknown
<1> QED BY <1>3, <1>4, <1>5, <1>6 DEF InteractionInv

LEMMA ThrownOnlyInv ==
  ASSUME InteractionInv, Throws("failed"), UNCHANGED <<setting, row, line, run, outside>>,
         handler.pc \notin {"idle", "tool", "receipt", "noting", "report", "ending"}
  PROVE  InteractionInv'
<1>1. /\ row \in Rows /\ line \in Lines /\ (row.status = "received" => row.output = "none")
      /\ outside.arrived # 0 => \/ row.status = "completed"
                                \/ row.status \in {"processing", "send_succeeded"} /\ row.phase = "send_started"
  BY DEF InteractionInv, InteractionRows, Answering, Arrivals
<1> QED BY <1>1, ThrownInv

\* A fact about the delivery goes to the line, or is refused there.
LEMMA NoteInv ==
  ASSUME InteractionInv, NEW why \in Whys, NEW end \in {"completed", "other", "send_uncertain", "send_failed"},
         Note(why, end), UNCHANGED <<setting, row, run, outside>>,
         handler.pc \in {"resume", "native", "store", "permit", "answered", "sent"},
         why = "native" => setting.native, why = "sent" => outside.arrived = 1,
         why \in {"missing", "refused", "prepare", "denied"} \/ end = "send_failed" => outside.arrived = 0,
         why = "confirmed" => ~setting.durable
  PROVE  InteractionInv'
<1>1. handler \in Handlers /\ line \in Lines
  BY DEF InteractionInv, InteractionRows
<1>2. CASE Throws("failed") /\ UNCHANGED line
  BY <1>2, ThrownOnlyInv
<1>3. CASE ~(Throws("failed") /\ UNCHANGED line)
  <2> DEFINE fact == [by |-> RunKey, why |-> why]
  <2>1. /\ line' = [line EXCEPT !.facts = line.facts \union {fact}]
        /\ handler' = [handler EXCEPT !.pc = "report", !.answer = why, !.end = end]
    BY <1>3 DEF Note
  <2>2. fact \in [by : Runners \union {"run"}, why : Whys] /\ fact.why = why
    BY <1>1 DEF RunKey, Handlers
  <2> HIDE DEF fact
  <2>3. /\ line' \in Lines /\ line'.attempt = line.attempt /\ line'.completed = line.completed
        /\ line'.call = line.call /\ line'.assistant = line.assistant
        /\ line'.facts = line.facts \union {fact}
    BY <1>1, <2>1, <2>2 DEF Lines
  <2>4. /\ handler' \in Handlers /\ handler'.pc = "report" /\ handler'.answer = why /\ handler'.end = end
        /\ handler'.mem = handler.mem /\ handler'.out = handler.out /\ handler'.from = handler.from
    BY <1>1, <2>1 DEF Handlers, Steps
  <2>5. (InteractionRows /\ Answering /\ Saids /\ Acts /\ Arrivals)'
    BY <2>3, <2>4 DEF InteractionInv, InteractionRows, Answering, Saids, Acts, Arrivals, Recorded, Unsaid,
       Calling, AtWork, Saying
  <2>6. setting.durable => line.facts = {}
    BY DEF InteractionInv, Queued, Noted
  <2>7. Queued'
    BY <2>2, <2>3, <2>4, <2>6 DEF InteractionInv, Queued, Noted, Handing, Begun
  <2>8. Delivered' <=> Delivered \/ Kind(why) = "succeeded"
    BY <2>2, <2>3 DEF Delivered, Kind
  <2>9. Truth'
    BY <2>2, <2>3, <2>4, <2>6, <2>8 DEF InteractionInv, Truth, TrueFold, Queued, Noted, Delivered, Handing,
       Calling, Unknown
  <2>10. VerdictTrue'
    BY <2>3, <2>6, <2>8 DEF InteractionInv, VerdictTrue, Queued, Unknown, InteractionRows, NewDurable
  <2> QED BY <2>5, <2>7, <2>9, <2>10 DEF InteractionInv
<1> QED BY <1>2, <1>3

----------------------------------------------------------------------------

\* An untouched event has the invariant.
LEMMA InteractionInitInv == InteractionInit => InteractionInv
<1> SUFFICES ASSUME InteractionInit PROVE InteractionInv
    OBVIOUS
<1> USE InteractionAssumption DEF InteractionInit
<1>1. "none" \notin Texts
  BY DEF Texts
<1>2. InteractionRows
  BY FoldFacts DEF InteractionRows, NewRow, NewLine, NewDurable, Idle, Untouched, Rows, Lines, Durables,
     Handlers, Spoken, CallStates, Phases, Steps, Runners, Folds
<1>3. /\ handler.pc = "idle" /\ row.status = "received" /\ row.output = "none" /\ line.facts = {}
      /\ outside.arrived = 0 /\ outside.acted = 0 /\ outside.said = {} /\ run = NewDurable
      /\ run.log = RunOutcome!NewOutcome /\ run.status = "accepted" /\ run.intent = "queued"
  BY DEF NewRow, NewLine, NewDurable, Idle, Untouched
<1>4. Answering /\ Saids /\ Acts /\ Arrivals
  BY <1>3 DEF Answering, Saids, Acts, Arrivals, AtWork, Calling, Saying, Unsaid
<1>5. Queued
  BY <1>3 DEF Queued, Handing, Noted
<1>6. Truth
  BY <1>3, FoldFacts DEF Truth, TrueFold, Begun, Handing, Calling, Noted, Delivered
<1>7. VerdictTrue
  BY <1>3 DEF VerdictTrue
<1> QED BY <1>2, <1>4, <1>5, <1>6, <1>7 DEF InteractionInv

\* A handler is claimed, with a new fold; durable, of a run that is queued.
LEMMA ClaimInv ==
  ASSUME InteractionInv, Claimed, ~Ignored, handler.pc = "idle", UNCHANGED <<setting, line, outside>>,
         IF setting.durable THEN /\ run.intent = "queued"
                                 /\ run' = [run EXCEPT !.intent = "claimed", !.status = "running",
                                                       !.log = RunOutcome!NewOutcome]
                            ELSE UNCHANGED run
  PROVE  InteractionInv'
<1>1. row \in Rows /\ line \in Lines /\ run \in Durables /\ (~setting.durable => run = NewDurable)
  BY DEF InteractionInv, InteractionRows
<1>2. /\ row' \in Rows /\ row'.status = "processing" /\ row'.phase = row.phase /\ row'.output = row.output
  BY <1>1 DEF Claimed, Stored, Rows
<1>3. /\ RecoveryStatus(row) \in {"received", "agent_completed", "send_uncertain", "send_succeeded", "send_failed"}
      /\ RecoveryStatus(row) = "received" => row.output = "none"
      /\ RecoveryStatus(row) = "send_succeeded" => row.status = "send_succeeded"
      /\ row.status # "completed"
      /\ outside.arrived # 0 => RecoveryStatus(row) \in {"send_uncertain", "send_succeeded"}
  BY <1>1 DEF RecoveryStatus, Ignored, Rows, InteractionInv, Answering, Arrivals
<1>4. /\ handler' \in Handlers /\ handler'.pc = "claimed" /\ handler'.from = RecoveryStatus(row)
      /\ handler'.mem = RunOutcome!NewOutcome
  BY <1>3, FoldFacts DEF Claimed, Idle, Handlers, Steps, Spoken, Runners, CallStates, Folds
<1>5. /\ run' \in Durables /\ run'.operation = run.operation /\ run'.result = run.result
      /\ ~setting.durable => run' = NewDurable
      /\ setting.durable => /\ run'.intent = "claimed" /\ run'.status = "running"
                            /\ run'.log = RunOutcome!NewOutcome
  <2> DEFINE taken == [run EXCEPT !.intent = "claimed", !.status = "running", !.log = RunOutcome!NewOutcome]
  <2>1. /\ taken \in Durables /\ taken.operation = run.operation /\ taken.result = run.result
        /\ taken.intent = "claimed" /\ taken.status = "running" /\ taken.log = RunOutcome!NewOutcome
    BY <1>1, FoldFacts DEF Durables, Folds
  <2>2. IF setting.durable THEN run' = taken ELSE run' = run
    OBVIOUS
  <2> HIDE DEF taken
  <2> QED BY <1>1, <2>1, <2>2
<1>6. setting.durable => outside.arrived = 0 /\ line.facts = {} /\ row.status # "send_succeeded"
  BY DEF InteractionInv, Queued, Noted
<1>7. (InteractionRows /\ Answering /\ Saids)'
  BY <1>2, <1>3, <1>4, <1>5 DEF InteractionInv, InteractionRows, Answering, Saids, Unsaid, Calling, AtWork,
     Saying
<1>11. Acts' /\ Arrivals'
  BY <1>2, <1>3, <1>4, <1>5, <1>6 DEF InteractionInv, InteractionRows, Acts, Arrivals, Recorded, Unsaid,
     Calling, AtWork, Saying
<1>8. Queued'
  BY <1>2, <1>3, <1>4, <1>5, <1>6 DEF InteractionInv, Queued, Noted, Handing
<1>9. Truth'
  BY <1>2, <1>4, <1>5, <1>6, FoldFacts DEF Truth, TrueFold, Noted, Delivered, Handing, Calling, Begun
<1>10. VerdictTrue'
  BY <1>5 DEF VerdictTrue, NewDurable
<1> QED BY <1>7, <1>8, <1>9, <1>10, <1>11 DEF InteractionInv

LEMMA RedeliverInv == ASSUME InteractionInv, Redeliver PROVE InteractionInv'
BY ClaimInv DEF Redeliver, At

\* The pump claims a queued run, or gives it up, or leaves it queued.
LEMMA DispatchInv == ASSUME InteractionInv, Dispatch PROVE InteractionInv'
<1>1. handler.pc = "idle" /\ setting.durable /\ run.intent = "queued" /\ run \in Durables
  BY DEF Dispatch, At, InteractionInv, InteractionRows
<1>2. CASE tries >= MaxTries
  <2>1. /\ run' = [run EXCEPT !.intent = "blocked", !.status = "blocked"]
        /\ UNCHANGED <<setting, row, line, handler, outside>>
    BY <1>2 DEF Dispatch
  <2>2. /\ run' \in Durables /\ run'.intent = "blocked" /\ run'.status = "blocked" /\ run'.log = run.log
        /\ run'.operation = run.operation /\ run'.result = run.result
    BY <1>1, <2>1 DEF Durables
  <2>3. (InteractionRows /\ Answering /\ Saids /\ Acts /\ Arrivals)'
    BY <1>1, <2>1, <2>2 DEF InteractionInv, InteractionRows, Answering, Saids, Acts, Arrivals, Recorded
  <2>4. Queued' /\ Truth'
    BY <1>1, <2>1, <2>2 DEF InteractionInv, Queued, Truth, TrueFold, Noted, Delivered, Unknown, Begun
  <2>5. VerdictTrue'
    BY <2>2 DEF VerdictTrue
  <2> QED BY <2>3, <2>4, <2>5 DEF InteractionInv
<1>3. CASE ~(tries >= MaxTries) /\ Ignored
  <2>1. UNCHANGED <<setting, row, line, run, handler, outside>>
    BY <1>3 DEF Dispatch
  <2> QED BY <2>1 DEF InteractionInv, InteractionRows, Answering, Saids, Acts, Arrivals, Recorded, Queued,
     Noted, Begun, Truth, TrueFold, Delivered, Unknown, VerdictTrue
<1>4. CASE ~(tries >= MaxTries) /\ ~Ignored
  BY <1>1, <1>4, ClaimInv DEF Dispatch
<1> QED BY <1>2, <1>3, <1>4

LEMMA AgeInv == ASSUME InteractionInv, Age PROVE InteractionInv'
<1>1. UNCHANGED <<setting, line, run, handler, outside>> /\ row \in Rows
  BY DEF Age, InteractionInv, InteractionRows
<1>2. row' \in Rows /\ row'.status = row.status /\ row'.phase = row.phase /\ row'.output = row.output
  BY <1>1 DEF Age, Rows
<1> QED BY <1>1, <1>2 DEF InteractionInv, InteractionRows, Answering, Saids, Acts, Arrivals, Recorded,
   Queued, Noted, Begun, Truth, TrueFold, Delivered, Unknown, VerdictTrue

LEMMA ThrowInv == ASSUME InteractionInv, Throw PROVE InteractionInv'
<1>1. /\ handler.pc \notin {"idle", "tool", "receipt", "noting", "report", "ending"}
      /\ Throws("failed") /\ UNCHANGED <<setting, row, line, run, outside>>
  BY DEF Throw, ThrowPoints
<1> QED BY <1>1, ThrownOnlyInv

----------------------------------------------------------------------------

\* A stored result goes to delivery, or there is nothing to deliver.
LEMMA UseResultInv == ASSUME InteractionInv, UseResult PROVE InteractionInv'
<1>1. /\ handler.pc = "claimed" /\ handler \in Handlers /\ run \in Durables /\ run.result # "none"
      /\ setting.durable /\ UNCHANGED <<setting, row, line, outside>>
  BY DEF UseResult, At, InteractionInv, InteractionRows, NewDurable
<1>2. CASE run.result = "silent"
  <2> DEFINE log == RunOutcome!Completed(run.log)
             mem == RunOutcome!Completed(handler.mem)
  <2>1. /\ run' = [run EXCEPT !.log = log]
        /\ handler' = [handler EXCEPT !.mem = mem, !.pc = "close", !.end = "completed"]
    BY <1>1, <1>2 DEF UseResult, Emit, Heard, Handlers
  <2>2. /\ log \in Folds /\ log.responding = run.log.responding /\ log.failure = run.log.failure
        /\ log.delivered = run.log.delivered /\ log.pending = run.log.pending
        /\ mem \in Folds /\ mem.responding = handler.mem.responding /\ mem.failure = handler.mem.failure
        /\ mem.delivered = handler.mem.delivered /\ mem.pending = handler.mem.pending
    BY <1>1, FoldFacts DEF Handlers, Durables, Folds
  <2> HIDE DEF log, mem
  <2>3. /\ run' \in Durables /\ run'.log = log /\ run'.intent = run.intent /\ run'.status = run.status
        /\ run'.operation = run.operation /\ run'.result = run.result
    BY <1>1, <2>1, <2>2 DEF Durables, Folds
  <2>4. /\ handler' \in Handlers /\ handler'.pc = "close" /\ handler'.end = "completed" /\ handler'.mem = mem
    BY <1>1, <2>1, <2>2 DEF Handlers, Folds, Steps
  <2> QED BY <1>1, <1>2, <2>2, <2>3, <2>4 DEF InteractionInv, InteractionRows, Answering, Saids, Acts,
     Arrivals, Recorded, Queued, Noted, Begun, Truth, TrueFold, Delivered, Unknown, VerdictTrue, Unsaid,
     Calling, AtWork, Saying, Handing
<1>3. CASE run.result # "silent"
  <2>1. /\ handler' = [handler EXCEPT !.pc = "present", !.out = run.result] /\ UNCHANGED run
    BY <1>3 DEF UseResult
  <2>2. run.result \in Texts
    BY <1>1, <1>3 DEF Durables, Spoken
  <2>3. /\ handler' \in Handlers /\ handler'.pc = "present" /\ handler'.out = run.result
        /\ handler'.mem = handler.mem
    BY <1>1, <2>1, <2>2 DEF Handlers, Spoken, Steps, Unsaid
  <2> QED BY <1>1, <2>1, <2>2, <2>3 DEF InteractionInv, InteractionRows, Answering, Saids, Acts, Arrivals,
     Recorded, Queued, Noted, Begun, Truth, TrueFold, Delivered, Unknown, VerdictTrue, Unsaid, Calling,
     AtWork, Saying, Handing
<1> QED BY <1>2, <1>3

\* What an earlier handler has left is put together, in the row and on the line.
LEMMA RecoverInv == ASSUME InteractionInv, Recover PROVE InteractionInv'
<1>1. /\ handler.pc = "claimed" /\ handler \in Handlers /\ row \in Rows /\ line \in Lines /\ run.result = "none"
      /\ UNCHANGED <<setting, run, outside>>
  BY DEF Recover, At, InteractionInv, InteractionRows
<1>2. /\ Kept \in Texts \union {"none"} /\ (Kept = "none" => row.output = "none" /\ line.completed \notin Texts)
      /\ Kept # row.output => row.output = "none"
  BY <1>1, InteractionAssumption DEF Kept, Rows, Lines, Texts
<1>3. /\ row' \in Rows /\ row'.output = Kept /\ row'.phase = row.phase /\ row'.status = "processing"
  <2>1. row.status = "processing"
    BY <1>1 DEF InteractionInv, Answering
  <2>2. CASE Kept # row.output
    BY <1>1, <1>2, <2>2 DEF Recover, Stored, Rows
  <2>3. CASE Kept = row.output
    BY <1>1, <2>1, <2>3 DEF Recover
  <2> QED BY <2>2, <2>3
<1>4. CASE Completion /\ line.attempt = "failed"
  <2>1. Throws("failed") /\ UNCHANGED line
    BY <1>4 DEF Recover
  <2>2. outside.arrived # 0 => row.phase = "send_started"
    BY <1>1 DEF InteractionInv, Arrivals, Answering
  <2> QED BY <1>1, <1>3, <2>1, <2>2, ThrownInv
<1>5. CASE ~(Completion /\ line.attempt = "failed")
  <2> DEFINE by == IF Kept # "none" THEN "recovered" ELSE "command"
             from == IF Kept # row.output /\ handler.from = "received" THEN "agent_completed" ELSE handler.from
  <2>1. /\ handler' = [handler EXCEPT !.pc = "resume", !.out = Kept, !.by = by, !.from = from]
        /\ line' = IF Completion THEN [line EXCEPT !.completed = Kept, !.attempt = "completed"] ELSE line
    BY <1>1, <1>5 DEF Recover, Handlers
  <2>2. /\ by \in Runners
        /\ from \in {"received", "agent_completed", "send_uncertain", "send_succeeded", "send_failed"}
        /\ from = handler.from \/ (from = "agent_completed" /\ handler.from = "received")
        /\ Kept # "none" => from # "received"
    BY <1>1, <1>2 DEF Runners, Handlers, InteractionInv, Answering
  <2> HIDE DEF by, from
  <2>3. /\ handler' \in Handlers /\ handler'.pc = "resume" /\ handler'.out = Kept /\ handler'.from = from
        /\ handler'.mem = handler.mem
    BY <1>1, <1>2, <2>1, <2>2 DEF Handlers, Spoken, Steps
  <2>4. /\ line' \in Lines /\ line'.call = line.call /\ line'.assistant = line.assistant
        /\ line'.facts = line.facts /\ (Kept = "none" => line'.completed = line.completed)
    <3>1. CASE Completion
      BY <1>1, <1>2, <2>1, <3>1 DEF Lines, Spoken, Completion
    <3>2. CASE ~Completion
      BY <1>1, <2>1, <3>2
    <3> QED BY <3>1, <3>2
  <2> QED BY <1>1, <1>2, <1>3, <2>2, <2>3, <2>4 DEF InteractionInv, InteractionRows, Answering, Saids,
     Acts, Arrivals, Recorded, Queued, Noted, Begun, Truth, TrueFold, Delivered, Unknown, VerdictTrue,
     Unsaid, Calling, AtWork, Saying, Handing
<1> QED BY <1>4, <1>5

\* What was left is delivered, noted, or closed.
LEMMA ResumeUnknownInv == ASSUME InteractionInv, ResumeUnknown PROVE InteractionInv'
<1>1. handler.pc = "resume" /\ UNCHANGED <<setting, row, run, outside>>
  BY DEF ResumeUnknown, At
<1>2. CASE Throws("failed") /\ UNCHANGED line
  BY <1>1, <1>2, ThrownOnlyInv
<1>3. CASE Note("recovered", "send_uncertain")
  BY <1>1, <1>3, NoteInv DEF Whys
<1> QED BY <1>2, <1>3 DEF ResumeUnknown

LEMMA ResumeAnswerInv == ASSUME InteractionInv, ResumeAnswer PROVE InteractionInv'
<1>1. /\ handler.pc = "resume" /\ handler \in Handlers /\ UNCHANGED <<setting, row, line, outside>>
      /\ handler.from \in {"agent_completed", "send_failed"} /\ handler.out # "none"
      /\ handler.out \in Texts /\ outside.arrived = 0
  BY DEF ResumeAnswer, Resendable, At, InteractionInv, InteractionRows, Answering, Arrivals, Rows
<1>2. CASE line.assistant # "none" /\ Delivered
  <2>1. ~setting.durable
    BY <1>1, <1>2 DEF InteractionInv, Queued, Noted, Delivered
  <2>2. run' = run /\ handler' = [handler EXCEPT !.pc = "close", !.end = "completed"]
    <3>1. /\ run' = [run EXCEPT !.log = run.log]
          /\ handler' = [[handler EXCEPT !.mem = handler.mem] EXCEPT !.pc = "close", !.end = "completed"]
      BY <1>2, <2>1 DEF ResumeAnswer, Emit, Heard
    <3>2. [handler EXCEPT !.mem = handler.mem] = handler
      BY <1>1 DEF Handlers
    <3>3. [run EXCEPT !.log = run.log] = run
      BY DEF InteractionInv, InteractionRows, Durables
    <3> QED BY <3>1, <3>2, <3>3
  <2>3. handler' \in Handlers /\ handler'.pc = "close" /\ handler'.end = "completed"
    BY <1>1, <2>2 DEF Handlers, Steps
  <2> QED BY <1>1, <2>1, <2>2, <2>3 DEF InteractionInv, InteractionRows, Answering, Saids, Acts, Arrivals,
     Recorded, Queued, Noted, Begun, Truth, TrueFold, Delivered, Unknown, VerdictTrue, Unsaid, Calling,
     AtWork, Saying, Handing
<1>3. CASE To("present") /\ UNCHANGED run
  <2>1. Moves("present")
    BY <1>1, <1>3, ToFacts DEF Steps, Unsaid
  <2> QED BY <1>1, <1>3, <2>1 DEF Moves, InteractionInv, InteractionRows, Answering, Saids, Acts, Arrivals,
     Recorded, Queued, Noted, Begun, Truth, TrueFold, Delivered, Unknown, VerdictTrue, Unsaid, Calling,
     AtWork, Saying, Handing
<1> QED BY <1>2, <1>3 DEF ResumeAnswer

LEMMA ResumeSentInv == ASSUME InteractionInv, ResumeSent PROVE InteractionInv'
<1>1. /\ handler.pc = "resume" /\ handler.from = "send_succeeded" /\ handler \in Handlers
      /\ UNCHANGED <<setting, row, run, outside>>
  BY DEF ResumeSent, At, InteractionInv, InteractionRows
<1>2. ~setting.durable
  BY <1>1 DEF InteractionInv, Queued
<1>3. CASE Throws("failed") /\ UNCHANGED line
  BY <1>1, <1>3, ThrownOnlyInv
<1>4. CASE Note("confirmed", "completed")
  BY <1>1, <1>2, <1>4, NoteInv DEF Whys
<1>5. CASE handler' = [handler EXCEPT !.pc = "close", !.end = "completed"] /\ UNCHANGED line
  <2>1. handler' \in Handlers /\ handler'.pc = "close" /\ handler'.end = "completed"
    BY <1>1, <1>5 DEF Handlers, Steps
  <2> QED BY <1>1, <1>2, <1>5, <2>1 DEF InteractionInv, InteractionRows, Answering, Saids, Acts, Arrivals,
     Recorded, Queued, Noted, Begun, Truth, TrueFold, Delivered, Unknown, VerdictTrue, Unsaid, Calling,
     AtWork, Saying, Handing
<1> QED BY <1>3, <1>4, <1>5 DEF ResumeSent

----------------------------------------------------------------------------

LEMMA CommandInv == ASSUME InteractionInv, Command PROVE InteractionInv'
<1>1. /\ handler.pc = "resume" /\ handler \in Handlers /\ UNCHANGED <<setting, row, line, run, outside>>
      /\ ~Resumable
  BY DEF Command, At, InteractionInv, InteractionRows
<1>2. PICK text \in Answers : handler' = [handler EXCEPT !.pc = "present", !.out = text]
  BY DEF Command
<1>3. /\ handler' \in Handlers /\ handler'.pc = "present" /\ handler'.out = text /\ handler'.mem = handler.mem
      /\ text \in Texts
  BY <1>1, <1>2 DEF Handlers, Steps, Unsaid, Spoken, Texts
<1>4. outside.arrived = 0
  BY <1>1 DEF Resumable, InteractionInv, Arrivals
<1> QED BY <1>1, <1>3, <1>4 DEF InteractionInv, InteractionRows, Answering, Saids, Acts, Arrivals,
   Recorded, Queued, Noted, Begun, Truth, TrueFold, Delivered, Unknown, VerdictTrue, Unsaid, Calling,
   AtWork, Saying, Handing

\* An agent starts only where no answer is left.
LEMMA Unanswered ==
  ASSUME InteractionInv, handler.pc = "resume", ~Resumable
  PROVE  /\ row.output = "none" /\ line.completed \notin Texts /\ run.result = "none" /\ outside.arrived = 0
         /\ handler.from \notin {"send_uncertain", "send_succeeded"}
BY DEF Resumable, Resendable, InteractionInv, InteractionRows, Handlers, Answering, Arrivals

LEMMA StartAgentInv == ASSUME InteractionInv, StartAgent PROVE InteractionInv'
<1>1. /\ handler.pc = "resume" /\ handler \in Handlers /\ line \in Lines /\ ~Resumable
      /\ UNCHANGED <<setting, row, run>>
  BY DEF StartAgent, At, InteractionInv, InteractionRows
<1>2. /\ row.output = "none" /\ line.completed \notin Texts /\ run.result = "none" /\ outside.arrived = 0
  BY <1>1, Unanswered
<1>3. /\ handler' \in Handlers /\ handler'.pc = "agent" /\ handler'.mem = handler.mem
  BY <1>1 DEF StartAgent, Handlers, Steps, Unsaid, AtWork, Runners
<1>4. /\ line' \in Lines /\ line'.completed = line.completed /\ line'.call = line.call
      /\ line'.assistant = line.assistant /\ line'.facts = line.facts
  BY <1>1 DEF StartAgent, Lines
<1>5. /\ outside' \in [ran : Nat, acted : Nat, arrived : Nat, said : SUBSET Texts, reached : BOOLEAN]
      /\ outside'.acted = outside.acted /\ outside'.arrived = outside.arrived /\ outside'.said = outside.said
      /\ outside'.reached = outside.reached
  BY DEF StartAgent, InteractionInv, InteractionRows
<1> QED BY <1>1, <1>2, <1>3, <1>4, <1>5 DEF InteractionInv, InteractionRows, Answering, Saids, Acts,
   Arrivals, Recorded, Queued, Noted, Begun, Truth, TrueFold, Delivered, Unknown, VerdictTrue, Unsaid,
   Calling, AtWork, Saying, Handing

LEMMA CallToolInv == ASSUME InteractionInv, CallTool PROVE InteractionInv'
<1>1. /\ handler.pc = "agent" /\ handler \in Handlers /\ line \in Lines /\ run \in Durables /\ Recorded = "none"
      /\ UNCHANGED <<setting, row, outside>> /\ setting.durable \in BOOLEAN
  BY DEF CallTool, At, Missing, InteractionInv, InteractionRows
<1>2. /\ handler' \in Handlers /\ handler'.pc = (IF setting.durable THEN "called" ELSE "tool")
      /\ handler'.mem = handler.mem
  BY <1>1 DEF CallTool, Handlers, Steps, Unsaid, AtWork, Calling
<1>3. CASE setting.durable
  <2>1. /\ run' = [run EXCEPT !.operation = "started"] /\ UNCHANGED line
    BY <1>3 DEF CallTool
  <2>2. /\ run' \in Durables /\ run'.operation = "started" /\ run'.intent = run.intent /\ run'.status = run.status
        /\ run'.result = run.result /\ run'.log = run.log
    BY <1>1, <2>1 DEF Durables, CallStates
  <2> QED BY <1>1, <1>2, <1>3, <2>1, <2>2 DEF InteractionInv, InteractionRows, Answering, Saids, Acts,
     Arrivals, Recorded, Queued, Noted, Begun, Truth, TrueFold, Delivered, Unknown, VerdictTrue, Unsaid,
     Calling, AtWork, Saying, Handing
<1>4. CASE ~setting.durable
  <2>1. /\ line' = [line EXCEPT !.call = "started"] /\ UNCHANGED run
    BY <1>4 DEF CallTool
  <2>2. /\ line' \in Lines /\ line'.call = "started" /\ line'.completed = line.completed
        /\ line'.assistant = line.assistant /\ line'.facts = line.facts
    BY <1>1, <2>1 DEF Lines, CallStates
  <2> QED BY <1>1, <1>2, <1>4, <2>1, <2>2 DEF InteractionInv, InteractionRows, Answering, Saids, Acts,
     Arrivals, Recorded, Queued, Noted, Begun, Truth, TrueFold, Delivered, Unknown, VerdictTrue, Unsaid,
     Calling, AtWork, Saying, Handing
<1> QED BY <1>3, <1>4

\* A call on record is answered from it, or its effect is unknown.
LEMMA ReplayToolInv == ASSUME InteractionInv, ReplayTool PROVE InteractionInv'
<1>1. /\ handler.pc = "agent" /\ handler \in Handlers /\ line \in Lines /\ run \in Durables /\ Recorded # "none"
      /\ UNCHANGED <<setting, row, run, outside>> /\ setting.durable \in BOOLEAN
  BY DEF ReplayTool, At, Missing, InteractionInv, InteractionRows
<1>2. PICK conflict \in BOOLEAN :
        LET undecided == ~conflict /\ Recorded \in {"started", "uncertain"}
        IN  /\ handler' = [(IF undecided THEN Blame(handler, "uncertain") ELSE handler)
                             EXCEPT !.called = TRUE,
                                    !.halted = conflict \/ undecided \/ Recorded = "failed"]
            /\ line' = IF undecided /\ ~setting.durable
                       THEN [line EXCEPT !.call = "uncertain"] ELSE line
  BY DEF ReplayTool
<1>3. /\ line' \in Lines /\ line'.completed = line.completed /\ line'.assistant = line.assistant
      /\ line'.facts = line.facts /\ line'.call \in {line.call, "uncertain"} /\ (setting.durable => line' = line)
  BY <1>1, <1>2 DEF Lines, CallStates
<1>4. /\ handler' \in Handlers /\ handler'.pc = "agent" /\ Others(handler.mem, handler'.mem)
      /\ handler'.mem.responding = handler.mem.responding
      /\ handler'.mem.failure \in {handler.mem.failure, "uncertain"}
      /\ handler'.mem.failure # handler.mem.failure => Recorded \in {"started", "uncertain"} /\ setting.durable
  <2> DEFINE mem == RunOutcome!Fail(handler.mem, "uncertain")
  <2>1. /\ mem \in Folds /\ Others(handler.mem, mem) /\ mem.responding = handler.mem.responding
        /\ mem.failure = "uncertain"
    BY <1>1, FoldFacts DEF Handlers, Folds
  <2>2. CASE ~conflict /\ Recorded \in {"started", "uncertain"}
    <3>1. handler' = [[handler EXCEPT !.mem = IF setting.durable THEN mem ELSE handler.mem] EXCEPT !.called = TRUE,
                        !.halted = TRUE]
      BY <1>2, <2>2 DEF Blame, Heard
    <3> HIDE DEF mem
    <3> QED BY <1>1, <2>1, <2>2, <3>1 DEF Handlers, Folds, Others
  <2>3. CASE ~(~conflict /\ Recorded \in {"started", "uncertain"})
    <3>1. PICK halted \in BOOLEAN : handler' = [handler EXCEPT !.called = TRUE, !.halted = halted]
      BY <1>2, <2>3
    <3> QED BY <1>1, <3>1 DEF Handlers, Others
  <2> QED BY <2>2, <2>3
<1>5. (InteractionRows /\ Answering /\ Saids /\ Acts /\ Arrivals)'
  BY <1>1, <1>3, <1>4 DEF InteractionInv, InteractionRows, Answering, Saids, Acts, Arrivals, Recorded,
     Queued, Noted, Begun, Truth, TrueFold, Delivered, Unknown, VerdictTrue, Unsaid, Calling, AtWork,
     Saying, Handing
<1>6. Queued' /\ VerdictTrue'
  BY <1>1, <1>3, <1>4 DEF InteractionInv, Queued, Noted, Begun, VerdictTrue, Delivered, Unknown, Handing,
     Others
<1>7. Truth'
  BY <1>1, <1>3, <1>4 DEF InteractionInv, Truth, TrueFold, Delivered, Unknown, Handing, Calling, Others,
     Noted, Recorded
<1> QED BY <1>5, <1>6, <1>7 DEF InteractionInv

\* The call is on the line and in the trace before the tool runs.
LEMMA NoteCallInv == ASSUME InteractionInv, NoteCall PROVE InteractionInv'
<1>1. /\ handler.pc = "called" /\ handler \in Handlers /\ line \in Lines /\ run \in Durables /\ setting.durable
      /\ UNCHANGED <<setting, row, outside>>
  BY DEF NoteCall, At, InteractionInv, InteractionRows
<1> DEFINE log == RunOutcome!ToolStarted(run.log, 1)
           mem == RunOutcome!ToolStarted(handler.mem, 1)
<1>2. /\ run' = [run EXCEPT !.log = log] /\ line' = [line EXCEPT !.call = "started"]
      /\ handler' = [handler EXCEPT !.pc = "tool", !.mem = mem]
  BY <1>1 DEF NoteCall, Handlers, Durables
<1>3. /\ log \in Folds /\ log.responding = run.log.responding /\ log.failure = run.log.failure
      /\ log.delivered = run.log.delivered /\ log.quiet = run.log.quiet
      /\ mem \in Folds /\ mem.responding = handler.mem.responding /\ mem.failure = handler.mem.failure
      /\ mem.delivered = handler.mem.delivered /\ mem.quiet = handler.mem.quiet
  BY <1>1, FoldFacts DEF Handlers, Durables, Folds
<1> HIDE DEF log, mem
<1>4. /\ run' \in Durables /\ run'.log = log /\ run'.intent = run.intent /\ run'.status = run.status
      /\ run'.operation = run.operation /\ run'.result = run.result
  BY <1>1, <1>2, <1>3 DEF Durables, Folds
<1>5. /\ handler' \in Handlers /\ handler'.pc = "tool" /\ handler'.mem = mem
  BY <1>1, <1>2, <1>3 DEF Handlers, Folds, Steps, Unsaid, AtWork, Calling
<1>6. /\ line' \in Lines /\ line'.completed = line.completed /\ line'.assistant = line.assistant
      /\ line'.facts = line.facts
  BY <1>1, <1>2 DEF Lines, CallStates
<1> QED BY <1>1, <1>3, <1>4, <1>5, <1>6 DEF InteractionInv, InteractionRows, Answering, Saids, Acts,
   Arrivals, Recorded, Queued, Noted, Begun, Truth, TrueFold, Delivered, Unknown, VerdictTrue, Unsaid,
   Calling, AtWork, Saying, Handing

LEMMA RunToolInv == ASSUME InteractionInv, RunTool PROVE InteractionInv'
<1>1. /\ handler.pc = "tool" /\ handler \in Handlers /\ UNCHANGED <<setting, row, line, run>>
      /\ setting.durable \in BOOLEAN /\ outside.acted = 0
  BY DEF RunTool, At, InteractionInv, InteractionRows, Acts
<1>2. PICK answer \in {"blocked", "succeeded", "failed"} :
        /\ outside' = [outside EXCEPT !.acted = IF answer = "blocked" THEN @ ELSE @ + 1]
        /\ handler' = [handler EXCEPT !.pc = IF setting.durable THEN "receipt" ELSE "noting", !.answer = answer]
  BY DEF RunTool
<1>3. /\ handler' \in Handlers /\ handler'.pc = (IF setting.durable THEN "receipt" ELSE "noting")
      /\ handler'.answer = answer /\ handler'.mem = handler.mem
  <2>1. (IF setting.durable THEN "receipt" ELSE "noting") \in Steps /\ answer \in Whys \union CallStates
    BY DEF Steps, Unsaid, AtWork, Calling, CallStates
  <2> QED BY <1>1, <1>2, <2>1 DEF Handlers
<1>4. /\ outside' \in [ran : Nat, acted : Nat, arrived : Nat, said : SUBSET Texts, reached : BOOLEAN]
      /\ outside'.acted \in {0, 1} /\ outside'.arrived = outside.arrived /\ outside'.said = outside.said
      /\ outside'.reached = outside.reached
  BY <1>1, <1>2 DEF InteractionInv, InteractionRows
<1> QED BY <1>1, <1>3, <1>4 DEF InteractionInv, InteractionRows, Answering, Saids, Acts, Arrivals,
   Recorded, Queued, Noted, Begun, Truth, TrueFold, Delivered, Unknown, VerdictTrue, Unsaid, Calling,
   AtWork, Saying, Handing

LEMMA ReceiveToolInv == ASSUME InteractionInv, ReceiveTool PROVE InteractionInv'
<1>1. /\ handler.pc = "receipt" /\ handler \in Handlers /\ run \in Durables /\ setting.durable
      /\ UNCHANGED <<setting, row, line, outside>> /\ handler.answer \in {"blocked", "succeeded", "failed"}
  BY DEF ReceiveTool, At, InteractionInv, InteractionRows, Acts
<1>2. Moves("noting")
  BY <1>1, ToFacts DEF ReceiveTool, Steps, Unsaid, AtWork, Calling
<1>3. /\ run' \in Durables /\ run'.operation = (IF handler.answer = "failed" THEN "uncertain" ELSE handler.answer)
      /\ run'.log = run.log /\ run'.intent = run.intent /\ run'.status = run.status /\ run'.result = run.result
  BY <1>1 DEF ReceiveTool, Durables, CallStates
<1>4. /\ handler'.pc = "noting"
      /\ handler'.answer = "failed" => run'.operation = "uncertain"
  BY <1>2, <1>3 DEF Moves
<1> QED BY <1>1, <1>2, <1>3, <1>4 DEF Moves, InteractionInv, InteractionRows, Answering, Saids, Acts,
   Arrivals, Recorded, Queued, Noted, Begun, Truth, TrueFold, Delivered, Unknown, VerdictTrue, Unsaid,
   Calling, AtWork, Saying, Handing

\* The answer goes to the line, into the trace and to the agent.
LEMMA NoteToolInv == ASSUME InteractionInv, NoteTool PROVE InteractionInv'
<1>1. /\ handler.pc = "noting" /\ handler \in Handlers /\ line \in Lines /\ run \in Durables
      /\ UNCHANGED <<setting, row, outside>> /\ setting.durable \in BOOLEAN
      /\ handler.answer \in {"blocked", "succeeded", "failed"}
      /\ setting.durable /\ handler.answer = "failed" => run.operation = "uncertain"
  BY DEF NoteTool, At, InteractionInv, InteractionRows, Acts
<1> DEFINE log == IF setting.durable THEN RunOutcome!ToolAnswered(run.log, 1) ELSE run.log
           heard == IF setting.durable THEN RunOutcome!ToolAnswered(handler.mem, 1) ELSE handler.mem
           mem == IF setting.durable /\ handler.answer = "failed" THEN RunOutcome!Fail(heard, "uncertain") ELSE heard
<1>2. /\ log \in Folds /\ log.responding = run.log.responding /\ log.failure = run.log.failure
      /\ log.delivered = run.log.delivered /\ log.quiet = run.log.quiet
      /\ setting.durable => log.pending = {}
      /\ ~setting.durable => log = run.log
  BY <1>1, FoldFacts DEF Durables, Folds
<1>3. /\ heard \in Folds /\ heard.responding = handler.mem.responding /\ heard.failure = handler.mem.failure
      /\ heard.delivered = handler.mem.delivered /\ heard.quiet = handler.mem.quiet
      /\ setting.durable => heard.pending = {}
  BY <1>1, FoldFacts DEF Handlers, Folds
<1>4. /\ line' = [line EXCEPT !.call = handler.answer] /\ run' = [run EXCEPT !.log = log]
      /\ handler' = [handler EXCEPT !.mem = mem, !.pc = "agent", !.answer = "none",
                                    !.halted = handler.answer = "failed"]
  BY <1>1 DEF NoteTool, Emit, Heard, Blame, Handlers
<1> HIDE DEF heard
<1>5. /\ mem \in Folds /\ mem.responding = handler.mem.responding
      /\ mem.failure = IF setting.durable /\ handler.answer = "failed" THEN "uncertain" ELSE handler.mem.failure
      /\ mem.delivered = handler.mem.delivered /\ mem.quiet = handler.mem.quiet
      /\ setting.durable => mem.pending = {}
  BY <1>3, FoldFacts DEF Others
<1> HIDE DEF log, mem
<1>6. /\ run' \in Durables /\ run'.log = log /\ run'.intent = run.intent /\ run'.status = run.status
      /\ run'.operation = run.operation /\ run'.result = run.result /\ (~setting.durable => run' = run)
  BY <1>1, <1>2, <1>4 DEF Durables, Folds
<1>7. /\ handler' \in Handlers /\ handler'.pc = "agent" /\ handler'.mem = mem
  BY <1>1, <1>4, <1>5 DEF Handlers, Folds, Steps, Unsaid, AtWork, CallStates
<1>8. /\ line' \in Lines /\ line'.completed = line.completed /\ line'.assistant = line.assistant
      /\ line'.facts = line.facts /\ line'.call = handler.answer
  BY <1>1, <1>4 DEF Lines, CallStates
<1>9. (InteractionRows /\ Answering /\ Saids /\ Acts /\ Arrivals)'
  BY <1>1, <1>6, <1>7, <1>8 DEF InteractionInv, InteractionRows, Answering, Saids, Acts, Arrivals,
     Recorded, Queued, Noted, Begun, Truth, TrueFold, Delivered, Unknown, VerdictTrue, Unsaid, Calling,
     AtWork, Saying, Handing
<1>10. Queued' /\ VerdictTrue'
  BY <1>1, <1>2, <1>5, <1>6, <1>7, <1>8 DEF InteractionInv, InteractionRows, Answering, Saids, Acts,
     Arrivals, Recorded, Queued, Noted, Begun, Truth, TrueFold, Delivered, Unknown, VerdictTrue, Unsaid,
     Calling, AtWork, Saying, Handing
<1>11. Truth'
  BY <1>1, <1>2, <1>5, <1>6, <1>7, <1>8 DEF InteractionInv, InteractionRows, Answering, Saids, Acts,
     Arrivals, Recorded, Queued, Noted, Begun, Truth, TrueFold, Delivered, Unknown, VerdictTrue, Unsaid,
     Calling, AtWork, Saying, Handing
<1> QED BY <1>9, <1>10, <1>11 DEF InteractionInv

----------------------------------------------------------------------------

\* The agent ends with an answer, which is kept in the row, on the line and as
\* the result of the run, in this order.
LEMMA AnswerInv == ASSUME InteractionInv, Answer PROVE InteractionInv'
<1>1. /\ handler.pc = "agent" /\ handler \in Handlers /\ row \in Rows
      /\ UNCHANGED <<setting, line, run, outside>>
  BY DEF Answer, At, InteractionInv, InteractionRows
<1>2. PICK text \in Answers \cup {"silent"}, kept \in BOOLEAN :
        /\ handler' = [handler EXCEPT !.pc = "finish", !.out = text]
        /\ IF text # "silent" /\ kept THEN Stored([row EXCEPT !.status = "processing", !.output = text])
           ELSE UNCHANGED row
  BY DEF Answer
<1>3. /\ handler' \in Handlers /\ handler'.pc = "finish" /\ handler'.out = text /\ handler'.mem = handler.mem
  BY <1>1, <1>2 DEF Handlers, Steps, Unsaid, Spoken, Texts
<1>4. row' \in Rows /\ row'.phase = row.phase /\ row'.status \in {row.status, "processing"}
  BY <1>1, <1>2 DEF Stored, Rows, Texts
<1> QED BY <1>1, <1>3, <1>4 DEF InteractionInv, InteractionRows, Answering, Saids, Acts, Arrivals,
   Recorded, Queued, Noted, Begun, Truth, TrueFold, Delivered, Unknown, VerdictTrue, Unsaid, Calling,
   AtWork, Saying, Handing

LEMMA FinishAgentInv == ASSUME InteractionInv, FinishAgent PROVE InteractionInv'
<1>1. /\ handler.pc = "finish" /\ handler \in Handlers /\ line \in Lines /\ setting.durable \in BOOLEAN
      /\ UNCHANGED <<setting, row, run, outside>>
  BY DEF FinishAgent, At, InteractionInv, InteractionRows
<1>2. \A pc \in {"save", "settle"} : To(pc) => Moves(pc)
  BY <1>1, ToFacts DEF Steps, Unsaid
<1>3. PICK pc \in {"save", "settle"} : Moves(pc) /\ (pc = "save" => setting.durable)
  BY <1>1, <1>2 DEF FinishAgent
<1>4. /\ line' \in Lines /\ line'.call = line.call /\ line'.assistant = line.assistant /\ line'.facts = line.facts
  BY <1>1 DEF FinishAgent, Lines, Handlers
<1> QED BY <1>1, <1>3, <1>4 DEF Moves, InteractionInv, InteractionRows, Answering, Saids, Acts, Arrivals,
   Recorded, Queued, Noted, Begun, Truth, TrueFold, Delivered, Unknown, VerdictTrue, Unsaid, Calling,
   AtWork, Saying, Handing

LEMMA SaveInv == ASSUME InteractionInv, Save PROVE InteractionInv'
<1>1. /\ handler.pc = "save" /\ handler \in Handlers /\ run \in Durables /\ setting.durable
      /\ UNCHANGED <<setting, row, line, outside>> /\ handler.out \in Spoken /\ handler.out # "none"
      /\ run.result = "none"
  BY InteractionAssumption DEF Save, At, InteractionInv, InteractionRows, Answering, Spoken, Texts
<1> DEFINE log == IF handler.out = "silent" THEN RunOutcome!Completed(run.log) ELSE run.log
           mem == RunOutcome!Completed(handler.mem)
<1>2. /\ run' = [run EXCEPT !.result = handler.out, !.log = log]
      /\ handler' = IF handler.out = "silent"
                      THEN [handler EXCEPT !.mem = mem, !.pc = "close", !.end = "completed"]
                      ELSE [handler EXCEPT !.pc = "settle"]
  BY <1>1 DEF Save, Heard, Handlers, Durables
<1>3. /\ log \in Folds /\ log.responding = run.log.responding /\ log.failure = run.log.failure
      /\ log.delivered = run.log.delivered /\ log.pending = run.log.pending
      /\ log.quiet => run.log.quiet \/ handler.out = "silent"
      /\ mem \in Folds /\ mem.responding = handler.mem.responding /\ mem.failure = handler.mem.failure
      /\ mem.delivered = handler.mem.delivered /\ mem.pending = handler.mem.pending
  BY <1>1, FoldFacts DEF Handlers, Durables, Folds
<1> HIDE DEF log, mem
<1>4. /\ run' \in Durables /\ run'.log = log /\ run'.intent = run.intent /\ run'.status = run.status
      /\ run'.operation = run.operation /\ run'.result = handler.out
  BY <1>1, <1>2, <1>3 DEF Durables, Folds
<1>5. ~run.log.quiet /\ ~handler.mem.quiet
  BY <1>1 DEF InteractionInv, Truth, TrueFold
<1>6. CASE handler.out = "silent"
  <2>1. /\ handler' \in Handlers /\ handler'.pc = "close" /\ handler'.end = "completed" /\ handler'.mem = mem
    BY <1>1, <1>2, <1>3, <1>6 DEF Handlers, Folds, Steps
  <2> QED BY <1>1, <1>3, <1>4, <1>6, <2>1 DEF InteractionInv, InteractionRows, Answering, Saids, Acts,
     Arrivals, Recorded, Queued, Noted, Begun, Truth, TrueFold, Delivered, Unknown, VerdictTrue, Unsaid,
     Calling, AtWork, Saying, Handing
<1>7. CASE handler.out # "silent"
  <2>1. /\ handler' \in Handlers /\ handler'.pc = "settle" /\ handler'.mem = handler.mem
        /\ handler'.out = handler.out
    BY <1>1, <1>2, <1>7 DEF Handlers, Steps, Unsaid
  <2> QED BY <1>1, <1>3, <1>4, <1>5, <1>7, <2>1 DEF InteractionInv, InteractionRows, Answering, Saids,
     Acts, Arrivals, Recorded, Queued, Noted, Begun, Truth, TrueFold, Delivered, Unknown, VerdictTrue,
     Unsaid, Calling, AtWork, Saying, Handing
<1> QED BY <1>6, <1>7

LEMMA SettleInv == ASSUME InteractionInv, Settle PROVE InteractionInv'
<1>1. /\ handler.pc = "settle" /\ handler \in Handlers /\ row \in Rows
      /\ UNCHANGED <<setting, line, run, outside>> /\ handler.out \in Answers \union {"silent"}
      /\ outside.arrived = 0
  BY DEF Settle, At, InteractionInv, InteractionRows, Answering, Arrivals, Unsaid
<1>2. CASE handler.out = "silent"
  <2>1. Moves("ending")
    BY <1>1, <1>2, ToFacts DEF Settle, Steps
  <2>2. row' \in Rows /\ row'.status = "completed" /\ row'.output = row.output
    BY <1>1, <1>2 DEF Settle, Stored, Rows
  <2> QED BY <1>1, <2>1, <2>2 DEF Moves, InteractionInv, InteractionRows, Answering, Saids, Acts, Arrivals,
     Recorded, Queued, Noted, Begun, Truth, TrueFold, Delivered, Unknown, VerdictTrue, Unsaid, Calling,
     AtWork, Saying, Handing
<1>3. CASE handler.out # "silent"
  <2>1. Moves("present")
    BY <1>1, <1>3, ToFacts DEF Settle, Steps, Unsaid
  <2>2. row' \in Rows /\ row'.status = "agent_completed"
    BY <1>1, <1>3 DEF Settle, Stored, Rows, Texts
  <2>3. handler.out \in Texts
    BY <1>1, <1>3 DEF Texts
  <2> QED BY <1>1, <2>1, <2>2, <2>3 DEF Moves, InteractionInv, InteractionRows, Answering, Saids, Acts,
     Arrivals, Recorded, Queued, Noted, Begun, Truth, TrueFold, Delivered, Unknown, VerdictTrue, Unsaid,
     Calling, AtWork, Saying, Handing
<1> QED BY <1>2, <1>3

\* The agent fails, which the user is told.
LEMMA FailAgentInv == ASSUME InteractionInv, FailAgent PROVE InteractionInv'
<1>1. /\ handler.pc = "agent" /\ handler \in Handlers /\ line \in Lines /\ run \in Durables
      /\ UNCHANGED <<setting, row, outside>> /\ setting.durable \in BOOLEAN
  BY DEF FailAgent, At, InteractionInv, InteractionRows
<1> DEFINE log == RunOutcome!Fail(run.log, "failed")
           mem == IF setting.durable THEN RunOutcome!Fail(handler.mem, "failed") ELSE handler.mem
<1>2. /\ log \in Folds /\ Others(run.log, log) /\ log.responding = run.log.responding
      /\ log.failure = IF run.log.failure = "uncertain" THEN "uncertain" ELSE "failed"
      /\ mem \in Folds /\ Others(handler.mem, mem) /\ mem.responding = handler.mem.responding
      /\ mem.failure = "uncertain" => handler.mem.failure = "uncertain"
      /\ setting.durable => mem.failure # "none"
  BY <1>1, FoldFacts DEF Handlers, Durables, Folds, Others
<1>3. /\ line' \in Lines /\ line'.completed = line.completed /\ line'.assistant = line.assistant
      /\ line'.facts = line.facts /\ line'.call = line.call
  BY <1>1 DEF FailAgent, Lines
<1>4. handler' = [handler EXCEPT !.mem = mem, !.pc = "present", !.out = "notice"]
  BY <1>1 DEF FailAgent, Blame, Heard, Handlers
<1>5. run' = run \/ (setting.durable /\ run' = [run EXCEPT !.log = log])
  BY <1>1 DEF FailAgent, Emit, RunOutcome!ModelFailed, Durables
<1> HIDE DEF log, mem
<1>6. /\ handler' \in Handlers /\ handler'.pc = "present" /\ handler'.out = "notice" /\ handler'.mem = mem
      /\ "notice" \in Texts
  BY <1>1, <1>2, <1>4 DEF Handlers, Folds, Steps, Unsaid, Spoken, Texts
<1>7. /\ run' \in Durables /\ run'.intent = run.intent /\ run'.status = run.status /\ run'.result = run.result
      /\ run'.operation = run.operation /\ run'.log \in {run.log, log} /\ (~setting.durable => run' = run)
  BY <1>1, <1>2, <1>5 DEF Durables, Folds
<1>8. (InteractionRows /\ Answering /\ Saids /\ Acts /\ Arrivals)'
  BY <1>1, <1>3, <1>6, <1>7 DEF InteractionInv, InteractionRows, Answering, Saids, Acts, Arrivals,
     Recorded, Queued, Noted, Begun, Truth, TrueFold, Delivered, Unknown, VerdictTrue, Unsaid, Calling,
     AtWork, Saying, Handing
<1>9. VerdictTrue'
  BY <1>1, <1>3, <1>7 DEF InteractionInv, VerdictTrue, Delivered, Unknown
<1>11. setting.durable => Begun(mem) /\ Begun(log)
  BY <1>2 DEF Begun
<1>12. Queued'
  BY <1>1, <1>3, <1>6, <1>7, <1>11 DEF InteractionInv, Queued, Noted, Handing
<1>10. Truth'
  BY <1>1, <1>2, <1>3, <1>6, <1>7 DEF Others, InteractionInv, InteractionRows, Answering, Saids, Acts,
     Arrivals, Recorded, Queued, Noted, Begun, Truth, TrueFold, Delivered, Unknown, VerdictTrue, Unsaid,
     Calling, AtWork, Saying, Handing
<1> QED BY <1>8, <1>9, <1>10, <1>12 DEF InteractionInv

LEMMA DeferAgentInv == ASSUME InteractionInv, DeferAgent PROVE InteractionInv'
<1>1. /\ handler.pc = "agent" /\ handler \in Handlers /\ line \in Lines /\ run \in Durables /\ row \in Rows
      /\ UNCHANGED <<setting, outside>> /\ setting.durable
  BY DEF DeferAgent, At, InteractionInv, InteractionRows
<1>2. /\ handler' \in Handlers /\ handler'.pc = "idle"
  BY FoldFacts DEF DeferAgent, Idle, Handlers, Steps, Spoken, Runners, CallStates, Folds
<1>3. /\ run' \in Durables /\ run'.intent = "queued" /\ run'.status = "interrupted" /\ run'.log = run.log
      /\ run'.operation = run.operation /\ run'.result = run.result
  BY <1>1 DEF DeferAgent, Durables
<1>4. /\ line' \in Lines /\ line'.completed = line.completed /\ line'.assistant = line.assistant
      /\ line'.facts = line.facts /\ line'.call = line.call
  BY <1>1 DEF DeferAgent, Lines
<1>5. /\ row' \in Rows /\ row'.status = "received" /\ row'.output = row.output
  BY <1>1 DEF DeferAgent, Stored, Rows
<1> QED BY <1>1, <1>2, <1>3, <1>4, <1>5 DEF InteractionInv, InteractionRows, Answering, Saids, Acts,
   Arrivals, Recorded, Queued, Noted, Begun, Truth, TrueFold, Delivered, Unknown, VerdictTrue, Unsaid,
   Calling, AtWork, Saying, Handing

LEMMA AgentThrowsInv == ASSUME InteractionInv, AgentThrows PROVE InteractionInv'
<1>1. /\ handler.pc = "agent" /\ line \in Lines /\ row \in Rows
      /\ UNCHANGED <<setting, run, outside>>
  BY DEF AgentThrows, At, InteractionInv, InteractionRows
<1>2. PICK status \in {"failed", "uncertain"} :
        /\ Throws(status)
        /\ row' \in Rows /\ row'.status \in {"completed", "received"} /\ row'.output = row.output
  BY <1>1 DEF AgentThrows, Stored, Rows, Phases
<1>3. /\ line' \in Lines /\ line'.assistant = line.assistant /\ line'.facts = line.facts /\ line'.call = line.call
  BY <1>1 DEF AgentThrows, Lines
<1>4. row.output = "none" /\ outside.arrived = 0
  BY <1>1 DEF InteractionInv, Answering, Arrivals, AtWork, Unsaid
<1> QED BY <1>1, <1>2, <1>3, <1>4, ThrownInv

----------------------------------------------------------------------------

\* The text is put on the line, unless the line keeps another one.
LEMMA PresentInv == ASSUME InteractionInv, Present PROVE InteractionInv'
<1>1. /\ handler.pc = "present" /\ handler \in Handlers /\ line \in Lines /\ setting.native \in BOOLEAN
      /\ handler.out \in Texts /\ UNCHANGED <<setting, row, run, outside>> /\ outside.said \subseteq Texts
  BY DEF Present, At, InteractionInv, InteractionRows, Answering
<1>2. CASE Throws("failed") /\ UNCHANGED line
  BY <1>1, <1>2, ThrownOnlyInv
<1>3. CASE ~(Throws("failed") /\ UNCHANGED line)
  <2> DEFINE pc == IF setting.native THEN "native" ELSE "store"
  <2>1. /\ line.assistant \in {"none", handler.out}
        /\ line' = [line EXCEPT !.assistant = IF line.assistant = "none" THEN handler.out ELSE line.assistant]
        /\ To(pc)
    BY <1>1, <1>3 DEF Present, Sayable, Lines
  <2>2. pc \in Steps
    BY DEF Steps, Unsaid, Saying
  <2>3. Moves(pc)
    BY <1>1, <2>1, <2>2, ToFacts
  <2>4. /\ line' \in Lines /\ line'.assistant = handler.out /\ line'.completed = line.completed
        /\ line'.facts = line.facts /\ line'.call = line.call
    BY <1>1, <2>1 DEF Lines
  <2>5. outside.said \subseteq {line'.assistant}
    BY <1>1, <2>1, <2>4, InteractionAssumption DEF InteractionInv, Saids, Texts
  <2> QED BY <1>1, <2>3, <2>4, <2>5 DEF Moves, InteractionInv, InteractionRows, Answering, Saids, Acts,
     Arrivals, Recorded, Queued, Noted, Begun, Truth, TrueFold, Delivered, Unknown, VerdictTrue, Unsaid,
     Calling, AtWork, Saying, Handing
<1> QED BY <1>2, <1>3

LEMMA DeliverNativeInv == ASSUME InteractionInv, DeliverNative PROVE InteractionInv'
<1>1. handler.pc = "native" /\ setting.native /\ UNCHANGED <<setting, row, run, outside>>
  BY DEF DeliverNative, At, InteractionInv, InteractionRows
<1> QED BY <1>1, NoteInv DEF DeliverNative, Whys

LEMMA NoChannelInv == ASSUME InteractionInv, NoChannel PROVE InteractionInv'
<1>1. handler.pc = "store" /\ outside.arrived = 0 /\ UNCHANGED <<setting, row, run, outside>>
  BY DEF NoChannel, At, InteractionInv, Arrivals, Unsaid, Saying
<1> QED BY <1>1, NoteInv DEF NoChannel, Whys

LEMMA StoreOutputInv == ASSUME InteractionInv, StoreOutput PROVE InteractionInv'
<1>1. /\ handler.pc = "store" /\ handler \in Handlers /\ row \in Rows /\ handler.out \in Texts
      /\ UNCHANGED <<setting, line, run, outside>>
  BY DEF StoreOutput, At, InteractionInv, InteractionRows, Answering, Saying
<1>2. Moves("permit")
  BY <1>1, ToFacts DEF StoreOutput, Steps, Unsaid, Saying
<1>3. row' \in Rows /\ row'.status = row.status /\ row'.phase = row.phase
  BY <1>1 DEF StoreOutput, Stored, Rows
<1> QED BY <1>1, <1>2, <1>3 DEF Moves, InteractionInv, InteractionRows, Answering, Saids, Acts, Arrivals,
   Recorded, Queued, Noted, Begun, Truth, TrueFold, Delivered, Unknown, VerdictTrue, Unsaid, Calling,
   AtWork, Saying, Handing

LEMMA PermitInv == ASSUME InteractionInv, Permit PROVE InteractionInv'
<1>1. handler.pc = "permit" /\ handler \in Handlers /\ UNCHANGED <<setting, row, line, run, outside>>
  BY DEF Permit, At, InteractionInv, InteractionRows
<1>2. Moves("start")
  BY <1>1, ToFacts DEF Permit, Steps, Unsaid, Saying
<1> QED BY <1>1, <1>2 DEF Moves, InteractionInv, InteractionRows, Answering, Saids, Acts, Arrivals,
   Recorded, Queued, Noted, Begun, Truth, TrueFold, Delivered, Unknown, VerdictTrue, Unsaid, Calling,
   AtWork, Saying, Handing

LEMMA DenyInv == ASSUME InteractionInv, Deny PROVE InteractionInv'
<1>1. handler.pc = "permit" /\ outside.arrived = 0 /\ UNCHANGED <<setting, row, run, outside>>
  BY DEF Deny, At, InteractionInv, Arrivals, Unsaid, Saying
<1> QED BY <1>1, NoteInv DEF Deny, Whys

\* The send is in the row and in the trace before the platform sees the text.
LEMMA StartSendInv == ASSUME InteractionInv, StartSend PROVE InteractionInv'
<1>1. /\ handler.pc = "start" /\ handler \in Handlers /\ row \in Rows
      /\ UNCHANGED <<setting, line, run, outside>>
  BY DEF StartSend, At, InteractionInv, InteractionRows
<1>2. Moves("announce")
  BY <1>1, ToFacts DEF StartSend, Steps, Unsaid, Saying
<1>3. row' \in Rows /\ row'.status = "processing" /\ row'.phase = "send_started"
  BY <1>1 DEF StartSend, Stored, Rows, Phases
<1> QED BY <1>1, <1>2, <1>3 DEF Moves, InteractionInv, InteractionRows, Answering, Saids, Acts, Arrivals,
   Recorded, Queued, Noted, Begun, Truth, TrueFold, Delivered, Unknown, VerdictTrue, Unsaid, Calling,
   AtWork, Saying, Handing

LEMMA AnnounceInv == ASSUME InteractionInv, Announce PROVE InteractionInv'
<1>1. /\ handler.pc = "announce" /\ handler \in Handlers /\ run \in Durables /\ setting.durable \in BOOLEAN
      /\ UNCHANGED <<setting, row, line, outside>>
  BY DEF Announce, At, InteractionInv, InteractionRows
<1> DEFINE log == IF setting.durable THEN RunOutcome!ResponseSending(run.log) ELSE run.log
           mem == IF setting.durable THEN RunOutcome!ResponseSending(handler.mem) ELSE handler.mem
<1>2. /\ run' = [run EXCEPT !.log = log]
      /\ handler' = [handler EXCEPT !.mem = mem, !.pc = "prepare"]
  BY <1>1 DEF Announce, Emit, Heard, Handlers
<1>3. /\ log \in Folds /\ Others(run.log, log) /\ log.failure = run.log.failure
      /\ setting.durable => log.responding
      /\ ~setting.durable => log = run.log
      /\ mem \in Folds /\ Others(handler.mem, mem) /\ mem.failure = handler.mem.failure
      /\ setting.durable => mem.responding
  BY <1>1, FoldFacts DEF Handlers, Durables, Folds, Others
<1> HIDE DEF log, mem
<1>4. /\ run' \in Durables /\ run'.log = log /\ run'.intent = run.intent /\ run'.status = run.status
      /\ run'.operation = run.operation /\ run'.result = run.result /\ (~setting.durable => run' = run)
  BY <1>1, <1>2, <1>3 DEF Durables, Folds
<1>5. /\ handler' \in Handlers /\ handler'.pc = "prepare" /\ handler'.out = handler.out /\ handler'.mem = mem
  BY <1>1, <1>2, <1>3 DEF Handlers, Folds, Steps, Unsaid, Saying
<1>6. (InteractionRows /\ Answering /\ Saids /\ Acts /\ Arrivals)'
  BY <1>1, <1>4, <1>5 DEF InteractionInv, InteractionRows, Answering, Saids, Acts, Arrivals, Recorded,
     Queued, Noted, Begun, Truth, TrueFold, Delivered, Unknown, VerdictTrue, Unsaid, Calling, AtWork,
     Saying, Handing
<1>7. setting.durable => Begun(log) /\ Begun(mem)
  BY <1>3 DEF Begun
<1>8. Queued' /\ VerdictTrue'
  BY <1>1, <1>4, <1>5, <1>7 DEF InteractionInv, Queued, Noted, VerdictTrue, Delivered, Unknown
<1>9. Truth'
  BY <1>1, <1>3, <1>4, <1>5 DEF InteractionInv, Truth, TrueFold, Noted, Delivered, Unknown, Calling, Others
<1> QED BY <1>6, <1>8, <1>9 DEF InteractionInv

----------------------------------------------------------------------------

LEMMA PrepareFailsInv == ASSUME InteractionInv, PrepareFails PROVE InteractionInv'
<1>1. /\ handler.pc = "prepare" /\ handler \in Handlers /\ UNCHANGED <<setting, row, line, run, outside>>
  BY DEF PrepareFails, At, InteractionInv, InteractionRows
<1>2. PICK why \in {"prepare", "thrown"} : handler' = [handler EXCEPT !.pc = "answered", !.answer = why]
  BY DEF PrepareFails
<1>3. /\ handler' \in Handlers /\ handler'.pc = "answered" /\ handler'.answer \in {"prepare", "thrown"}
      /\ handler'.mem = handler.mem
  BY <1>1, <1>2 DEF Handlers, Steps, Handing, Whys
<1> QED BY <1>1, <1>3 DEF InteractionInv, InteractionRows, Answering, Saids, Acts, Arrivals, Recorded,
   Queued, Noted, Begun, Truth, TrueFold, Delivered, Unknown, VerdictTrue, Unsaid, Calling, AtWork, Saying,
   Handing

\* The platform gets the text that is on the line.
LEMMA HandOutInv == ASSUME InteractionInv, HandOut PROVE InteractionInv'
<1>1. /\ handler.pc = "prepare" /\ handler \in Handlers /\ UNCHANGED <<setting, row, line, run>>
      /\ handler.out = line.assistant /\ handler.out \in Texts
  BY DEF HandOut, At, InteractionInv, InteractionRows, Saids, Answering, Saying
<1>2. Moves("sending")
  BY <1>1, ToFacts DEF HandOut, Steps, Handing
<1>3. PICK reached \in BOOLEAN :
        outside' = [outside EXCEPT !.reached = reached, !.said = @ \cup {handler.out},
                                   !.arrived = IF reached THEN @ + 1 ELSE @]
  BY DEF HandOut
<1>4. outside.arrived = 0 /\ outside \in [ran : Nat, acted : Nat, arrived : Nat, said : SUBSET Texts, reached : BOOLEAN]
  BY <1>1 DEF InteractionInv, InteractionRows, Arrivals, Unsaid, Saying
<1>5. /\ outside' \in [ran : Nat, acted : Nat, arrived : Nat, said : SUBSET Texts, reached : BOOLEAN]
      /\ outside'.acted = outside.acted /\ outside'.said = outside.said \union {handler.out}
      /\ outside'.arrived = IF outside'.reached THEN 1 ELSE 0
  <2> DEFINE given == outside.said \union {handler.out}
  <2>1. given \in SUBSET Texts
    BY <1>1, <1>4
  <2>2. outside' = [outside EXCEPT !.reached = reached, !.said = given,
                                   !.arrived = IF reached THEN outside.arrived + 1 ELSE outside.arrived]
    BY <1>3, <1>4
  <2> HIDE DEF given
  <2>3. CASE reached = TRUE
    <3>1. outside' = [outside EXCEPT !.reached = TRUE, !.said = given, !.arrived = 1]
      BY <1>4, <2>2, <2>3
    <3> QED BY <1>4, <2>1, <3>1 DEF given
  <2>4. CASE reached = FALSE
    <3>1. outside' = [outside EXCEPT !.reached = FALSE, !.said = given, !.arrived = 0]
      BY <1>4, <2>2, <2>4
    <3> QED BY <1>4, <2>1, <3>1 DEF given
  <2> QED BY <2>3, <2>4
<1>6. (InteractionRows /\ Answering /\ Saids /\ Acts /\ Arrivals)'
  BY <1>1, <1>2, <1>5 DEF Moves, InteractionInv, InteractionRows, Answering, Saids, Acts, Arrivals,
     Recorded, Queued, Noted, Begun, Truth, TrueFold, Delivered, Unknown, VerdictTrue, Unsaid, Calling,
     AtWork, Saying, Handing
<1>7. setting.durable => Begun(run.log) /\ Begun(handler.mem) /\ run.intent = "claimed" /\ run.status = "running"
  BY <1>1 DEF InteractionInv, Queued, Handing
<1>8. Queued'
  BY <1>1, <1>2, <1>7 DEF Moves, InteractionInv, Queued, Noted
<1>9. VerdictTrue'
  BY <1>1, <1>7 DEF InteractionInv, InteractionRows, NewDurable, VerdictTrue
<1>10. Delivered' = Delivered /\ Unknown' = Unknown /\ Noted' = Noted /\ outside'.arrived \in {0, 1}
  BY <1>1, <1>5 DEF Delivered, Unknown, Noted
<1>11. setting.durable => ~Noted /\ run.log.responding /\ handler.mem.responding
  BY <1>1 DEF InteractionInv, Queued, Truth, TrueFold, Handing
<1>12. setting.durable => TrueFold(run.log)' /\ TrueFold(handler.mem)'
  BY <1>1, <1>2, <1>4, <1>10, <1>11 DEF Moves, InteractionInv, Truth, TrueFold, Handing
<1>13. Truth'
  BY <1>1, <1>2, <1>4, <1>10, <1>11, <1>12 DEF Moves, InteractionInv, Truth, Noted, Calling
<1> QED BY <1>6, <1>8, <1>9, <1>13 DEF InteractionInv

LEMMA PlatformAnswersInv == ASSUME InteractionInv, PlatformAnswers PROVE InteractionInv'
<1>1. /\ handler.pc = "sending" /\ handler \in Handlers /\ UNCHANGED <<setting, row, line, run, outside>>
  BY DEF PlatformAnswers, At, InteractionInv, InteractionRows
<1>2. PICK answer \in {"thrown", "unknown", IF outside.reached THEN "sent" ELSE "refused"} :
        handler' = [handler EXCEPT !.pc = "answered", !.answer = answer]
  BY DEF PlatformAnswers
<1>3. /\ handler' \in Handlers /\ handler'.pc = "answered" /\ handler'.answer = answer
      /\ handler'.mem = handler.mem
  BY <1>1, <1>2 DEF Handlers, Steps, Handing, Whys
<1> QED BY <1>1, <1>3 DEF InteractionInv, InteractionRows, Answering, Saids, Acts, Arrivals, Recorded,
   Queued, Noted, Begun, Truth, TrueFold, Delivered, Unknown, VerdictTrue, Unsaid, Calling, AtWork, Saying,
   Handing

LEMMA NoteFailureInv == ASSUME InteractionInv, NoteFailure PROVE InteractionInv'
<1>1. /\ handler.pc = "answered" /\ handler.answer \in {"thrown", "unknown", "refused", "prepare"}
      /\ handler.answer \in {"refused", "prepare"} => outside.arrived = 0
      /\ UNCHANGED <<setting, row, run, outside>>
  BY DEF NoteFailure, At, InteractionInv, Arrivals
<1>2. PICK end \in {"send_uncertain", "send_failed"} :
        /\ Note(handler.answer, end)
        /\ end = "send_failed" => handler.answer \in {"refused", "prepare"}
  BY <1>1 DEF NoteFailure
<1> QED BY <1>1, <1>2, NoteInv DEF Whys

\* A confirmed send is in the row first, then on the line.
LEMMA StoreReceiptInv == ASSUME InteractionInv, StoreReceipt PROVE InteractionInv'
<1>1. /\ handler.pc = "answered" /\ handler.answer = "sent" /\ handler \in Handlers /\ row \in Rows
      /\ UNCHANGED <<setting, line, run, outside>>
  BY DEF StoreReceipt, At, InteractionInv, InteractionRows
<1>2. Moves("sent")
  BY <1>1, ToFacts DEF StoreReceipt, Steps, Handing
<1>3. row' \in Rows /\ row'.status = "send_succeeded" /\ row'.phase = row.phase
  BY <1>1 DEF StoreReceipt, Stored, Rows
<1> QED BY <1>1, <1>2, <1>3 DEF Moves, InteractionInv, InteractionRows, Answering, Saids, Acts, Arrivals,
   Recorded, Queued, Noted, Begun, Truth, TrueFold, Delivered, Unknown, VerdictTrue, Unsaid, Calling,
   AtWork, Saying, Handing

LEMMA NoteSentInv == ASSUME InteractionInv, NoteSent PROVE InteractionInv'
<1>1. handler.pc = "sent" /\ outside.arrived = 1 /\ UNCHANGED <<setting, row, run, outside>>
  BY DEF NoteSent, At, InteractionInv, Arrivals
<1> QED BY <1>1, NoteInv DEF NoteSent, Whys

\* The recorder hears of the fact that is on the line.
LEMMA ReportInv == ASSUME InteractionInv, Report PROVE InteractionInv'
<1>1. /\ handler.pc = "report" /\ handler \in Handlers /\ run \in Durables /\ setting.durable \in BOOLEAN
      /\ UNCHANGED <<setting, row, line, outside>> /\ (~setting.durable => run = NewDurable)
  BY DEF Report, At, InteractionInv, InteractionRows
<1> DEFINE log == IF setting.durable /\ handler.answer # "denied"
                  THEN HeardOf(run.log, handler.answer) ELSE run.log
           mem == IF setting.durable THEN HeardOf(handler.mem, handler.answer) ELSE handler.mem
<1>2. /\ run' = [run EXCEPT !.log = log]
      /\ handler' = [handler EXCEPT !.mem = mem, !.pc = "close"]
  <2>1. run' = [run EXCEPT !.log = log]
    <3>1. CASE handler.answer = "denied"
      <4>1. run' = run
        BY <3>1 DEF Report
      <4>2. run = [run EXCEPT !.log = run.log]
        BY <1>1 DEF Durables
      <4> QED BY <3>1, <4>1, <4>2
    <3>2. CASE handler.answer # "denied"
      BY <3>2 DEF Report, Emit
    <3> QED BY <3>1, <3>2
  <2>2. handler' = [handler EXCEPT !.mem = mem, !.pc = "close"]
    BY <1>1 DEF Report, Heard, Handlers
  <2> QED BY <2>1, <2>2
<1>3. setting.durable =>
        /\ handler.answer \in Whys /\ Noted /\ (Kind(handler.answer) = "succeeded" <=> Delivered)
        /\ handler.answer # "confirmed"
        /\ handler.answer = "native" => setting.native
        /\ handler.answer = "sent" => outside.arrived = 1
        /\ handler.answer \in {"missing", "refused", "prepare", "denied"} => outside.arrived = 0
  BY <1>1 DEF InteractionInv, InteractionRows, Lines, Queued, Truth, Noted, Delivered
<1>4. /\ log \in Folds /\ mem \in Folds /\ (~setting.durable => log = run.log)
      /\ log.pending = run.log.pending /\ log.quiet = run.log.quiet
      /\ mem.pending = handler.mem.pending /\ mem.quiet = handler.mem.quiet
      /\ setting.durable => Begun(mem) /\ (Begun(run.log) => Begun(log))
  BY <1>1, <1>3, HeardFacts DEF Handlers, Durables, Folds
<1>5. setting.durable =>
        /\ log.delivered => run.log.delivered \/ Delivered
        /\ mem.delivered => handler.mem.delivered \/ Delivered
        /\ Delivered => ~mem.responding
        /\ outside.arrived # 0 /\ ~Delivered =>
             log.responding = run.log.responding /\ mem.responding = handler.mem.responding
        /\ log.failure = "uncertain" => run.log.failure = "uncertain" \/ ~Delivered
        /\ mem.failure = "uncertain" => handler.mem.failure = "uncertain" \/ ~Delivered
  <2>1. run.log \in Folds /\ handler.mem \in Folds
    BY <1>1 DEF Handlers, Durables, Folds
  <2> QED BY <1>3, <2>1, HeardFacts
<1> HIDE DEF log, mem
<1>6. /\ run' \in Durables /\ run'.log = log /\ run'.intent = run.intent /\ run'.status = run.status
      /\ run'.operation = run.operation /\ run'.result = run.result /\ (~setting.durable => run' = run)
  BY <1>1, <1>2, <1>4 DEF Durables, Folds
<1>7. /\ handler' \in Handlers /\ handler'.pc = "close" /\ handler'.mem = mem /\ handler'.end = handler.end
  BY <1>1, <1>2, <1>4 DEF Handlers, Folds, Steps
<1>8. (InteractionRows /\ Answering /\ Saids /\ Acts /\ Arrivals)'
  BY <1>1, <1>6, <1>7 DEF InteractionInv, InteractionRows, Answering, Saids, Acts, Arrivals, Recorded,
     Queued, Noted, Begun, Truth, TrueFold, Delivered, Unknown, VerdictTrue, Unsaid, Calling, AtWork,
     Saying, Handing
<1>9. Queued' /\ VerdictTrue'
  BY <1>1, <1>4, <1>6, <1>7 DEF InteractionInv, Queued, Noted, VerdictTrue, Delivered, Unknown, Handing
<1>10. Delivered' = Delivered /\ Noted' = Noted
  BY <1>1 DEF Delivered, Noted
<1>11. setting.durable => TrueFold(run.log)' /\ TrueFold(handler.mem)'
  <2>1. setting.durable => TrueFold(run.log) /\ TrueFold(handler.mem) /\ run.log.pending = {} /\ handler.mem.pending = {}
    BY <1>1 DEF InteractionInv, Truth, TrueFold
  <2>2. Delivered /\ setting.durable => setting.native \/ outside.arrived = 1
    BY <1>3 DEF Kind, Whys
  <2>3. setting.durable => TrueFold(run.log)'
    BY <1>1, <1>4, <1>5, <1>6, <1>7, <1>10, <2>1, <2>2 DEF TrueFold, Handing
  <2>4. setting.durable => TrueFold(handler.mem)'
    BY <1>1, <1>4, <1>5, <1>6, <1>7, <1>10, <2>1, <2>2 DEF TrueFold, Handing
  <2> QED BY <2>3, <2>4
<1>12. Truth'
  BY <1>1, <1>3, <1>4, <1>5, <1>6, <1>7, <1>10, <1>11 DEF InteractionInv, Truth, Unknown, Calling
<1> QED BY <1>8, <1>9, <1>12 DEF InteractionInv

\* The row is closed last, or stays as it is.
LEMMA CloseInv == ASSUME InteractionInv, Close PROVE InteractionInv'
<1>1. /\ handler.pc = "close" /\ handler \in Handlers /\ row \in Rows
      /\ UNCHANGED <<setting, line, run, outside>>
  BY DEF Close, At, InteractionInv, InteractionRows
<1>2. Moves("ending")
  BY <1>1, ToFacts DEF Close, Steps
<1>3. \/ row' = row
      \/ /\ row' \in Rows
         /\ row'.status = (IF handler.end = "send_failed" THEN "send_failed" ELSE "completed")
  BY <1>1 DEF Close, Stored, Rows, Handlers, Phases
<1> QED BY <1>1, <1>2, <1>3 DEF Moves, InteractionInv, InteractionRows, Answering, Saids, Acts, Arrivals,
   Recorded, Queued, Noted, Begun, Truth, TrueFold, Delivered, Unknown, VerdictTrue, Unsaid, Calling,
   AtWork, Saying, Handing

----------------------------------------------------------------------------

\* A run ends with the verdict on what its recorder has heard.
LEMMA EndInv == ASSUME InteractionInv, End PROVE InteractionInv'
<1>1. /\ handler.pc = "ending" /\ handler \in Handlers /\ run \in Durables
      /\ UNCHANGED <<setting, row, line, outside>>
  BY DEF End, At, InteractionInv, InteractionRows
<1>2. handler' \in Handlers /\ handler'.pc = "idle"
  BY FoldFacts DEF End, Idle, Handlers, Steps, Spoken, Runners, CallStates, Folds
<1>3. CASE ~setting.durable
  <2>1. run' = run
    BY <1>3 DEF End
  <2> QED BY <1>1, <1>2, <1>3, <2>1 DEF InteractionInv, InteractionRows, Answering, Saids, Acts, Arrivals,
     Recorded, Queued, Noted, Begun, Truth, TrueFold, Delivered, Unknown, VerdictTrue, Unsaid, Calling,
     AtWork, Saying, Handing
<1>4. CASE setting.durable
  <2> DEFINE verdict == RunOutcome!Verdict(handler.mem)
  <2>1. run' = [run EXCEPT !.status = verdict, !.intent = StateOf(verdict)]
    BY <1>4 DEF End
  <2>2. /\ verdict \in RunOutcome!Verdicts
        /\ Begun(handler.mem) => verdict # "interrupted"
        /\ verdict = "succeeded" => handler.mem.delivered \/ handler.mem.quiet
        /\ verdict \in {"failed", "blocked"} => ~handler.mem.responding
        /\ verdict = "uncertain" =>
             handler.mem.pending # {} \/ handler.mem.responding \/ handler.mem.failure = "uncertain"
    BY <1>1, VerdictFacts DEF Handlers, Folds
  <2> HIDE DEF verdict
  <2>3. /\ run' \in Durables /\ run'.status = verdict /\ run'.log = run.log
        /\ run'.operation = run.operation /\ run'.result = run.result
        /\ run'.intent = "queued" => verdict = "interrupted"
    BY <1>1, <2>1, <2>2 DEF Durables, StateOf, RunOutcome!Verdicts
  <2>4. (InteractionRows /\ Answering /\ Saids /\ Acts /\ Arrivals)'
    BY <1>1, <1>2, <1>4, <2>3 DEF InteractionInv, InteractionRows, Answering, Saids, Acts, Arrivals,
       Recorded, Queued, Noted, Begun, Truth, TrueFold, Delivered, Unknown, VerdictTrue, Unsaid, Calling,
       AtWork, Saying, Handing
  <2>5. Queued'
    BY <1>1, <1>2, <1>4, <2>2, <2>3 DEF InteractionInv, Queued, Noted, Begun, Handing
  <2>6. Truth'
    BY <1>1, <1>2, <1>4, <2>3 DEF InteractionInv, Truth, TrueFold, Noted, Delivered, Handing, Calling
  <2>7. VerdictTrue'
    BY <1>1, <1>4, <2>2, <2>3 DEF InteractionInv, VerdictTrue, Truth, TrueFold, Delivered, Unknown
  <2> QED BY <2>4, <2>5, <2>6, <2>7 DEF InteractionInv
<1> QED BY <1>3, <1>4

JudgedTrace == FromAttempt(FromResult(FromTool(run.log)))

\* What a restart adds to the trace before it looks for a fact on the line.
LEMMA JudgedFacts ==
  ASSUME InteractionInv
  PROVE  /\ JudgedTrace \in Folds /\ (Begun(run.log) => Begun(JudgedTrace))
         /\ JudgedTrace.responding = run.log.responding /\ JudgedTrace.delivered = run.log.delivered
         /\ JudgedTrace.quiet => run.log.quiet \/ run.result = "silent"
         /\ JudgedTrace.failure = "uncertain" => run.log.failure = "uncertain"
         /\ JudgedTrace.pending # {} => run.log.pending # {}
<1> DEFINE one == FromTool(run.log)
           two == FromResult(one)
<1>1. run.log \in Folds
  BY DEF InteractionInv, InteractionRows, Durables, Folds
<1>2. /\ one \in Folds /\ one.responding = run.log.responding /\ one.failure = run.log.failure
      /\ one.delivered = run.log.delivered /\ one.quiet = run.log.quiet
      /\ one.pending # {} => run.log.pending # {}
  BY <1>1, FoldFacts DEF FromTool
<1> HIDE DEF one
<1>3. /\ two \in Folds /\ two.responding = one.responding /\ two.failure = one.failure
      /\ two.delivered = one.delivered /\ two.pending = one.pending
      /\ two.quiet => one.quiet \/ run.result = "silent"
  BY <1>2, FoldFacts DEF FromResult
<1> HIDE DEF two
<1>4. JudgedTrace = FromAttempt(two)
  BY DEF JudgedTrace, one, two
<1>5. /\ JudgedTrace \in Folds /\ Others(two, JudgedTrace) /\ JudgedTrace.responding = two.responding
      /\ JudgedTrace.failure = two.failure \/ JudgedTrace.failure = "failed"
  BY <1>3, <1>4, FoldFacts DEF FromAttempt, Others
<1> QED BY <1>2, <1>3, <1>5 DEF Begun, Others

\* The verdict of a restart, which knows one kind of fact at most.
LEMMA JudgementFacts ==
  ASSUME InteractionInv, setting.durable, handler.pc # "idle"
  PROVE  /\ Judgement \in RunOutcome!Verdicts
         /\ Begun(run.log) \/ Noted => Judgement # "interrupted"
         /\ Judgement = "succeeded" =>
              (Delivered /\ (setting.native \/ outside.arrived = 1)) \/ run.result = "silent"
         /\ Judgement \in {"failed", "blocked"} => Delivered \/ outside.arrived = 0
         /\ Judgement = "uncertain" /\ Delivered => FALSE
<1> DEFINE last == FromDelivery(JudgedTrace)
<1>1. /\ JudgedTrace \in Folds /\ (Begun(run.log) => Begun(JudgedTrace))
      /\ JudgedTrace.responding = run.log.responding /\ JudgedTrace.delivered = run.log.delivered
      /\ JudgedTrace.quiet => run.log.quiet \/ run.result = "silent"
      /\ JudgedTrace.failure = "uncertain" => run.log.failure = "uncertain"
      /\ JudgedTrace.pending # {} => run.log.pending # {}
  BY JudgedFacts
<1>2. Judgement = RunOutcome!Verdict(last)
  BY DEF Judgement, JudgedTrace
<1>3. /\ run.log.delivered => Delivered /\ (setting.native \/ outside.arrived = 1)
      /\ run.log.quiet => run.result = "silent"
      /\ outside.arrived # 0 => run.log.responding \/ Delivered
      /\ run.log.failure = "uncertain" => ~Delivered
      /\ run.log.pending # {} => ~Noted
  BY DEF InteractionInv, Truth, TrueFold, Queued
<1>4. CASE line.facts = {}
  <2>1. last = JudgedTrace /\ ~Delivered /\ ~Noted
    BY <1>4 DEF FromDelivery, Delivered, Noted
  <2> HIDE DEF last
  <2> QED BY <1>1, <1>2, <1>3, <2>1, VerdictFacts
<1>5. CASE line.facts # {}
  <2>1. PICK f \in line.facts : last = HeardOf(JudgedTrace, f.why)
    BY <1>5 DEF FromDelivery
  <2>2. /\ f.why \in Whys /\ (Kind(f.why) = "succeeded" <=> Delivered) /\ Noted
        /\ f.why # "confirmed"
        /\ f.why = "native" => setting.native
        /\ f.why = "sent" => outside.arrived = 1
        /\ f.why \in {"missing", "refused", "prepare", "denied"} => outside.arrived = 0
    BY <1>5 DEF InteractionInv, InteractionRows, Lines, Queued, Truth, Noted, Delivered
  <2>3. Delivered => setting.native \/ outside.arrived = 1
    BY <2>2 DEF Kind, Whys
  <2> HIDE DEF last
  <2>4. /\ last \in Folds /\ Begun(last) /\ last.pending = JudgedTrace.pending /\ last.quiet = JudgedTrace.quiet
        /\ last.delivered => JudgedTrace.delivered \/ Delivered
        /\ Delivered => ~last.responding /\ last.failure = JudgedTrace.failure
        /\ outside.arrived # 0 /\ ~Delivered => last.responding = JudgedTrace.responding
    BY <1>1, <2>1, <2>2, HeardFacts
  <2> QED BY <1>1, <1>2, <1>3, <2>2, <2>3, <2>4, VerdictFacts
<1> QED BY <1>4, <1>5

\* A kill leaves what is stored, and a restart judges a durable run by it.
LEMMA KillInv == ASSUME InteractionInv, Kill PROVE InteractionInv'
<1>1. /\ handler.pc # "idle" /\ run \in Durables /\ UNCHANGED <<setting, row, line, outside>>
      /\ handler' = Idle
  BY DEF Kill, At, InteractionInv, InteractionRows
<1>2. handler' \in Handlers /\ handler'.pc = "idle"
  BY <1>1, FoldFacts DEF Idle, Handlers, Steps, Spoken, Runners, CallStates, Folds
<1>3. CASE ~setting.durable
  <2>1. run' = run
    BY <1>3 DEF Kill
  <2> QED BY <1>1, <1>2, <1>3, <2>1 DEF InteractionInv, InteractionRows, Answering, Saids, Acts, Arrivals,
     Recorded, Queued, Noted, Begun, Truth, TrueFold, Delivered, Unknown, VerdictTrue, Unsaid, Calling,
     AtWork, Saying, Handing
<1>4. CASE setting.durable
  <2>1. run' = [run EXCEPT !.status = Judgement,
                  !.intent = IF Unknown \/ Judgement = "uncertain" THEN "blocked" ELSE StateOf(Judgement)]
    BY <1>4 DEF Kill, Judged
  <2>2. /\ Judgement \in RunOutcome!Verdicts
        /\ Begun(run.log) \/ Noted => Judgement # "interrupted"
        /\ Judgement = "succeeded" =>
             (Delivered /\ (setting.native \/ outside.arrived = 1)) \/ run.result = "silent"
        /\ Judgement \in {"failed", "blocked"} => Delivered \/ outside.arrived = 0
        /\ Judgement = "uncertain" => ~Delivered
    BY <1>1, <1>4, JudgementFacts
  <2>3. /\ run' \in Durables /\ run'.status = Judgement /\ run'.log = run.log
        /\ run'.operation = run.operation /\ run'.result = run.result
        /\ run'.intent = "queued" => Judgement = "interrupted"
    BY <1>1, <2>1, <2>2 DEF Durables, StateOf, RunOutcome!Verdicts
  <2>4. (InteractionRows /\ Answering /\ Saids /\ Acts /\ Arrivals)'
    BY <1>1, <1>2, <1>4, <2>3 DEF InteractionInv, InteractionRows, Answering, Saids, Acts, Arrivals,
       Recorded, Queued, Noted, Begun, Truth, TrueFold, Delivered, Unknown, VerdictTrue, Unsaid, Calling,
       AtWork, Saying, Handing
  <2>5. Queued'
    BY <1>1, <1>2, <1>4, <2>2, <2>3 DEF InteractionInv, Queued, Noted, Begun, Handing
  <2>6. Truth'
    BY <1>1, <1>2, <1>4, <2>3 DEF InteractionInv, Truth, TrueFold, Noted, Delivered, Handing, Calling
  <2>7. VerdictTrue'
    BY <1>1, <1>4, <2>2, <2>3 DEF VerdictTrue, Delivered, Unknown
  <2> QED BY <2>4, <2>5, <2>6, <2>7 DEF InteractionInv
<1> QED BY <1>3, <1>4

----------------------------------------------------------------------------

LEMMA SendStepInv == ASSUME InteractionInv, SendStep PROVE InteractionInv'
BY PresentInv, DeliverNativeInv, NoChannelInv, StoreOutputInv, PermitInv, DenyInv, StartSendInv,
   AnnounceInv, PrepareFailsInv, HandOutInv, PlatformAnswersInv, NoteFailureInv, StoreReceiptInv,
   NoteSentInv, ReportInv, CloseInv DEF SendStep

LEMMA AgentStepInv == ASSUME InteractionInv, AgentStep PROVE InteractionInv'
BY CommandInv, StartAgentInv, CallToolInv, ReplayToolInv, NoteCallInv, RunToolInv, ReceiveToolInv,
   NoteToolInv, AnswerInv, FinishAgentInv, SaveInv, SettleInv, FailAgentInv, DeferAgentInv,
   AgentThrowsInv DEF AgentStep

LEMMA ResumeStepInv == ASSUME InteractionInv, ResumeStep PROVE InteractionInv'
BY UseResultInv, RecoverInv, ResumeUnknownInv, ResumeAnswerInv, ResumeSentInv DEF ResumeStep

LEMMA InteractionStepInv == InteractionInv /\ [InteractionNext]_interaction => InteractionInv'
<1> SUFFICES ASSUME InteractionInv, [InteractionNext]_interaction PROVE InteractionInv'
    OBVIOUS
<1>1. CASE InteractionNext
  BY <1>1, RedeliverInv, DispatchInv, AgeInv, ThrowInv, ResumeStepInv, AgentStepInv, SendStepInv, EndInv,
     KillInv DEF InteractionNext
<1>2. CASE UNCHANGED interaction
  BY <1>2 DEF interaction, InteractionInv, InteractionRows, Answering, Saids, Acts, Arrivals, Recorded,
     Queued, Noted, Begun, Truth, TrueFold, Delivered, Unknown, VerdictTrue, Unsaid, Calling, AtWork,
     Saying, Handing
<1> QED BY <1>1, <1>2

LEMMA InteractionInvHolds == InteractionSpec => []InteractionInv
BY InteractionInitInv, InteractionStepInv, PTL DEF InteractionSpec

\* Whatever is killed, redelivered and resumed, the user reads one reply at most
\* and the tool call of the message takes effect at most once (HandledOnce of
\* Interaction; recovery.ts:72, run-coordinator.ts:409).
THEOREM HandledOnceHolds == InteractionSpec => []HandledOnce
<1>1. InteractionInv => HandledOnce
  BY DEF InteractionInv, Acts, Arrivals, HandledOnce, RepliedOnce, ActedOnce
<1> QED BY <1>1, InteractionInvHolds, PTL

\* What the platform was given is what the line keeps as the message of the
\* assistant (SaidIsRecorded of Interaction; conversation-coordinator.ts).
THEOREM SaidIsRecordedHolds == InteractionSpec => []SaidIsRecorded
<1>1. InteractionInv => SaidIsRecorded
  BY DEF InteractionInv, Saids, SaidIsRecorded
<1> QED BY <1>1, InteractionInvHolds, PTL

\* The verdict of a durable run, given at its end or by a restart, agrees with
\* the line and with what arrived (VerdictTrue of Interaction; trace/outcome.ts,
\* run-coordinator.ts).
THEOREM VerdictTrueHolds == InteractionSpec => []VerdictTrue
<1>1. InteractionInv => VerdictTrue
  BY DEF InteractionInv
<1> QED BY <1>1, InteractionInvHolds, PTL

\* Only StartAgent asks an agent.
LEMMA OthersAskNone ==
  ASSUME InteractionInv, [InteractionNext]_interaction, outside'.ran > outside.ran
  PROVE  StartAgent
<1>1. outside \in [ran : Nat, acted : Nat, arrived : Nat, said : SUBSET Texts, reached : BOOLEAN]
  BY DEF InteractionInv, InteractionRows
<1>2. outside' # outside
  BY <1>1
<1>3. \/ StartAgent \/ RunTool \/ HandOut
  BY <1>2 DEF InteractionNext, interaction, ResumeStep, AgentStep, SendStep, Redeliver, Dispatch, Age,
     Throw, UseResult, Recover, ResumeUnknown, ResumeAnswer, ResumeSent, Command, CallTool, ReplayTool,
     NoteCall, ReceiveTool, NoteTool, Answer, FinishAgent, Save, Settle, FailAgent, DeferAgent,
     AgentThrows, Present, DeliverNative, NoChannel, StoreOutput, Permit, Deny, StartSend, Announce,
     PrepareFails, PlatformAnswers, NoteFailure, StoreReceipt, NoteSent, Report, Close, End, Kill
<1>4. RunTool \/ HandOut => outside'.ran = outside.ran
  BY <1>1 DEF RunTool, HandOut
<1> QED BY <1>1, <1>3, <1>4

\* An agent is never asked again once its answer is stored anywhere
\* (AnswerNotRepeated of Interaction; delivery.ts:260, recovery.ts:34).
THEOREM AnswerNotRepeatedHolds == InteractionSpec => AnswerNotRepeated
<1> DEFINE unanswered == row.output = "none" /\ line.completed \notin Texts /\ run.result = "none"
<1>1. InteractionInv /\ [InteractionNext]_interaction =>
        [outside'.ran > outside.ran => unanswered]_interaction
  BY OthersAskNone, Unanswered DEF StartAgent, At
<1>2. InteractionSpec => [][outside'.ran > outside.ran => unanswered]_interaction
  BY <1>1, InteractionInvHolds, PTL DEF InteractionSpec
<1> QED BY <1>2 DEF AnswerNotRepeated

(* -------------------------------- the assets ------------------------------ *)

\* one write at a time is past its measure, and what it measured still holds
OnePlacing ==
  /\ \A j, k \in Jobs : job[j].at = "placing" /\ job[k].at = "placing" => j = k
  /\ \A j \in Jobs : job[j].at = "placing" =>
        job[j].content \notin blobs /\ Cardinality(blobs) < room
  /\ IsFiniteSet(blobs) /\ Cardinality(blobs) <= room

\* a blob comes before the version that refers to it
BlobFirst ==
  /\ \A j \in Jobs : /\ job[j].at = "stored" => job[j].content \in blobs
                     /\ job[j].at = "idle" => job[j] = NoJob
                     /\ job[j].at # "idle" => job[j].content \in Contents
  /\ \A v \in 1..Current : versions[v] \in blobs

\* one upload at a time, which repeats the content the upload has published,
\* and every answer named this content
OneContent ==
  /\ \A j, k \in Jobs : job[j].for = "upload" /\ job[k].for = "upload" => j = k
  /\ \A j \in Jobs :
        /\ job[j].for = "upload" => job[j].published = upload.version
        /\ job[j].for # "upload" => job[j].published = 0
        /\ job[j].published # 0 => versions[upload.version] = job[j].content
  /\ upload.version \in 0..Current
  /\ upload.version = 0 => answers = {}
  /\ upload.version # 0 => answers \subseteq {versions[upload.version]}

\* a bound read reads what the run is bound to, and what was shown is bound
ReadsBound ==
  /\ \A r \in Readers : /\ reading[r] # NoRead => reading[r].version \in 1..Current
                        /\ reading[r].bound => reading[r].version \in Bindings(r)
                        /\ Bindings(r) \subseteq 1..Current
  /\ ShownIsBound

AssetInv == AssetTypeOK /\ OnePlacing /\ BlobFirst /\ OneContent /\ ReadsBound

\* A workspace without files has its invariant.
LEMMA AssetInitInv == AssetInit => AssetInv
<1> SUFFICES ASSUME AssetInit PROVE AssetInv
    OBVIOUS
<1> USE AssetAssumption DEF AssetInit
<1>1. Len(<<>>) = 0 /\ 1..0 = {}
  OBVIOUS
<1>2. IsFiniteSet({}) /\ Cardinality({}) = 0
  BY FS_EmptySet
<1>3. AssetTypeOK
  <2>1. NoJob \in JobStates /\ NoRead \in [version : 0..MaxVersions, bound : BOOLEAN]
    BY DEF NoJob, NoRead, JobStates
  <2>2. /\ <<>> \in Seq(Contents) /\ <<>> \in Seq(1..MaxVersions) /\ Len(<<>>) <= MaxVersions
    BY <1>1
  <2>3. upload \in [version : 0..MaxVersions, expired : BOOLEAN]
    OBVIOUS
  <2> QED BY <2>1, <2>2, <2>3 DEF AssetTypeOK
<1>4. OnePlacing
  BY <1>2 DEF OnePlacing, NoJob
<1>5. BlobFirst /\ OneContent
  BY <1>1 DEF BlobFirst, OneContent, NoJob, Current
<1>6. ReadsBound
  BY <1>1 DEF ReadsBound, ShownIsBound, Bindings, NoRead, Current
<1> QED BY <1>3, <1>4, <1>5, <1>6 DEF AssetInv

\* One more version keeps those before it.
LEMMA VersionAppended ==
  ASSUME NEW content \in Contents, versions \in Seq(Contents)
  PROVE  /\ Append(versions, content) \in Seq(Contents)
         /\ Len(Append(versions, content)) = Current + 1 /\ Current \in Nat
         /\ Append(versions, content)[Current + 1] = content
         /\ \A v \in 1..Current : Append(versions, content)[v] = versions[v]
BY DEF Current

\* Every write, read and crash keeps the types.
LEMMA AssetStepTypes == AssetInv /\ [AssetNext]_assetVars => AssetTypeOK'
<1> SUFFICES ASSUME AssetInv, [AssetNext]_assetVars PROVE AssetTypeOK'
    OBVIOUS
<1> USE AssetAssumption DEF AssetInv, AssetTypeOK
<1>1. ASSUME NEW j \in Jobs, NEW content \in Contents,
             BeginUpload(j, content) \/ BeginWrite(j, content)
      PROVE  AssetTypeOK'
  <2>1. upload.version \in 0..MaxVersions /\ 0 \in 0..MaxVersions
    OBVIOUS
  <2>2. job' \in [Jobs -> JobStates]
    <3>1. \A for \in {"upload", "other"}, p \in 0..MaxVersions :
            [at |-> "staging", content |-> content, for |-> for, published |-> p] \in JobStates
      BY DEF JobStates
    <3>2. PICK for \in {"upload", "other"}, p \in 0..MaxVersions :
             job' = [job EXCEPT ![j] = [at |-> "staging", content |-> content, for |-> for,
                                        published |-> p]]
      BY <1>1, <2>1 DEF BeginUpload, BeginWrite
    <3> QED BY <3>1, <3>2
  <2> QED BY <1>1, <2>2 DEF BeginUpload, BeginWrite
<1>2. ASSUME NEW j \in Jobs, Place(j) \/ Rename(j) \/ Abandon(j)
      PROVE  AssetTypeOK'
  <2>1. NoJob \in JobStates
    BY DEF NoJob, JobStates
  <2>2. \A at \in {"stored", "placing"} : [job[j] EXCEPT !.at = at] \in JobStates
    BY DEF JobStates
  <2>3. job' \in [Jobs -> JobStates] 
    BY <1>2, <2>1, <2>2 DEF Place, Rename, Abandon
  <2>4. blobs' \subseteq Contents
    BY <1>2 DEF Place, Rename, Abandon, BlobFirst
  <2> QED BY <1>2, <2>3, <2>4 DEF Place, Rename, Abandon
<1>3. ASSUME NEW j \in Jobs, RecordVersion(j) PROVE AssetTypeOK'
  <2> DEFINE content == job[j].content
  <2>1. content \in Contents
    BY <1>3 DEF RecordVersion, BlobFirst
  <2>2. job' \in [Jobs -> JobStates]
    BY <1>3 DEF RecordVersion, NoJob, JobStates
  <2>3. Len(versions) \in Nat
    OBVIOUS
  <2>4. versions' \in Seq(Contents) /\ Len(versions') <= MaxVersions
    <3>1. \/ versions' = versions
          \/ versions' = Append(versions, content) /\ Current < MaxVersions
      BY <1>3 DEF RecordVersion
    <3>2. CASE versions' = versions
      BY <3>2
    <3>3. CASE versions' = Append(versions, content) /\ Current < MaxVersions
      <4>1. /\ Append(versions, content) \in Seq(Contents)
            /\ Len(Append(versions, content)) = Current + 1 /\ Current \in Nat
        BY <2>1, VersionAppended
      <4> QED BY <3>3, <4>1
    <3> QED BY <3>1, <3>2, <3>3
  <2>5. upload' \in [version : 0..MaxVersions, expired : BOOLEAN]
    <3>1. Len(versions') \in 0..MaxVersions
      BY <2>4
    <3> QED BY <1>3, <3>1 DEF RecordVersion
  <2>6. answers' \subseteq Contents
    BY <1>3, <2>1 DEF RecordVersion
  <2> QED BY <1>3, <2>2, <2>4, <2>5, <2>6 DEF RecordVersion
<1>4. ASSUME NEW r \in Readers, NEW asked \in 0..Current, BeginRead(r, asked)
      PROVE  AssetTypeOK'
  <2>1. pins[r] # <<>> => Head(pins[r]) \in 0..MaxVersions
    <3>1. pins[r] \in Seq(1..MaxVersions)
      OBVIOUS
    <3> QED BY <3>1
  <2>2. (IF asked = 0 THEN Current ELSE asked) \in 0..MaxVersions
    BY DEF Current
  <2>3. reading' \in [Readers -> [version : 0..MaxVersions, bound : BOOLEAN]]
    <3>1. CASE pins[r] # <<>>
      <4> DEFINE chosen == Head(pins[r])
      <4>1. reading' = [reading EXCEPT ![r] = [version |-> chosen, bound |-> TRUE]]
        BY <1>4, <3>1 DEF BeginRead
      <4>2. chosen \in 0..MaxVersions
        BY <2>1, <3>1
      <4> HIDE DEF chosen
      <4> QED BY <4>1, <4>2
    <3>2. CASE pins[r] = <<>>
      <4> DEFINE chosen == IF asked = 0 THEN Current ELSE asked
      <4>1. reading' = [reading EXCEPT ![r] = [version |-> chosen, bound |-> FALSE]]
        BY <1>4, <3>2 DEF BeginRead
      <4>2. chosen \in 0..MaxVersions
        BY <2>2
      <4> HIDE DEF chosen
      <4> QED BY <4>1, <4>2
    <3> QED BY <3>1, <3>2
  <2> QED BY <1>4, <2>3 DEF BeginRead
<1>5. ASSUME NEW r \in Readers, EndRead(r) PROVE AssetTypeOK'
  <2>1. reading[r].version \in 1..MaxVersions
    BY <1>5 DEF EndRead, ReadsBound, Current
  <2>2. BoundBy(r) \in [Readers -> Seq(1..MaxVersions)]
    BY <2>1 DEF BoundBy
  <2>3. reading' \in [Readers -> [version : 0..MaxVersions, bound : BOOLEAN]]
    BY <1>5 DEF EndRead, NoRead
  <2>4. pins' \in [Readers -> Seq(1..MaxVersions)]
    BY <1>5, <2>2 DEF EndRead
  <2>5. seen' \in [Readers -> SUBSET (1..MaxVersions)] /\ denied' \in BOOLEAN
    <3>1. seen' \in [Readers -> SUBSET (1..MaxVersions)]
      <4> DEFINE shown == seen[r] \union {reading[r].version}
      <4>1. seen' = seen \/ seen' = [seen EXCEPT ![r] = shown]
        BY <1>5 DEF EndRead
      <4>2. shown \in SUBSET (1..MaxVersions)
        BY <2>1
      <4> HIDE DEF shown
      <4> QED BY <4>1, <4>2
    <3>2. denied' = (denied \/ reading[r].bound) \/ denied' = denied
      <4>1. \/ denied' = (denied \/ reading[r].bound) /\ UNCHANGED <<pins, seen>>
            \/ UNCHANGED denied
        BY <1>5, Zenon DEF EndRead
      <4> QED BY <4>1, Zenon
    <3>3. denied \in BOOLEAN /\ (denied \/ reading[r].bound) \in BOOLEAN
      OBVIOUS
    <3>4. denied' \in BOOLEAN
      BY <3>2, <3>3
    <3> QED BY <3>1, <3>4
  <2> QED BY <1>5, <2>3, <2>4, <2>5 DEF EndRead
<1>6. ASSUME NEW r \in Readers, NEW version \in 1..Current, AttachVersion(r, version)
      PROVE  AssetTypeOK'
  <2>1. version \in 1..MaxVersions
    BY DEF Current
  <2> QED BY <1>6, <2>1 DEF AttachVersion
<1>7. CASE Hide \/ Expire
  BY <1>7 DEF Hide, Expire
<1>8. CASE Crash
  BY <1>8 DEF Crash, NoJob, NoRead, JobStates
<1>9. CASE UNCHANGED assetVars
  BY <1>9 DEF assetVars
<1> QED BY <1>1, <1>2, <1>3, <1>4, <1>5, <1>6, <1>7, <1>8, <1>9 DEF AssetNext

\* Every step of a job replaces its row and no other.
LEMMA JobStep ==
  ASSUME NEW j \in Jobs, NEW entry, job \in [Jobs -> JobStates], job' = [job EXCEPT ![j] = entry]
  PROVE  job'[j] = entry /\ \A k \in Jobs \ {j} : job'[k] = job[k]
OBVIOUS

\* A write begins: an upload only when there is no other one and with the
\* content it has published, if it has.
LEMMA BeginKeeps ==
  ASSUME AssetInv, NEW j \in Jobs, NEW content \in Contents,
         BeginUpload(j, content) \/ BeginWrite(j, content)
  PROVE  OnePlacing' /\ BlobFirst' /\ OneContent' /\ ReadsBound'
<1>1. PICK for \in {"upload", "other"}, p \in 0..MaxVersions :
        /\ job' = [job EXCEPT ![j] = [at |-> "staging", content |-> content, for |-> for,
                                      published |-> p]]
        /\ job[j] = NoJob
        /\ for = "upload" =>
             /\ ~Uploading /\ p = upload.version
             /\ p # 0 => versions[upload.version] = content
        /\ for = "other" => p = 0
  <2>1. upload.version \in 0..MaxVersions /\ 0 \in 0..MaxVersions
    BY AssetAssumption DEF AssetInv, AssetTypeOK
  <2> QED BY <2>1 DEF BeginUpload, BeginWrite
<1> DEFINE entry == [at |-> "staging", content |-> content, for |-> for, published |-> p]
<1>2. /\ job' = [job EXCEPT ![j] = entry]
      /\ entry.at = "staging" /\ entry.content = content /\ entry.for = for /\ entry.published = p
  BY <1>1
<1> HIDE DEF entry
<1>3. job'[j] = entry /\ \A k \in Jobs \ {j} : job'[k] = job[k]
  BY <1>2, JobStep DEF AssetInv, AssetTypeOK
<1>4. UNCHANGED <<room, blobs, versions, hidden, upload, pins, reading, answers, seen, denied>>
  BY DEF BeginUpload, BeginWrite
<1>5. OnePlacing'
  BY <1>2, <1>3, <1>4 DEF AssetInv, OnePlacing
<1>6. BlobFirst'
  BY <1>2, <1>3, <1>4 DEF AssetInv, BlobFirst, Current
<1>7. OneContent'
  BY <1>1, <1>2, <1>3, <1>4 DEF AssetInv, OneContent, Current, Uploading
<1>8. ReadsBound'
  BY <1>4 DEF AssetInv, ReadsBound, ShownIsBound, Bindings, Current
<1> QED BY <1>5, <1>6, <1>7, <1>8

\* The room is measured, or the blob is found, with no other write under way.
LEMMA PlaceKeeps ==
  ASSUME AssetInv, NEW j \in Jobs, Place(j) \/ Abandon(j)
  PROVE  OnePlacing' /\ BlobFirst' /\ OneContent' /\ ReadsBound'
<1>1. PICK entry :
        /\ job' = [job EXCEPT ![j] = entry] /\ job[j].at = "staging"
        /\ \/ entry = NoJob
           \/ entry = [job[j] EXCEPT !.at = "stored"] /\ job[j].content \in blobs
           \/ entry = [job[j] EXCEPT !.at = "placing"] /\ job[j].content \notin blobs
              /\ Cardinality(blobs) < room /\ Turn
  BY DEF Place, Abandon
<1>2. job[j] \in JobStates
  BY DEF AssetInv, AssetTypeOK
<1>3. \/ entry = NoJob
      \/ /\ entry.content = job[j].content /\ entry.for = job[j].for /\ entry.published = job[j].published
         /\ \/ entry.at = "stored" /\ job[j].content \in blobs
            \/ entry.at = "placing" /\ job[j].content \notin blobs /\ Cardinality(blobs) < room /\ Turn
  BY <1>1, <1>2 DEF JobStates
<1>4. job'[j] = entry /\ \A k \in Jobs \ {j} : job'[k] = job[k]
  BY <1>1, JobStep DEF AssetInv, AssetTypeOK
<1>5. UNCHANGED <<room, blobs, versions, hidden, upload, pins, reading, answers, seen, denied>>
  BY DEF Place, Abandon
<1>6. NoJob.at = "idle" /\ NoJob.for = "none" /\ NoJob.published = 0
  BY DEF NoJob
<1>7. OnePlacing'
  BY <1>1, <1>3, <1>4, <1>5, <1>6 DEF AssetInv, OnePlacing, Turn
<1>8. BlobFirst'
  BY <1>1, <1>3, <1>4, <1>5, <1>6 DEF AssetInv, BlobFirst, Current
<1>9. OneContent'
  BY <1>1, <1>3, <1>4, <1>5, <1>6 DEF AssetInv, OneContent, Current
<1>10. ReadsBound'
  BY <1>5 DEF AssetInv, ReadsBound, ShownIsBound, Bindings, Current
<1> QED BY <1>7, <1>8, <1>9, <1>10

\* The blob takes the place that was measured for it.
LEMMA RenameKeeps ==
  ASSUME AssetInv, NEW j \in Jobs, Rename(j)
  PROVE  OnePlacing' /\ BlobFirst' /\ OneContent' /\ ReadsBound'
<1> DEFINE entry == [job[j] EXCEPT !.at = "stored"]
<1>1. job[j] \in JobStates /\ room \in Nat
  BY AssetAssumption DEF AssetInv, AssetTypeOK
<1>2. /\ job' = [job EXCEPT ![j] = entry] /\ job[j].at = "placing"
      /\ entry.at = "stored" /\ entry.content = job[j].content /\ entry.for = job[j].for
      /\ entry.published = job[j].published
  <2>1. /\ entry.at = "stored" /\ entry.content = job[j].content /\ entry.for = job[j].for
        /\ entry.published = job[j].published
    BY <1>1 DEF JobStates
  <2>2. job' = [job EXCEPT ![j] = entry] /\ job[j].at = "placing"
    BY DEF Rename
  <2> QED BY <2>1, <2>2
<1> HIDE DEF entry
<1>3. job'[j] = entry /\ \A k \in Jobs \ {j} : job'[k] = job[k]
  BY <1>2, JobStep DEF AssetInv, AssetTypeOK
<1>4. /\ UNCHANGED <<room, versions, hidden, upload, pins, reading, answers, seen, denied>>
      /\ blobs' = blobs \union {job[j].content}
  BY DEF Rename
<1>5. IsFiniteSet(blobs') /\ Cardinality(blobs') <= room
  <2>1. IsFiniteSet(blobs) /\ job[j].content \notin blobs /\ Cardinality(blobs) < room
    BY <1>2 DEF AssetInv, OnePlacing
  <2>2. /\ IsFiniteSet(blobs \union {job[j].content})
        /\ Cardinality(blobs \union {job[j].content}) = Cardinality(blobs) + 1
    BY <2>1, FS_AddElement
  <2>3. Cardinality(blobs) \in Nat
    BY <2>1, FS_CardinalityType
  <2> QED BY <1>1, <1>4, <2>1, <2>2, <2>3
<1>6. \A k \in Jobs : job'[k].at # "placing"
  BY <1>2, <1>3 DEF AssetInv, OnePlacing
<1>7. OnePlacing'
  BY <1>4, <1>5, <1>6 DEF OnePlacing
<1>8. BlobFirst'
  BY <1>2, <1>3, <1>4 DEF AssetInv, BlobFirst, Current
<1>9. OneContent'
  BY <1>2, <1>3, <1>4 DEF AssetInv, OneContent, Current
<1>10. ReadsBound'
  BY <1>4 DEF AssetInv, ReadsBound, ShownIsBound, Bindings, Current
<1> QED BY <1>7, <1>8, <1>9, <1>10

\* A version is recorded of a blob that is there; an upload that is repeated
\* compares.
LEMMA RecordKeeps ==
  ASSUME AssetInv, NEW j \in Jobs, RecordVersion(j)
  PROVE  OnePlacing' /\ BlobFirst' /\ OneContent' /\ ReadsBound'
<1> DEFINE content == job[j].content
<1>1. /\ content \in Contents /\ content \in blobs /\ job[j].at = "stored"
      /\ job[j].for = "upload" => job[j].published = upload.version
  BY DEF RecordVersion, AssetInv, BlobFirst, OneContent
<1>2. job'[j] = NoJob /\ \A k \in Jobs \ {j} : job'[k] = job[k]
  BY JobStep DEF RecordVersion, AssetInv, AssetTypeOK
<1>3. NoJob.at = "idle" /\ NoJob.for = "none" /\ NoJob.published = 0
  BY DEF NoJob
<1>4. UNCHANGED <<room, blobs, hidden, pins, reading, seen, denied>>
  BY DEF RecordVersion
<1>5. Current \in Nat /\ versions \in Seq(Contents)
  BY DEF AssetInv, AssetTypeOK, Current
<1>6. /\ Current' \in Nat /\ Current <= Current'
      /\ \A v \in 1..Current : versions'[v] = versions[v]
      /\ \A v \in 1..Current' : versions'[v] \in blobs
  <2>1. versions' = versions \/ versions' = Append(versions, content)
    BY DEF RecordVersion
  <2>2. \A v \in 1..Current : versions[v] \in blobs
    BY DEF AssetInv, BlobFirst
  <2>3. CASE versions' = versions
    BY <1>5, <2>2, <2>3 DEF Current
  <2>4. CASE versions' = Append(versions, content)
    <3>1. /\ Current' = Current + 1 /\ versions'[Current + 1] = content
          /\ \A v \in 1..Current : versions'[v] = versions[v]
      BY <1>1, <1>5, <2>4, VersionAppended DEF Current
    <3>2. \A v \in 1..Current' : v \in 1..Current \/ v = Current + 1
      BY <1>5, <3>1
    <3> QED BY <1>1, <1>5, <2>2, <3>1, <3>2
  <2> QED BY <2>1, <2>3, <2>4
<1>7. OnePlacing'
  BY <1>2, <1>3, <1>4 DEF AssetInv, OnePlacing
<1>8. BlobFirst'
  BY <1>2, <1>3, <1>4, <1>6 DEF AssetInv, BlobFirst
<1>9. OneContent'
  <2>1. CASE UNCHANGED <<versions, upload, answers>>
    BY <1>2, <1>3, <2>1 DEF AssetInv, OneContent, Current
  <2>2. CASE job[j].published # 0 /\ UNCHANGED <<versions, upload>>
             /\ answers' = answers \union {content}
    BY <1>2, <1>3, <2>2 DEF AssetInv, OneContent, Current
  <2>3. CASE job[j].for # "upload" /\ UNCHANGED <<upload, answers>>
    <3>1. upload.version # 0 => versions'[upload.version] = versions[upload.version]
      BY <1>6 DEF AssetInv, OneContent
    <3>2. upload.version \in 0..Current'
      BY <1>5, <1>6 DEF AssetInv, OneContent
    <3>3. upload.version \in 0..Current /\ \A k \in Jobs : job[k].published # 0 => upload.version # 0
      <4>1. ASSUME NEW k \in Jobs, job[k].published # 0 PROVE upload.version # 0
        BY <4>1 DEF AssetInv, OneContent
      <4> QED BY <4>1 DEF AssetInv, OneContent
    <3> QED BY <1>2, <1>3, <2>3, <3>1, <3>2, <3>3 DEF AssetInv, OneContent
  <2>4. CASE /\ job[j].for = "upload" /\ job[j].published = 0
             /\ upload' = [upload EXCEPT !.version = Len(versions')]
             /\ answers' = answers \union {content}
             /\ Current' # 0 /\ versions'[Current'] = content
    <3>1. upload'.version = Current'
      BY <2>4 DEF AssetInv, AssetTypeOK, Current
    <3>2. answers = {}
      BY <1>1, <2>4 DEF AssetInv, OneContent
    <3>3. \A k \in Jobs : job'[k].for # "upload" /\ job'[k].published = 0
      BY <1>2, <1>3, <2>4 DEF AssetInv, OneContent
    <3> QED BY <1>6, <2>4, <3>1, <3>2, <3>3 DEF OneContent
  <2>5. ASSUME ~hidden, job[j].published = 0 PROVE Current' # 0 /\ versions'[Current'] = content
    <3>1. CASE Published(content)
      <4>1. versions' = versions
        BY <2>5, <3>1 DEF RecordVersion
      <4> QED BY <3>1, <4>1 DEF Published, Current
    <3>2. CASE ~Published(content)
      <4>1. versions' = Append(versions, content)
        BY <2>5, <3>2 DEF RecordVersion
      <4> QED BY <1>1, <1>5, <4>1, VersionAppended DEF Current
    <3> QED BY <3>1, <3>2
  <2> QED BY <2>1, <2>2, <2>3, <2>4, <2>5 DEF RecordVersion
<1>10. ReadsBound'
  <2>1. 1..Current \subseteq 1..Current'
    BY <1>5, <1>6
  <2>2. \A r \in Readers : Bindings(r)' = Bindings(r)
    BY <1>4 DEF Bindings
  <2> QED BY <1>4, <2>1, <2>2 DEF AssetInv, ReadsBound, ShownIsBound
<1> QED BY <1>7, <1>8, <1>9, <1>10

\* What a run is bound to once one more version has been appended.
LEMMA BoundTo ==
  ASSUME pins \in [Readers -> Seq(1..MaxVersions)], NEW r \in Readers, NEW v \in 1..MaxVersions
  PROVE  /\ pins[r] # <<>> => Head(pins[r]) \in Bindings(r)
         /\ pins' = [pins EXCEPT ![r] = Append(@, v)] =>
              /\ Bindings(r)' = Bindings(r) \union {v}
              /\ \A q \in Readers \ {r} : Bindings(q)' = Bindings(q)
<1>1. pins[r] \in Seq(1..MaxVersions)
  OBVIOUS
<1>2. pins[r] # <<>> => Head(pins[r]) = pins[r][1] /\ 1 \in 1..Len(pins[r])
  BY <1>1
<1>3. ASSUME pins' = [pins EXCEPT ![r] = Append(@, v)]
      PROVE  /\ Bindings(r)' = Bindings(r) \union {v}
             /\ \A q \in Readers \ {r} : Bindings(q)' = Bindings(q)
  <2>1. pins'[r] = Append(pins[r], v) /\ \A q \in Readers \ {r} : pins'[q] = pins[q]
    BY <1>3
  <2> DEFINE n == Len(pins[r])
  <2>2. n \in Nat /\ Len(Append(pins[r], v)) = n + 1 /\ Append(pins[r], v)[n + 1] = v
        /\ \A i \in 1..n : Append(pins[r], v)[i] = pins[r][i]
    BY <1>1
  <2> HIDE DEF n
  <2>3. 1..(n + 1) = (1..n) \union {n + 1}
    BY <2>2
  <2>4. Bindings(r)' = {pins'[r][i] : i \in 1..(n + 1)} /\ Bindings(r) = {pins[r][i] : i \in 1..n}
    BY <2>1, <2>2 DEF Bindings, n
  <2>5. \A i \in 1..n : pins'[r][i] = pins[r][i]
    BY <2>1, <2>2
  <2>6. pins'[r][n + 1] = v
    BY <2>1, <2>2
  <2>7. Bindings(r)' = Bindings(r) \union {v}
    BY <2>3, <2>4, <2>5, <2>6
  <2> QED BY <2>1, <2>7 DEF Bindings
<1> QED BY <1>2, <1>3 DEF Bindings

\* A read keeps to what the run is bound to, and binds it to what it shows.
LEMMA ReadKeeps ==
  ASSUME AssetInv, NEW r \in Readers,
         \/ \E asked \in 0..Current : BeginRead(r, asked)
         \/ EndRead(r)
         \/ \E version \in 1..Current : AttachVersion(r, version)
  PROVE  OnePlacing' /\ BlobFirst' /\ OneContent' /\ ReadsBound'
<1>t. /\ pins \in [Readers -> Seq(1..MaxVersions)] /\ Current \in 0..MaxVersions
      /\ reading \in [Readers -> [version : 0..MaxVersions, bound : BOOLEAN]]
      /\ seen \in [Readers -> SUBSET (1..MaxVersions)] /\ MaxVersions \in Nat
  BY AssetAssumption DEF AssetInv, AssetTypeOK, Current
<1>1. UNCHANGED <<room, blobs, versions, upload, job, answers>>
  BY DEF BeginRead, EndRead, AttachVersion
<1>2. OnePlacing' /\ BlobFirst' /\ OneContent'
  BY <1>1 DEF AssetInv, OnePlacing, BlobFirst, OneContent, Current
<1>3. Current' = Current
  BY <1>1 DEF Current
<1>4. ASSUME NEW asked \in 0..Current, BeginRead(r, asked) PROVE ReadsBound'
  <2>1. PICK v \in 1..Current, bound \in BOOLEAN :
          reading' = [reading EXCEPT ![r] = [version |-> v, bound |-> bound]]
          /\ (bound => v \in Bindings(r))
    <3>1. CASE pins[r] # <<>>
      <4>1. Head(pins[r]) \in Bindings(r)
        BY <1>t, <3>1 DEF Bindings
      <4>2. Head(pins[r]) \in 1..Current
        BY <4>1 DEF AssetInv, ReadsBound
      <4> QED BY <1>4, <3>1, <4>1, <4>2 DEF BeginRead
    <3>2. CASE pins[r] = <<>>
      <4>1. (IF asked = 0 THEN Current ELSE asked) \in 1..Current
        BY <1>4, <1>t, <3>2 DEF BeginRead
      <4> QED BY <1>4, <3>2, <4>1 DEF BeginRead
    <3> QED BY <3>1, <3>2
  <2>2. /\ reading'[r] = [version |-> v, bound |-> bound]
        /\ reading'[r].version = v /\ reading'[r].bound = bound
        /\ \A q \in Readers \ {r} : reading'[q] = reading[q]
    BY <1>t, <2>1
  <2>3. pins' = pins /\ seen' = seen /\ \A q \in Readers : Bindings(q)' = Bindings(q)
    BY <1>4 DEF BeginRead, Bindings
  <2> QED BY <1>3, <2>1, <2>2, <2>3 DEF AssetInv, ReadsBound, ShownIsBound
<1>5. ASSUME EndRead(r) PROVE ReadsBound'
  <2> DEFINE v == reading[r].version
  <2>1. v \in 1..Current /\ v \in 1..MaxVersions
    BY <1>5, <1>t DEF EndRead, AssetInv, ReadsBound
  <2>2. /\ reading'[r] = NoRead /\ ~NoRead.bound
        /\ \A q \in Readers \ {r} : reading'[q] = reading[q]
    BY <1>5, <1>t DEF EndRead, NoRead
  <2>3. CASE UNCHANGED <<pins, seen>>
    <3>1. \A q \in Readers : Bindings(q)' = Bindings(q)
      BY <2>3 DEF Bindings
    <3> QED BY <1>3, <2>2, <2>3, <3>1 DEF AssetInv, ReadsBound, ShownIsBound
  <2>4. CASE pins' = BoundBy(r) /\ seen' = [seen EXCEPT ![r] = @ \union {v}]
    <3>1. /\ v \in Bindings(r)' /\ Bindings(r) \subseteq Bindings(r)'
          /\ Bindings(r)' \subseteq Bindings(r) \union {v}
          /\ \A q \in Readers \ {r} : Bindings(q)' = Bindings(q)
      <4>1. CASE reading[r].bound \/ v \in Bindings(r)
        <5>1. v \in Bindings(r) /\ pins' = pins
          BY <2>4, <4>1 DEF AssetInv, ReadsBound, BoundBy
        <5> QED BY <5>1 DEF Bindings
      <4>2. CASE ~(reading[r].bound \/ v \in Bindings(r))
        <5>1. pins' = [pins EXCEPT ![r] = Append(@, v)]
          BY <2>4, <4>2 DEF BoundBy
        <5>2. /\ Bindings(r)' = Bindings(r) \union {v}
              /\ \A q \in Readers \ {r} : Bindings(q)' = Bindings(q)
          BY <1>t, <2>1, <5>1, BoundTo
        <5> HIDE DEF v
        <5> QED BY <5>2
      <4> QED BY <4>1, <4>2
    <3>2. seen'[r] = seen[r] \union {v} /\ \A q \in Readers \ {r} : seen'[q] = seen[q]
      BY <1>t, <2>4
    <3> HIDE DEF v
    <3> QED BY <1>3, <2>1, <2>2, <3>1, <3>2 DEF AssetInv, ReadsBound, ShownIsBound
  <2> QED BY <1>5, <2>3, <2>4 DEF EndRead
<1>6. ASSUME NEW v \in 1..Current, AttachVersion(r, v) PROVE ReadsBound'
  <2>1. v \in 1..MaxVersions /\ pins' = [pins EXCEPT ![r] = Append(@, v)]
        /\ reading' = reading /\ seen' = seen
    BY <1>t, <1>6 DEF AttachVersion
  <2>2. /\ Bindings(r)' = Bindings(r) \union {v}
        /\ \A q \in Readers \ {r} : Bindings(q)' = Bindings(q)
    BY <1>t, <2>1, BoundTo
  <2> QED BY <1>3, <2>1, <2>2 DEF AssetInv, ReadsBound, ShownIsBound
<1> QED BY <1>2, <1>4, <1>5, <1>6

\* Removal, expiry and a crash touch neither files nor versions nor references.
LEMMA RestKeeps ==
  ASSUME AssetInv, Hide \/ Expire \/ Crash \/ UNCHANGED assetVars
  PROVE  OnePlacing' /\ BlobFirst' /\ OneContent' /\ ReadsBound'
<1>1. UNCHANGED <<room, blobs, versions, pins, answers, seen>>
  BY DEF Hide, Expire, Crash, assetVars
<1>2. /\ \A j \in Jobs : job'[j] = job[j] \/ job'[j] = NoJob
      /\ \A r \in Readers : reading'[r] = reading[r] \/ reading'[r] = NoRead
      /\ upload'.version = upload.version
  BY DEF Hide, Expire, Crash, assetVars, AssetInv, AssetTypeOK
<1>3. /\ NoJob.at = "idle" /\ NoJob.for = "none" /\ NoJob.published = 0 /\ ~NoRead.bound
  BY DEF NoJob, NoRead
<1>4. OnePlacing'
  BY <1>1, <1>2, <1>3 DEF AssetInv, OnePlacing
<1>5. BlobFirst'
  BY <1>1, <1>2, <1>3 DEF AssetInv, BlobFirst, Current
<1>6. OneContent'
  BY <1>1, <1>2, <1>3 DEF AssetInv, OneContent, Current
<1>7. \A q \in Readers : Bindings(q)' = Bindings(q)
  BY <1>1 DEF Bindings
<1>8. ReadsBound'
  BY <1>1, <1>2, <1>3, <1>7 DEF AssetInv, ReadsBound, ShownIsBound, Current
<1> QED BY <1>4, <1>5, <1>6, <1>8

\* Every write, read, removal and crash keeps the invariant.
LEMMA AssetStepInv == AssetInv /\ [AssetNext]_assetVars => AssetInv'
<1> SUFFICES ASSUME AssetInv, [AssetNext]_assetVars PROVE AssetInv'
    OBVIOUS
<1>1. AssetTypeOK'
  BY AssetStepTypes
<1>2. OnePlacing' /\ BlobFirst' /\ OneContent' /\ ReadsBound'
  BY BeginKeeps, PlaceKeeps, RenameKeeps, RecordKeeps, ReadKeeps, RestKeeps DEF AssetNext
<1> QED BY <1>1, <1>2 DEF AssetInv

\* An upload is answered with one content, the blobs stay within the room and
\* every version has its blob, for any contents, writers, rooms and crashes.
THEOREM UploadsStableHolds == AssetSpec => []UploadsStable
<1>1. AssetInv => UploadsStable
  <2> SUFFICES ASSUME AssetInv PROVE UploadsStable
      OBVIOUS
  <2>1. \E c : answers \subseteq {c}
    BY DEF AssetInv, OneContent
  <2>2. PICK c : answers \subseteq {c}
    BY <2>1
  <2>3. IsFiniteSet({c}) /\ Cardinality({c}) = 1
    BY FS_Singleton
  <2>4. Cardinality(answers) <= 1
    BY <2>2, <2>3, FS_Subset
  <2> QED BY <2>4 DEF AssetInv, UploadsStable, OnePlacing, BlobFirst
<1> QED BY AssetInitInv, AssetStepInv, <1>1, PTL DEF AssetSpec

\* Whatever version a run was shown is one it is bound to, for any runs,
\* versions, removals and crashes.
THEOREM ShownIsBoundHolds == AssetSpec => []ShownIsBound
<1>1. AssetInv => ShownIsBound
  BY DEF AssetInv, ReadsBound
<1> QED BY AssetInitInv, AssetStepInv, <1>1, PTL DEF AssetSpec

(* ------------------------------- the artifacts ---------------------------- *)

Made == [name : FileNames, content : FileContents, run : Makers, listed : BOOLEAN]
Receipts == {"succeeded", "failed", "uncertain"}
UploadCalls ==
  [at : {"idle", "working", "saving", "next", "uploading", "taken", "told"},
   files : SUBSET (FileNames \X FileContents), reply : BOOLEAN, left : SUBSET Ids,
   sent : SUBSET Ids, id : 0..MaxMade, answer : Receipts \union {"none"}]

ArtifactRows ==
  /\ made \in Seq(Made) /\ Len(made) <= MaxMade
  /\ receipts \in [Ids -> Receipts \union {"none", "pending"}]
  /\ groupFiles \in [Ids -> Nat]
  /\ maker \in [Makers -> UploadCalls]
  /\ noted \in [Makers -> [Ids -> Receipts \union {"none", "started"}]]
  /\ replied \in [Makers -> (SUBSET Ids) \union {Silent}]
  /\ containers \in [Makers -> {"none", "up", "orphaned", "reported"}]

\* a file that is being uploaded is claimed by one call, the call alone knows
\* whether the group has it, and what it is told is what the receipt says
Claims ==
  /\ \A who \in Makers :
       /\ maker[who].at \in {"uploading", "taken", "told"} => maker[who].id \in Ids
       /\ maker[who].at = "uploading" =>
            receipts[maker[who].id] = "pending" /\ groupFiles[maker[who].id] = 0
       /\ maker[who].at = "taken" =>
            receipts[maker[who].id] = "pending" /\ groupFiles[maker[who].id] = 1
       /\ maker[who].at = "told" /\ maker[who].answer \in {"succeeded", "failed"} =>
            receipts[maker[who].id] = maker[who].answer
       /\ \A id \in maker[who].sent : receipts[id] = "succeeded"
  /\ \A who, other \in Makers :
       /\ maker[who].at \in {"uploading", "taken"} /\ maker[other].at \in {"uploading", "taken"}
       /\ maker[who].id = maker[other].id
       => who = other

\* receipts tell the truth about the group, the traces and texts repeat receipts
Reported ==
  /\ \A id \in Ids :
       /\ groupFiles[id] <= 1
       /\ receipts[id] \in {"none", "failed"} => groupFiles[id] = 0
       /\ receipts[id] = "succeeded" => groupFiles[id] = 1
       /\ \A who \in Makers : noted[who][id] \in {"succeeded", "failed"} => receipts[id] = noted[who][id]
  /\ \A who \in Makers : replied[who] # Silent => \A id \in replied[who] : receipts[id] = "succeeded"

WorkingMakers == {who \in Makers : maker[who].at = "working"}

\* a container is up for a call that works in it and has a slot
Slots ==
  /\ \A who \in Makers : containers[who] = "up" => who \in WorkingMakers
  /\ active = Cardinality(WorkingMakers)

\* a name and content of a run is listed once
OneIdEach ==
  \A i, j \in DOMAIN made :
     /\ made[i].listed /\ made[j].listed /\ made[i].run = made[j].run /\ made[i].name = made[j].name
     /\ made[i].content = made[j].content
     => i = j

ArtifactInv == ArtifactRows /\ Claims /\ Reported /\ Slots /\ OneIdEach

\* The invariant says what the properties say, and that the idle call is a call.
LEMMA ArtifactFacts ==
  /\ ArtifactInv => FilesKept
  /\ AtEase \in UploadCalls /\ AtEase.at = "idle" /\ AtEase.sent = {} /\ AtEase.left = {}
  /\ Silent \notin SUBSET Ids
<1>1. ArtifactInv => FilesKept
  <2> SUFFICES ASSUME ArtifactInv PROVE FilesKept
      OBVIOUS
  <2>1. ASSUME NEW id \in Ids
        PROVE  /\ groupFiles[id] <= 1
               /\ receipts[id] = "succeeded" => groupFiles[id] = 1
               /\ receipts[id] = "failed" => groupFiles[id] = 0
               /\ \A who \in Makers :
                    /\ noted[who][id] = "succeeded" => groupFiles[id] = 1
                    /\ noted[who][id] = "failed" => groupFiles[id] = 0
    BY DEF ArtifactInv, Reported
  <2>3. ASSUME NEW who \in Makers, replied[who] # Silent
        PROVE  \A id \in replied[who] : groupFiles[id] = 1
    <3>1. replied[who] \subseteq Ids
      BY <2>3 DEF ArtifactInv, ArtifactRows
    <3> QED BY <2>3, <3>1 DEF ArtifactInv, Reported
  <2>4. UploadedOnce
    BY <2>1, <2>3 DEF UploadedOnce
  <2>2. NothingLeft
    BY DEF ArtifactInv, Slots, OneIdEach, NothingLeft, WorkingMakers
  <2> QED BY <2>2, <2>4 DEF FilesKept
<1>2. AtEase \in UploadCalls /\ AtEase.at = "idle" /\ AtEase.sent = {} /\ AtEase.left = {}
  BY ArtifactsAssumption DEF AtEase, UploadCalls
<1>3. Silent \notin SUBSET Ids
  <2>1. 0 \notin Ids
    BY ArtifactsAssumption DEF Ids
  <2> QED BY <2>1 DEF Silent
<1> QED BY <1>1, <1>2, <1>3

\* Before the first call nothing is claimed, noted or listed.
LEMMA ArtifactInitInv == ArtifactsInit => ArtifactInv
<1> SUFFICES ASSUME ArtifactsInit PROVE ArtifactInv
    OBVIOUS
<1> USE DEF ArtifactsInit
<1>1. ArtifactRows
  <2>1. <<>> \in Seq(Made) /\ Len(<<>>) = 0 /\ 0 <= MaxMade
    BY ArtifactsAssumption
  <2>2. noted \in [Makers -> [Ids -> Receipts \union {"none", "started"}]]
    OBVIOUS
  <2>3. /\ receipts \in [Ids -> Receipts \union {"none", "pending"}] /\ groupFiles \in [Ids -> Nat]
        /\ replied \in [Makers -> (SUBSET Ids) \union {Silent}]
        /\ containers \in [Makers -> {"none", "up", "orphaned", "reported"}]
    OBVIOUS
  <2>4. maker \in [Makers -> UploadCalls]
    BY ArtifactFacts
  <2> QED BY <2>1, <2>2, <2>3, <2>4 DEF ArtifactRows
<1>2. Claims
  BY ArtifactFacts DEF Claims
<1>3. Reported
  BY DEF Reported
<1>4. Slots
  <2>1. WorkingMakers = {}
    BY ArtifactFacts DEF WorkingMakers
  <2> QED BY <2>1, FS_EmptySet DEF Slots
<1>5. OneIdEach
  <2>1. Len(<<>>) = 0 /\ DOMAIN made = 1..Len(<<>>) /\ 1..0 = {}
    OBVIOUS
  <2> QED BY <2>1 DEF OneIdEach
<1> QED BY <1>1, <1>2, <1>3, <1>4, <1>5 DEF ArtifactInv

\* A call that moves on leaves those of other runs alone.
LEMMA MakerStep ==
  ASSUME maker \in [Makers -> UploadCalls], NEW who \in Makers, NEW entry \in UploadCalls, Does(who, entry)
  PROVE  /\ maker' \in [Makers -> UploadCalls] /\ maker'[who] = entry
         /\ \A other \in Makers \ {who} : maker'[other] = maker[other]
BY DEF Does

\* What a change of one field leaves of a call.
LEMMA CallFacts ==
  /\ [AtEase EXCEPT !.at = "working"] \in UploadCalls
  /\ [AtEase EXCEPT !.at = "working"].at = "working" /\ [AtEase EXCEPT !.at = "working"].sent = {}
  /\ \A files \in SUBSET (FileNames \X FileContents) :
       LET saving == [AtEase EXCEPT !.at = "saving", !.files = files]
       IN  saving \in UploadCalls /\ saving.at = "saving" /\ saving.sent = {}
  /\ \A left \in SUBSET Ids :
       LET next == [AtEase EXCEPT !.at = "next", !.reply = TRUE, !.left = left]
       IN  next \in UploadCalls /\ next.at = "next" /\ next.sent = {}
<1>1. \A c \in UploadCalls, at \in {"working", "saving", "next"} :
        [c EXCEPT !.at = at] \in UploadCalls /\ [c EXCEPT !.at = at].at = at
        /\ [c EXCEPT !.at = at].sent = c.sent
  BY DEF UploadCalls
<1>2. \A c \in UploadCalls, files \in SUBSET (FileNames \X FileContents) :
        LET saving == [c EXCEPT !.at = "saving", !.files = files]
        IN  saving \in UploadCalls /\ saving.at = "saving" /\ saving.sent = c.sent
  BY DEF UploadCalls
<1>3. \A c \in UploadCalls, left \in SUBSET Ids :
        LET next == [c EXCEPT !.at = "next", !.reply = TRUE, !.left = left]
        IN  next \in UploadCalls /\ next.at = "next" /\ next.sent = c.sent
  BY DEF UploadCalls
<1>4. /\ [AtEase EXCEPT !.at = "working"] \in UploadCalls
      /\ [AtEase EXCEPT !.at = "working"].at = "working" /\ [AtEase EXCEPT !.at = "working"].sent = {}
  BY <1>1, ArtifactFacts
<1>5. ASSUME NEW files \in SUBSET (FileNames \X FileContents)
      PROVE  LET saving == [AtEase EXCEPT !.at = "saving", !.files = files]
             IN  saving \in UploadCalls /\ saving.at = "saving" /\ saving.sent = {}
  BY <1>2, ArtifactFacts
<1>6. ASSUME NEW left \in SUBSET Ids
      PROVE  LET next == [AtEase EXCEPT !.at = "next", !.reply = TRUE, !.left = left]
             IN  next \in UploadCalls /\ next.at = "next" /\ next.sent = {}
  BY <1>3, ArtifactFacts
<1> QED BY <1>4, <1>5, <1>6

\* Slots follow the calls that work.
LEMMA SlotTaken ==
  ASSUME ArtifactInv, NEW who \in Makers,
         maker[who].at # "working", WorkingMakers' = WorkingMakers \union {who}, active' = active + 1
  PROVE  active' = Cardinality(WorkingMakers')
<1>1. IsFiniteSet(WorkingMakers)
  BY ArtifactsAssumption, FS_Subset DEF WorkingMakers
<1>2. who \notin WorkingMakers
  BY DEF WorkingMakers
<1> QED BY <1>1, <1>2, FS_AddElement DEF ArtifactInv, Slots
LEMMA SlotFreed ==
  ASSUME ArtifactInv, NEW who \in Makers,
         maker[who].at = "working", WorkingMakers' = WorkingMakers \ {who}, active' = active - 1
  PROVE  active' = Cardinality(WorkingMakers')
<1>1. IsFiniteSet(WorkingMakers)
  BY ArtifactsAssumption, FS_Subset DEF WorkingMakers
<1>2. who \in WorkingMakers
  BY DEF WorkingMakers
<1> QED BY <1>1, <1>2, FS_RemoveElement DEF ArtifactInv, Slots
LEMMA SlotsKept ==
  ASSUME ArtifactInv, UNCHANGED <<containers, active>>, WorkingMakers' = WorkingMakers
  PROVE  Slots'
BY DEF ArtifactInv, Slots

\* A container comes and goes with its call.
LEMMA ContainerInv ==
  ASSUME ArtifactInv, NEW who \in Makers,
         \/ Work(who)
         \/ \E files \in FileSets, gone, works \in BOOLEAN : Ended(who, files, gone, works)
  PROVE  ArtifactInv'
<1>1. CASE Work(who)
  <2> DEFINE entry == [AtEase EXCEPT !.at = "working"]
  <2>1. entry \in UploadCalls /\ entry.at = "working" /\ entry.sent = {}
    BY CallFacts
  <2>2. /\ Does(who, entry) /\ maker[who].at = "idle"
        /\ UNCHANGED <<made, selections, receipts, groupFiles, noted, replied>>
        /\ active' = active + 1 /\ containers' = [containers EXCEPT ![who] = "up"]
    BY <1>1, ArtifactFacts DEF Work
  <2> HIDE DEF entry
  <2>3. /\ maker' \in [Makers -> UploadCalls] /\ maker'[who] = entry
        /\ \A other \in Makers \ {who} : maker'[other] = maker[other]
    BY <2>1, <2>2, MakerStep DEF ArtifactInv, ArtifactRows
  <2>4. ArtifactRows'
    BY <2>2, <2>3 DEF ArtifactInv, ArtifactRows
  <2>5. Claims'
    BY <2>1, <2>2, <2>3 DEF ArtifactInv, Claims
  <2>6. Reported' /\ OneIdEach'
    BY <2>2 DEF ArtifactInv, Reported, OneIdEach
  <2>7. WorkingMakers' = WorkingMakers \union {who}
    BY <2>1, <2>3 DEF WorkingMakers
  <2>8. Slots'
    BY <2>2, <2>7, SlotTaken DEF ArtifactInv, ArtifactRows, Slots
  <2> QED BY <2>4, <2>5, <2>6, <2>8 DEF ArtifactInv
<1>2. ASSUME NEW files \in FileSets, NEW gone \in BOOLEAN, NEW works \in BOOLEAN,
             Ended(who, files, gone, works)
      PROVE  ArtifactInv'
  <2>1. PICK entry \in UploadCalls : Does(who, entry) /\ entry.at \in {"idle", "saving"} /\ entry.sent = {}
    <3> DEFINE saving == [AtEase EXCEPT !.at = "saving", !.files = files]
    <3>1. files \subseteq FileNames \X FileContents
      BY DEF FileSets
    <3>2. saving \in UploadCalls /\ saving.at = "saving" /\ saving.sent = {}
      BY <3>1, CallFacts
    <3>3. Does(who, AtEase) \/ Does(who, saving)
      BY <1>2 DEF Ended
    <3> HIDE DEF saving
    <3> QED BY <3>2, <3>3, ArtifactFacts
  <2>2. /\ maker[who].at = "working"
        /\ UNCHANGED <<made, selections, receipts, groupFiles, noted, replied>>
        /\ active' = active - 1
        /\ \E left \in {"none", "reported"} : containers' = [containers EXCEPT ![who] = left]
    BY <1>2 DEF Ended, Cleaned
  <2>3. /\ maker' \in [Makers -> UploadCalls] /\ maker'[who] = entry
        /\ \A other \in Makers \ {who} : maker'[other] = maker[other]
    BY <2>1, MakerStep DEF ArtifactInv, ArtifactRows
  <2>4. ArtifactRows'
    BY <2>2, <2>3 DEF ArtifactInv, ArtifactRows
  <2>5. Claims'
    BY <2>1, <2>2, <2>3 DEF ArtifactInv, Claims
  <2>6. Reported' /\ OneIdEach'
    BY <2>2 DEF ArtifactInv, Reported, OneIdEach
  <2>7. WorkingMakers' = WorkingMakers \ {who}
    BY <2>1, <2>3 DEF WorkingMakers
  <2>8. Slots'
    BY <2>2, <2>7, SlotFreed DEF ArtifactInv, ArtifactRows, Slots
  <2> QED BY <2>4, <2>5, <2>6, <2>8 DEF ArtifactInv
<1> QED BY <1>1, <1>2

\* New files that are stored once each, whichever of them are listed, leave one
\* id for each name and content of a run.
LEMMA StoredOnce ==
  ASSUME ArtifactInv, NEW who \in Makers, NEW saved \in SUBSET (FileNames \X FileContents),
         NEW files \in SUBSET NewOf(who, saved), NEW listed, NEW more \in Appended(who, files, listed),
         Len(made) + Cardinality(files) <= MaxMade, made' = made \o more
  PROVE  made' \in Seq(Made) /\ Len(made') <= MaxMade /\ OneIdEach'
<1>1. files \subseteq FileNames \X FileContents /\ IsFiniteSet(files) /\ Cardinality(files) \in Nat
  <2>1. IsFiniteSet(FileNames \X FileContents)
    BY ArtifactsAssumption, FS_Product
  <2>2. files \subseteq FileNames \X FileContents
    BY DEF NewOf
  <2> QED BY <2>1, <2>2, FS_Subset, FS_CardinalityType
<1> DEFINE n == Cardinality(files)
           m == Len(made)
<1>2. /\ more \in [1..n -> [name : FileNames, content : FileContents, run : {who}, listed : BOOLEAN]]
      /\ \A file \in files : \E k \in 1..n : more[k].name = file[1] /\ more[k].content = file[2]
  BY DEF Appended
<1>3. n \in Nat /\ m \in Nat /\ made \in Seq(Made) /\ m + n <= MaxMade /\ MaxMade \in Nat
  BY <1>1, ArtifactsAssumption DEF ArtifactInv, ArtifactRows
<1> HIDE DEF n
<1>4. /\ \A k \in 1..n : more[k] \in Made /\ more[k].run = who
      /\ more \in Seq(Made) /\ Len(more) = n
  <2>1. \A k \in 1..n : more[k] \in Made /\ more[k].run = who
    BY <1>2 DEF Made
  <2>2. more \in [1..n -> Made]
    BY <1>2, <2>1
  <2> QED BY <1>3, <2>1, <2>2
<1> HIDE DEF m
<1>5. /\ made \o more \in Seq(Made) /\ Len(made \o more) = m + n
      /\ \A i \in 1..m : (made \o more)[i] = made[i]
      /\ \A i \in (m + 1)..(m + n) : (made \o more)[i] = more[i - m]
  BY <1>3, <1>4 DEF m
\* the new rows are as many as the files, so each file has one
<1> DEFINE f == [k \in 1..n |-> <<more[k].name, more[k].content>>]
           T == {f[k] : k \in 1..n}
<1>6. IsFiniteSet(1..n) /\ Cardinality(1..n) = n
  BY <1>3, FS_Interval
<1>7. files \subseteq T
  <2> SUFFICES ASSUME NEW file \in files PROVE file \in T
      OBVIOUS
  <2>1. PICK k \in 1..n : more[k].name = file[1] /\ more[k].content = file[2]
    BY <1>2
  <2>2. file = <<file[1], file[2]>>
    BY <1>1
  <2> QED BY <2>1, <2>2
<1>10. f \in Surjection(1..n, T)
  BY DEF Surjection
<1>11. IsFiniteSet(T) /\ Cardinality(T) <= n /\ Cardinality(T) \in Nat
  <2> HIDE DEF f, T
  <2>1. /\ IsFiniteSet(T) /\ Cardinality(T) <= Cardinality(1..n)
        /\ (Cardinality(T) = Cardinality(1..n) <=> f \in Injection(1..n, T))
    BY <1>6, <1>10, FS_Surjection
  <2>2. Cardinality(T) \in Nat
    BY <2>1, FS_CardinalityType
  <2> QED BY <1>6, <2>1, <2>2
<1>12. Cardinality(files) <= Cardinality(T) /\ (Cardinality(T) = Cardinality(files) => T = files)
  BY <1>7, <1>11, FS_Subset
<1>13. Cardinality(T) = n /\ T = files
  BY <1>1, <1>11, <1>12 DEF n
<1>14. f \in Injection(1..n, T)
  <2> HIDE DEF f, T
  <2>1. Cardinality(T) = Cardinality(1..n) <=> f \in Injection(1..n, T)
    BY <1>6, <1>10, FS_Surjection
  <2> QED BY <1>6, <1>13, <2>1
<1>15. ASSUME NEW k \in 1..n PROVE <<more[k].name, more[k].content>> \in files
  BY <1>13
<1>16. ASSUME NEW k \in 1..n, NEW l \in 1..n,
              more[k].name = more[l].name, more[k].content = more[l].content
       PROVE  k = l
  BY <1>14, <1>16 DEF Injection, IsInjective
<1> HIDE DEF f, T
<1>8. ASSUME NEW k \in 1..n, NEW i \in 1..m, made[i].listed, made[i].run = who,
             made[i].name = more[k].name, made[i].content = more[k].content
      PROVE  FALSE
  <2>1. PICK file \in files : file = <<more[k].name, more[k].content>>
    BY <1>15
  <2>2. Same(who, file) = {}
    BY DEF NewOf
  <2>3. i \in DOMAIN made
    BY <1>3 DEF m
  <2>4. i \in Same(who, file)
    BY <1>8, <2>1, <2>3 DEF Same, Listed
  <2> QED BY <2>2, <2>4
<1>9. OneIdEach'
  <2> DEFINE both == made \o more
  <2>1. DOMAIN both = 1..(m + n)
    BY <1>5
  <2>2. \A i \in 1..m : both[i] = made[i]
    BY <1>5
  <2>3. \A i \in 1..(m + n) : i \in 1..m \/ (i - m \in 1..n /\ both[i] = more[i - m])
    <3> SUFFICES ASSUME NEW i \in 1..(m + n), i \notin 1..m
                 PROVE  i - m \in 1..n /\ both[i] = more[i - m]
        OBVIOUS
    <3>1. i \in (m + 1)..(m + n) /\ i - m \in 1..n
      BY <1>3
    <3> QED BY <1>5, <3>1
  <2>4. DOMAIN made = 1..m
    BY <1>3 DEF m
  <2>5. made' = both
    OBVIOUS
  <2> HIDE DEF both
  <2> SUFFICES ASSUME NEW i \in 1..(m + n), NEW j \in 1..(m + n),
                      both[i].listed, both[j].listed, both[i].run = both[j].run,
                      both[i].name = both[j].name, both[i].content = both[j].content
               PROVE  i = j
    BY <2>1, <2>5 DEF OneIdEach
  <2>6. CASE i \in 1..m /\ j \in 1..m
    BY <2>2, <2>4, <2>6 DEF ArtifactInv, OneIdEach
  <2>7. CASE i \in 1..m /\ j \notin 1..m
    <3>1. j - m \in 1..n /\ both[j] = more[j - m]
      BY <2>3, <2>7
    <3>2. /\ made[i].listed /\ made[i].run = more[j - m].run /\ made[i].name = more[j - m].name
          /\ made[i].content = more[j - m].content /\ more[j - m].run = who
      BY <1>4, <2>2, <2>7, <3>1
    <3> QED BY <1>8, <2>7, <3>1, <3>2
  <2>8. CASE i \notin 1..m /\ j \in 1..m
    <3>1. i - m \in 1..n /\ both[i] = more[i - m]
      BY <2>3, <2>8
    <3>2. /\ made[j].listed /\ made[j].run = more[i - m].run /\ made[j].name = more[i - m].name
          /\ made[j].content = more[i - m].content /\ more[i - m].run = who
      BY <1>4, <2>2, <2>8, <3>1
    <3> QED BY <1>8, <2>8, <3>1, <3>2
  <2>9. CASE i \notin 1..m /\ j \notin 1..m
    <3>1. i - m = j - m
      <4>1. i - m \in 1..n /\ both[i] = more[i - m] /\ j - m \in 1..n /\ both[j] = more[j - m]
        BY <2>3, <2>9
      <4> QED BY <1>16, <4>1
    <3> QED BY <1>3, <3>1
  <2> QED BY <2>6, <2>7, <2>8, <2>9
<1> QED BY <1>3, <1>5, <1>9

\* A change of calls alone, which touches no claim: every call is left as it is
\* or is idle.
LEMMA CallsDropped ==
  ASSUME ArtifactInv, UNCHANGED <<receipts, groupFiles>>,
         maker' \in [Makers -> UploadCalls], \A who \in Makers : maker'[who] \in {maker[who], AtEase}
  PROVE  Claims'
BY ArtifactFacts DEF ArtifactInv, Claims

\* What is saved is stored once, what is chosen or discarded changes no file.
LEMMA StoreInv ==
  ASSUME ArtifactInv, NEW who \in Makers,
         SaveFiles(who) \/ \E ids \in SUBSET Ids : SelectFinal(who, ids) \/ Discard(who, ids)
  PROVE  ArtifactInv'
<1>1. CASE SaveFiles(who)
  <2>1. /\ Does(who, AtEase) /\ maker[who].at = "saving"
        /\ UNCHANGED <<receipts, groupFiles, noted, replied, containers, active>>
    BY <1>1 DEF SaveFiles
  <2>2. /\ maker' \in [Makers -> UploadCalls] /\ maker'[who] = AtEase
        /\ \A other \in Makers \ {who} : maker'[other] = maker[other]
    BY <2>1, ArtifactFacts, MakerStep DEF ArtifactInv, ArtifactRows
  <2>3. Claims'
    BY <2>1, <2>2, CallsDropped
  <2>4. WorkingMakers' = WorkingMakers
    BY <2>1, <2>2, ArtifactFacts DEF WorkingMakers
  <2>5. made' \in Seq(Made) /\ Len(made') <= MaxMade /\ OneIdEach'
    <3> DEFINE files == maker[who].files
               fresh == NewOf(who, files)
    <3>1. files \in SUBSET (FileNames \X FileContents) /\ fresh \in SUBSET NewOf(who, files)
      BY DEF ArtifactInv, ArtifactRows, UploadCalls
    <3>2. \/ made' = made
          \/ \E more \in Appended(who, fresh, Cardinality(fresh)) : made' = made \o more
      BY <1>1 DEF SaveFiles
    <3>3. Len(made) + Cardinality(fresh) <= MaxMade
      BY <1>1 DEF SaveFiles
    <3>4. CASE made' = made
      BY <3>4 DEF ArtifactInv, ArtifactRows, OneIdEach
    <3> HIDE DEF files, fresh
    <3> QED BY <3>1, <3>2, <3>3, <3>4, StoredOnce
  <2>6. ArtifactRows'
    BY <2>1, <2>2, <2>5 DEF ArtifactInv, ArtifactRows
  <2>7. Reported'
    BY <2>1 DEF ArtifactInv, Reported
  <2> QED BY <2>1, <2>3, <2>4, <2>5, <2>6, <2>7, SlotsKept DEF ArtifactInv
<1>2. ASSUME NEW ids \in SUBSET Ids, SelectFinal(who, ids) \/ Discard(who, ids) PROVE ArtifactInv'
  <2>1. UNCHANGED <<made, receipts, groupFiles, maker, noted, replied, containers, active>>
    BY <1>2 DEF SelectFinal, Discard
  <2>2. ArtifactRows' /\ Reported' /\ OneIdEach'
    BY <2>1 DEF ArtifactInv, ArtifactRows, Reported, OneIdEach
  <2>3. Claims' /\ Slots'
    BY <2>1 DEF ArtifactInv, Claims, Slots, WorkingMakers
  <2> QED BY <2>2, <2>3 DEF ArtifactInv
<1> QED BY <1>1, <1>2

\* The ids of files are ids.
LEMMA MadeIds == ArtifactRows => DOMAIN made \subseteq Ids /\ \A who \in Makers : Listed(who) \subseteq Ids
<1> SUFFICES ASSUME ArtifactRows PROVE DOMAIN made \subseteq Ids
    BY DEF Listed
<1>1. DOMAIN made = 1..Len(made) /\ Len(made) \in Nat /\ Len(made) <= MaxMade
  BY DEF ArtifactRows
<1> QED BY <1>1, ArtifactsAssumption DEF Ids

\* An upload is claimed once, a receipt that is there is the answer.
LEMMA DeliverClaims ==
  ASSUME ArtifactInv, NEW who \in Makers, NEW id \in Ids, NEW call \in UploadCalls,
         Deliver(who, id, call), call.sent \subseteq maker[who].sent,
         maker[who].at \in {"idle", "next"}, UNCHANGED groupFiles
  PROVE  /\ maker' \in [Makers -> UploadCalls] /\ Claims' /\ WorkingMakers' = WorkingMakers
         /\ receipts' \in [Ids -> Receipts \union {"none", "pending"}]
         /\ \A x \in Ids : receipts'[x] = receipts[x] \/ (receipts[x] = "none" /\ receipts'[x] = "pending")
<1>t. /\ receipts \in [Ids -> Receipts \union {"none", "pending"}]
      /\ maker \in [Makers -> UploadCalls] /\ 0 \notin Ids /\ Ids \subseteq 0..MaxMade
  BY ArtifactsAssumption DEF ArtifactInv, ArtifactRows, Ids
<1>1. CASE Unclaimed(id)
  <2> DEFINE entry == [call EXCEPT !.at = "uploading", !.id = id]
  <2>1. /\ entry \in UploadCalls /\ entry.at = "uploading" /\ entry.id = id /\ entry.sent = call.sent
    BY <1>t DEF UploadCalls
  <2>2. /\ receipts[id] = "none" /\ receipts' = [receipts EXCEPT ![id] = "pending"] /\ Does(who, entry)
    BY <1>1 DEF Deliver, Unclaimed
  <2> HIDE DEF entry
  <2>3. /\ maker' \in [Makers -> UploadCalls] /\ maker'[who] = entry
        /\ \A other \in Makers \ {who} : maker'[other] = maker[other]
    BY <1>t, <2>1, <2>2, MakerStep
  <2>4. /\ receipts' \in [Ids -> Receipts \union {"none", "pending"}] /\ receipts'[id] = "pending"
        /\ \A x \in Ids \ {id} : receipts'[x] = receipts[x]
    BY <1>t, <2>2
  <2>5. Claims'
    <3>1. groupFiles[id] = 0
      BY <2>2 DEF ArtifactInv, Reported
    <3>2. \A other \in Makers : maker[other].at \in {"uploading", "taken"} => maker[other].id # id
      BY <2>2 DEF ArtifactInv, Claims
    <3>3. \A other \in Makers : \A x \in maker[other].sent : x # id
      BY <2>2 DEF ArtifactInv, Claims
    <3>4. ASSUME NEW other \in Makers, maker[other].at = "told", maker[other].answer \in {"succeeded", "failed"}
          PROVE  maker[other].id # id
      BY <2>2, <3>4 DEF ArtifactInv, Claims
    <3>5. \A other \in Makers : maker[other].sent \subseteq Ids
      BY <1>t DEF UploadCalls
    <3> QED BY <2>1, <2>3, <2>4, <3>1, <3>2, <3>3, <3>4, <3>5 DEF ArtifactInv, Claims
  <2>6. WorkingMakers' = WorkingMakers
    BY <2>1, <2>3 DEF WorkingMakers
  <2> QED BY <2>2, <2>3, <2>4, <2>5, <2>6
<1>2. CASE ~Unclaimed(id)
  <2>1. PICK entry \in UploadCalls :
          /\ Does(who, entry) /\ entry.sent \subseteq maker[who].sent
          /\ \/ entry = AtEase
             \/ entry.at = "told" /\ entry.id = id /\ entry.answer = Resolved(receipts[id])
    <3> DEFINE told == [call EXCEPT !.at = "told", !.id = id, !.answer = Resolved(receipts[id])]
    <3>1. receipts[id] # "none" /\ (Does(who, AtEase) \/ Does(who, told))
      BY <1>2 DEF Deliver, Unclaimed
    <3>2. Resolved(receipts[id]) \in Receipts
      BY <1>t, <3>1 DEF Resolved, Receipts
    <3>3. told \in UploadCalls /\ told.at = "told" /\ told.id = id /\ told.sent = call.sent
          /\ told.answer = Resolved(receipts[id])
      BY <1>t, <3>2 DEF UploadCalls
    <3> HIDE DEF told
    <3> QED BY <3>1, <3>3, ArtifactFacts
  <2>2. receipts' = receipts
    BY <1>2 DEF Deliver
  <2>3. /\ maker' \in [Makers -> UploadCalls] /\ maker'[who] = entry
        /\ \A other \in Makers \ {who} : maker'[other] = maker[other]
    BY <1>t, <2>1, MakerStep
  <2>4. entry.at \in {"idle", "told"}
    BY <2>1, ArtifactFacts
  <2>5. entry.at = "told" /\ entry.answer \in {"succeeded", "failed"} => entry.id = id /\ receipts[id] = entry.answer
    BY <1>t, <2>1, ArtifactFacts DEF Resolved
  <2>6. entry.at = "told" => entry.id \in Ids
    BY <2>1, ArtifactFacts
  <2>7. Claims'
    BY <2>1, <2>2, <2>3, <2>4, <2>5, <2>6 DEF ArtifactInv, Claims
  <2>8. WorkingMakers' = WorkingMakers
    BY <2>3, <2>4 DEF WorkingMakers
  <2> QED BY <1>t, <2>2, <2>3, <2>7, <2>8
<1> QED BY <1>1, <1>2

\* A claim makes no receipt and no note untrue.
LEMMA ClaimReported ==
  ASSUME ArtifactInv, UNCHANGED <<groupFiles, replied>>,
         \A x \in Ids : receipts'[x] = receipts[x] \/ (receipts[x] = "none" /\ receipts'[x] = "pending"),
         \A who \in Makers, x \in Ids : noted'[who][x] \in {noted[who][x], "started"}
  PROVE  Reported'
<1>1. \A who \in Makers : replied[who] # Silent => replied[who] \subseteq Ids
  BY DEF ArtifactInv, ArtifactRows
<1> QED BY <1>1 DEF ArtifactInv, Reported

\* An upload, by a call or as part of a reply, is claimed before it begins.
LEMMA UploadInv ==
  ASSUME ArtifactInv, NEW who \in Makers, (\E id \in Ids : UploadFinal(who, id)) \/ NextFile(who)
  PROVE  ArtifactInv'
<1>1. ASSUME NEW id \in Ids, UploadFinal(who, id) PROVE ArtifactInv'
  <2>1. /\ Deliver(who, id, AtEase) /\ maker[who].at = "idle"
        /\ UNCHANGED <<made, groupFiles, noted, replied, containers, active>>
    BY <1>1, ArtifactFacts DEF UploadFinal
  <2>2. /\ maker' \in [Makers -> UploadCalls] /\ Claims' /\ WorkingMakers' = WorkingMakers
        /\ receipts' \in [Ids -> Receipts \union {"none", "pending"}]
        /\ \A x \in Ids : receipts'[x] = receipts[x] \/ (receipts[x] = "none" /\ receipts'[x] = "pending")
    BY <2>1, ArtifactFacts, DeliverClaims
  <2>3. Reported'
    BY <2>1, <2>2, ClaimReported
  <2> QED BY <2>1, <2>2, <2>3, SlotsKept DEF ArtifactInv, ArtifactRows, OneIdEach
<1>2. CASE NextFile(who)
  <2>1. PICK id \in maker[who].left :
          /\ noted' = [noted EXCEPT ![who][id] = "started"]
          /\ Deliver(who, id, [maker[who] EXCEPT !.left = @ \ {id}])
    BY <1>2 DEF NextFile
  <2> DEFINE call == [maker[who] EXCEPT !.left = @ \ {id}]
  <2>2. maker[who] \in UploadCalls
    BY DEF ArtifactInv, ArtifactRows
  <2>3. id \in Ids /\ call \in UploadCalls /\ call.sent = maker[who].sent
    BY <2>2 DEF UploadCalls
  <2>4. /\ maker[who].at = "next" /\ UNCHANGED <<made, groupFiles, replied, containers, active>>
        /\ Deliver(who, id, call)
    BY <1>2, <2>1 DEF NextFile
  <2> HIDE DEF call
  <2>5. /\ maker' \in [Makers -> UploadCalls] /\ Claims' /\ WorkingMakers' = WorkingMakers
        /\ receipts' \in [Ids -> Receipts \union {"none", "pending"}]
        /\ \A x \in Ids : receipts'[x] = receipts[x] \/ (receipts[x] = "none" /\ receipts'[x] = "pending")
    BY <2>3, <2>4, DeliverClaims
  <2>6. /\ noted' \in [Makers -> [Ids -> Receipts \union {"none", "started"}]]
        /\ \A other \in Makers, x \in Ids : noted'[other][x] \in {noted[other][x], "started"}
    <3>1. noted \in [Makers -> [Ids -> Receipts \union {"none", "started"}]]
      BY DEF ArtifactInv, ArtifactRows
    <3> QED BY <2>1, <2>3, <3>1
  <2>7. Reported'
    BY <2>4, <2>5, <2>6, ClaimReported
  <2> QED BY <2>4, <2>5, <2>6, <2>7, SlotsKept DEF ArtifactInv, ArtifactRows, OneIdEach
<1> QED BY <1>1, <1>2

\* A reply begins with the final files, and its text follows when all are there.
LEMMA ReplyInv ==
  ASSUME ArtifactInv, NEW who \in Makers, Reply(who) \/ SendText(who)
  PROVE  ArtifactInv'
<1>1. PICK entry \in UploadCalls : Does(who, entry) /\ entry.at \in {"idle", "next"} /\ entry.sent = {}
  <2>1. CASE Reply(who)
    <3> DEFINE left == {id \in Listed(who) : IsFinal(id)}
               next == [AtEase EXCEPT !.at = "next", !.reply = TRUE, !.left = left]
    <3>1. left \in SUBSET Ids
      BY MadeIds DEF ArtifactInv
    <3>2. Does(who, next)
      BY <2>1 DEF Reply
    <3> HIDE DEF left
    <3>3. next \in UploadCalls /\ next.at = "next" /\ next.sent = {}
      BY <3>1, CallFacts
    <3> QED BY <3>2, <3>3
  <2>2. CASE SendText(who)
    BY <2>2, ArtifactFacts DEF SendText
  <2> QED BY <2>1, <2>2
<1>2. /\ UNCHANGED <<made, receipts, groupFiles, noted, containers, active>>
      /\ maker[who].at \in {"idle", "next"}
  BY ArtifactFacts DEF Reply, SendText
<1>3. replied' = replied \/ replied' = [replied EXCEPT ![who] = maker[who].sent]
  BY DEF Reply, SendText
<1>4. /\ maker' \in [Makers -> UploadCalls] /\ maker'[who] = entry
      /\ \A other \in Makers \ {who} : maker'[other] = maker[other]
  BY <1>1, MakerStep DEF ArtifactInv, ArtifactRows
<1>5. Claims'
  BY <1>1, <1>2, <1>4 DEF ArtifactInv, Claims
<1>6. WorkingMakers' = WorkingMakers
  BY <1>1, <1>2, <1>4 DEF WorkingMakers
<1>7. maker[who].sent \subseteq Ids /\ \A id \in maker[who].sent : receipts[id] = "succeeded"
  BY DEF ArtifactInv, ArtifactRows, UploadCalls, Claims
<1>8. /\ replied' \in [Makers -> (SUBSET Ids) \union {Silent}]
      /\ \A other \in Makers : replied'[other] = replied[other] \/ replied'[other] = maker[who].sent
  BY <1>3, <1>7 DEF ArtifactInv, ArtifactRows
<1>9. Reported'
  BY <1>2, <1>7, <1>8 DEF ArtifactInv, Reported
<1> QED BY <1>2, <1>4, <1>5, <1>6, <1>8, <1>9, SlotsKept DEF ArtifactInv, ArtifactRows, OneIdEach

\* The group takes the file of the one call that has claimed it.
LEMMA TakesInv == ASSUME ArtifactInv, NEW who \in Makers, PlatformTakes(who) PROVE ArtifactInv'
<1> DEFINE entry == [maker[who] EXCEPT !.at = "taken"]
<1>1. maker[who] \in UploadCalls /\ maker[who].at = "uploading"
  BY DEF ArtifactInv, ArtifactRows, PlatformTakes
<1>2. PICK id \in Ids : id = maker[who].id
  BY <1>1 DEF ArtifactInv, Claims
<1>3. entry \in UploadCalls /\ entry.at = "taken" /\ entry.id = id /\ entry.sent = maker[who].sent
  BY <1>1, <1>2 DEF UploadCalls
<1>4. Does(who, entry) /\ UNCHANGED <<made, receipts, noted, replied, containers, active>>
      /\ groupFiles' = [groupFiles EXCEPT ![id] = @ + 1]
  BY <1>2 DEF PlatformTakes
<1> HIDE DEF entry
<1>5. /\ maker' \in [Makers -> UploadCalls] /\ maker'[who] = entry
      /\ \A other \in Makers \ {who} : maker'[other] = maker[other]
  BY <1>3, <1>4, MakerStep DEF ArtifactInv, ArtifactRows
<1>6. receipts[id] = "pending" /\ groupFiles[id] = 0
  BY <1>1, <1>2 DEF ArtifactInv, Claims
<1>7. /\ groupFiles' \in [Ids -> Nat] /\ groupFiles'[id] = 1
      /\ \A x \in Ids \ {id} : groupFiles'[x] = groupFiles[x]
  BY <1>4, <1>6 DEF ArtifactInv, ArtifactRows
<1>8. Claims'
  BY <1>1, <1>2, <1>3, <1>4, <1>5, <1>6, <1>7 DEF ArtifactInv, Claims
<1>9. Reported'
  BY <1>4, <1>6, <1>7 DEF ArtifactInv, Reported
<1>10. WorkingMakers' = WorkingMakers
  BY <1>1, <1>3, <1>5 DEF WorkingMakers
<1> QED BY <1>4, <1>5, <1>7, <1>8, <1>9, <1>10, SlotsKept DEF ArtifactInv, ArtifactRows, OneIdEach

\* The answer of the platform becomes the receipt, or the claim stays.
LEMMA CompletedInv ==
  ASSUME ArtifactInv, NEW who \in Makers, NEW answer \in Receipts, NEW written \in BOOLEAN,
         Completed(who, answer, written)
  PROVE  ArtifactInv'
<1> DEFINE told == [maker[who] EXCEPT !.at = "told", !.answer = answer]
<1>1. /\ maker[who] \in UploadCalls
      /\ \/ maker[who].at = "uploading" /\ answer \in {"failed", "uncertain"}
         \/ maker[who].at = "taken" /\ answer \in {"succeeded", "uncertain"}
  BY DEF ArtifactInv, ArtifactRows, Completed
<1>2. PICK id \in Ids : id = maker[who].id
  BY <1>1 DEF ArtifactInv, Claims
<1>3. /\ receipts[id] = "pending"
      /\ answer = "failed" => groupFiles[id] = 0
      /\ answer = "succeeded" => groupFiles[id] = 1
  BY <1>1, <1>2 DEF ArtifactInv, Claims
<1>4. /\ told \in UploadCalls /\ told.at = "told" /\ told.id = id /\ told.answer = answer
      /\ told.sent = maker[who].sent
  BY <1>1, <1>2 DEF UploadCalls
<1>5. PICK entry \in UploadCalls :
        /\ Does(who, entry) /\ entry.sent \subseteq maker[who].sent
        /\ \/ entry.at = "idle"
           \/ entry.at = "told" /\ entry.id = id /\ entry.answer = answer /\ written
  <2>1. Does(who, AtEase) \/ (Does(who, told) /\ written)
    BY DEF Completed
  <2> HIDE DEF told
  <2> QED BY <1>4, <2>1, ArtifactFacts
<1>6. /\ UNCHANGED <<made, groupFiles, noted, replied, containers, active>>
      /\ receipts' = IF written THEN [receipts EXCEPT ![id] = answer] ELSE receipts
  BY <1>2 DEF Completed
<1> HIDE DEF told
<1>7. /\ maker' \in [Makers -> UploadCalls] /\ maker'[who] = entry
      /\ \A other \in Makers \ {who} : maker'[other] = maker[other]
  BY <1>5, MakerStep DEF ArtifactInv, ArtifactRows
<1>8. /\ receipts' \in [Ids -> Receipts \union {"none", "pending"}]
      /\ receipts'[id] = (IF written THEN answer ELSE receipts[id])
      /\ \A x \in Ids \ {id} : receipts'[x] = receipts[x]
  BY <1>6 DEF ArtifactInv, ArtifactRows
<1>9. \A other \in Makers \ {who} : maker[other].at \in {"uploading", "taken"} => maker[other].id # id
  BY <1>1, <1>2 DEF ArtifactInv, Claims
<1>10. \A other \in Makers : maker[other].sent \subseteq Ids /\ id \notin maker[other].sent
  BY <1>3 DEF ArtifactInv, ArtifactRows, UploadCalls, Claims
<1>11. ASSUME NEW other \in Makers, maker[other].at = "told", maker[other].answer \in {"succeeded", "failed"}
       PROVE  maker[other].id # id
  BY <1>3, <1>11 DEF ArtifactInv, Claims
<1>12. Claims'
  BY <1>5, <1>6, <1>7, <1>8, <1>9, <1>10, <1>11 DEF ArtifactInv, Claims
<1>13. Reported'
  <2>1. \A other \in Makers : noted[other][id] \notin {"succeeded", "failed"}
    BY <1>3 DEF ArtifactInv, Reported
  <2>2. \A other \in Makers : replied[other] # Silent => replied[other] \subseteq Ids /\ id \notin replied[other]
    BY <1>3 DEF ArtifactInv, ArtifactRows, Reported
  <2>3. ASSUME NEW x \in Ids
        PROVE  /\ groupFiles'[x] <= 1
               /\ receipts'[x] \in {"none", "failed"} => groupFiles'[x] = 0
               /\ receipts'[x] = "succeeded" => groupFiles'[x] = 1
               /\ \A other \in Makers : noted'[other][x] \in {"succeeded", "failed"} => receipts'[x] = noted'[other][x]
    <3>1. CASE x = id
      BY <1>3, <1>6, <1>8, <2>1, <3>1 DEF ArtifactInv, Reported, Receipts
    <3>2. CASE x # id
      BY <1>6, <1>8, <3>2 DEF ArtifactInv, Reported
    <3> QED BY <3>1, <3>2
  <2>4. ASSUME NEW other \in Makers, replied'[other] # Silent, NEW x \in replied'[other]
        PROVE  receipts'[x] = "succeeded"
    BY <1>6, <1>8, <2>2, <2>4 DEF ArtifactInv, Reported
  <2> QED BY <2>3, <2>4 DEF Reported
<1>14. WorkingMakers' = WorkingMakers
  BY <1>1, <1>5, <1>7 DEF WorkingMakers
<1> QED BY <1>6, <1>7, <1>8, <1>12, <1>13, <1>14, SlotsKept DEF ArtifactInv, ArtifactRows, OneIdEach

\* What the receipt says goes into the trace, and a success on with the reply.
LEMMA ToldInv ==
  ASSUME ArtifactInv, NEW who \in Makers, NEW aborted \in BOOLEAN, Told(who, aborted)
  PROVE  ArtifactInv'
<1>1. maker[who] \in UploadCalls /\ maker[who].at = "told"
  BY DEF ArtifactInv, ArtifactRows, Told
<1>2. PICK id \in Ids : id = maker[who].id
  BY <1>1 DEF ArtifactInv, Claims
<1>3. maker[who].answer \in {"succeeded", "failed"} => receipts[id] = maker[who].answer
  BY <1>1, <1>2 DEF ArtifactInv, Claims
<1> DEFINE next == [maker[who] EXCEPT !.at = "next", !.sent = @ \union {id}, !.id = 0, !.answer = "none"]
<1>4. /\ next \in UploadCalls /\ next.at = "next" /\ next.sent = maker[who].sent \union {id}
  <2>1. maker[who].sent \union {id} \in SUBSET Ids /\ 0 \in 0..MaxMade
    BY <1>1, <1>2, ArtifactsAssumption DEF UploadCalls
  <2>2. ASSUME NEW sent \in SUBSET Ids
        PROVE  LET c == [maker[who] EXCEPT !.at = "next", !.sent = sent, !.id = 0, !.answer = "none"]
               IN  c \in UploadCalls /\ c.at = "next" /\ c.sent = sent
    BY <1>1, <2>1 DEF UploadCalls
  <2> QED BY <2>1, <2>2
<1>5. PICK entry \in UploadCalls :
        /\ Does(who, entry)
        /\ \/ entry.at = "idle" /\ entry.sent = {}
           \/ entry.at = "next" /\ entry.sent = maker[who].sent \union {id} /\ receipts[id] = "succeeded"
  <2>1. Does(who, AtEase) \/ (Does(who, next) /\ maker[who].answer = "succeeded")
    BY <1>2 DEF Told
  <2> HIDE DEF next
  <2> QED BY <1>3, <1>4, <2>1, ArtifactFacts
<1>6. /\ UNCHANGED <<made, groupFiles, receipts, replied, containers, active>>
      /\ noted' = IF aborted THEN noted ELSE [noted EXCEPT ![who][id] = maker[who].answer]
  BY <1>2 DEF Told
<1> HIDE DEF next
<1>7. /\ maker' \in [Makers -> UploadCalls] /\ maker'[who] = entry
      /\ \A other \in Makers \ {who} : maker'[other] = maker[other]
  BY <1>5, MakerStep DEF ArtifactInv, ArtifactRows
<1>8. /\ noted' \in [Makers -> [Ids -> Receipts \union {"none", "started"}]]
      /\ \A other \in Makers, x \in Ids :
           \/ noted'[other][x] = noted[other][x]
           \/ x = id /\ noted'[other][x] = maker[who].answer
  <2>1. maker[who].answer \in Receipts \union {"none"}
    BY <1>1 DEF UploadCalls
  <2>2. noted \in [Makers -> [Ids -> Receipts \union {"none", "started"}]]
    BY DEF ArtifactInv, ArtifactRows
  <2> QED BY <1>6, <2>1, <2>2
<1>9. Claims'
  BY <1>5, <1>6, <1>7 DEF ArtifactInv, Claims
<1>10. Reported'
  BY <1>3, <1>6, <1>8 DEF ArtifactInv, Reported
<1>11. WorkingMakers' = WorkingMakers
  BY <1>1, <1>5, <1>7 DEF WorkingMakers
<1> QED BY <1>6, <1>7, <1>8, <1>9, <1>10, <1>11, SlotsKept DEF ArtifactInv, ArtifactRows, OneIdEach

\* A crash leaves no call and no claim in doubt but those that are pending.
LEMMA DieInv == ASSUME ArtifactInv, Die PROVE ArtifactInv'
<1>1. /\ UNCHANGED <<receipts, groupFiles, replied>> /\ active' = 0
      /\ maker' = [who \in Makers |-> AtEase]
      /\ containers' = [who \in Makers |-> IF containers[who] = "up" THEN "orphaned" ELSE containers[who]]
      /\ noted' = [who \in Makers |-> [id \in Ids |-> Recovered(who, id)]]
  BY DEF Die
<1>2. Claims' /\ maker' \in [Makers -> UploadCalls]
  BY <1>1, ArtifactFacts, CallsDropped
<1>3. Slots' /\ containers' \in [Makers -> {"none", "up", "orphaned", "reported"}]
  <2>1. WorkingMakers' = {}
    BY <1>1, ArtifactFacts DEF WorkingMakers
  <2>2. \A who \in Makers : containers'[who] # "up"
    BY <1>1
  <2>3. containers' \in [Makers -> {"none", "up", "orphaned", "reported"}]
    BY <1>1 DEF ArtifactInv, ArtifactRows
  <2> QED BY <1>1, <2>1, <2>2, <2>3, FS_EmptySet DEF Slots
<1>4. ASSUME NEW who \in Makers, NEW id \in Ids
      PROVE  /\ Recovered(who, id) \in Receipts \union {"none", "started"}
             /\ Recovered(who, id) \in {"succeeded", "failed"} =>
                  \/ noted[who][id] = Recovered(who, id)
                  \/ receipts[id] = Recovered(who, id)
  <2>1. /\ noted[who][id] \in Receipts \union {"none", "started"}
        /\ receipts[id] \in Receipts \union {"none", "pending"}
    BY DEF ArtifactInv, ArtifactRows
  <2> QED BY <2>1 DEF Recovered, Resolved, Receipts
<1>5. noted' \in [Makers -> [Ids -> Receipts \union {"none", "started"}]]
  BY <1>1, <1>4
<1>6. Reported'
  <2>1. \A who \in Makers, id \in Ids : noted'[who][id] = Recovered(who, id)
    BY <1>1
  <2> QED BY <1>1, <1>4, <2>1 DEF ArtifactInv, Reported
<1>7. made' \in Seq(Made) /\ Len(made') <= MaxMade /\ OneIdEach'
  <2>0. PICK who \in Makers : \E more \in CutOff(who) : made' = made \o more
    BY DEF Die
  <2>1. PICK more \in CutOff(who) : made' = made \o more
    BY <2>0
  <2>2. CASE more = <<>>
    <3>1. made \in Seq(Made) /\ made \o <<>> = made
      BY DEF ArtifactInv, ArtifactRows
    <3> QED BY <2>1, <2>2, <3>1 DEF ArtifactInv, ArtifactRows, OneIdEach
  <2>3. CASE more # <<>>
    <3> DEFINE saved == maker[who].files
    <3>1. PICK files \in SUBSET NewOf(who, saved), listed \in 0..Cardinality(FileNames) :
            more \in Appended(who, files, listed)
      BY <2>3 DEF CutOff
    <3>3. saved \in SUBSET (FileNames \X FileContents)
      BY DEF ArtifactInv, ArtifactRows, UploadCalls
    <3>4. IsFiniteSet(NewOf(who, saved)) /\ Cardinality(NewOf(who, saved)) \in Nat
      <4>1. IsFiniteSet(FileNames \X FileContents)
        BY ArtifactsAssumption, FS_Product
      <4>2. NewOf(who, saved) \subseteq FileNames \X FileContents
        BY <3>3 DEF NewOf
      <4> QED BY <4>1, <4>2, FS_Subset, FS_CardinalityType
    <3>2. Len(made) + Cardinality(NewOf(who, saved)) <= MaxMade
      <4>1. ~(Len(made) + Cardinality(NewOf(who, saved)) > MaxMade)
        BY <2>3 DEF CutOff
      <4>2. Len(made) \in Nat /\ MaxMade \in Nat
        BY ArtifactsAssumption DEF ArtifactInv, ArtifactRows
      <4> QED BY <3>4, <4>1, <4>2
    <3>5. Len(made) + Cardinality(files) <= MaxMade
      <4>1. /\ Cardinality(files) <= Cardinality(NewOf(who, saved)) /\ IsFiniteSet(files)
            /\ Cardinality(files) \in Nat
        BY <3>4, FS_Subset, FS_CardinalityType
      <4>2. Len(made) \in Nat /\ MaxMade \in Nat
        BY ArtifactsAssumption DEF ArtifactInv, ArtifactRows
      <4> QED BY <3>2, <3>4, <4>1, <4>2
    <3> HIDE DEF saved
    <3> QED BY <2>1, <3>1, <3>3, <3>5, StoredOnce
  <2> QED BY <2>2, <2>3
<1> QED BY <1>1, <1>2, <1>3, <1>5, <1>6, <1>7 DEF ArtifactInv, ArtifactRows

\* Every call, upload, reply and crash keeps the invariant.
LEMMA ArtifactStepInv == ArtifactInv /\ [ArtifactsNext]_artifactVars => ArtifactInv'
<1> SUFFICES ASSUME ArtifactInv, [ArtifactsNext]_artifactVars PROVE ArtifactInv'
    OBVIOUS
<1>1. CASE UNCHANGED artifactVars
  <2>1. UNCHANGED <<made, receipts, groupFiles, maker, noted, replied, containers, active>>
    BY <1>1 DEF artifactVars
  <2> QED BY <2>1 DEF ArtifactInv, ArtifactRows, Claims, Reported, Slots, WorkingMakers, OneIdEach
<1>2. CASE ArtifactsNext
  BY <1>2, ContainerInv, StoreInv, UploadInv, ReplyInv, TakesInv, CompletedInv, ToldInv, DieInv
     DEF ArtifactsNext, Receipts
<1> QED BY <1>1, <1>2

\* A file reaches the group once, what is said of it is true, and no container
\* or second id is left over, for any runs, files, quotas and crashes.
THEOREM FilesKeptHolds == ArtifactsInit /\ [][ArtifactsNext]_artifactVars => []FilesKept
<1> QED BY ArtifactInitInv, ArtifactStepInv, ArtifactFacts, PTL

(* ------------------------------- following a run ------------------------- *)

Entries == [run : WatchedRuns, output : BOOLEAN]
Journals == journal \in Seq(Entries)
CountOf(watched) == Cardinality({i \in DOMAIN journal : journal[i].run = watched})

WatchRows ==
  /\ Journals /\ era \in Nat /\ picked \in WatchedRuns
  /\ restless \in BOOLEAN /\ armed \in BOOLEAN /\ trouble \in BOOLEAN
  /\ watchers \in [Watchers -> [state : {"waiting", "open", "stopped"},
                                cursor : Nat \union {Start}, era : Nat]]
  /\ \A w \in Watchers : /\ watchers[w].cursor <= Len(journal)
                         /\ watchers[w].state = "open" => watchers[w].cursor # Start

\* the events of a run are numbered without a gap
EventsNumbered ==
  \A watched \in WatchedRuns :
    /\ CountOf(watched) \in Nat
    /\ {e.seq : e \in EventsOf(watched)} = 1..CountOf(watched)
    /\ \A e, f \in EventsOf(watched) : e.seq = f.seq => e = f

\* nothing is missing up to a number
Gapless(watched, upto, events) ==
  /\ upto \in 0..CountOf(watched)
  /\ \A e \in EventsOf(watched) : e.seq <= upto => e \in events

\* the number to read from never passes an event the page does not have
CacheGapless ==
  \/ cached = NoCache
  \/ /\ cached.run \in WatchedRuns /\ cached.events \subseteq EventsOf(cached.run)
     /\ Gapless(cached.run, cached.cursor, cached.events)

\* nor does the answer in flight, whatever the stream adds or a reset takes away
\* before it arrives
AnswerGapless ==
  \/ fetching = NoFetch
  \/ /\ fetching.kept \subseteq EventsOf(picked) /\ fetching.events \subseteq EventsOf(picked)
     /\ fetching.more \in BOOLEAN
     /\ Gapless(picked, fetching.next, fetching.kept \union fetching.events)
     /\ cached.run = picked => Gapless(picked, fetching.next, cached.events \union fetching.events)
     /\ cached.run # picked /\ (~restless \/ watchers["run"].state = "open") => fetching.kept = {}

\* what is shown is what is cached, once it was read
CacheShown ==
  fetching = NoFetch /\ ~restless /\ ~trouble =>
    cached.run = picked /\ displayed = [run |-> picked, events |-> cached.events]

\* an event the page's own stream has passed is read, or will be
PassedRead ==
  ~armed /\ ~restless /\ ~trouble =>
    \A i \in 1..watchers["page"].cursor : journal[i].run = picked /\ ~journal[i].output =>
      IF fetching = NoFetch THEN SeqAt(i) <= cached.cursor
      ELSE fetching.more \/ SeqAt(i) <= fetching.next

WatchInv == WatchRows /\ EventsNumbered /\ CacheGapless /\ AnswerGapless /\ CacheShown /\ PassedRead

\* the same for any journal
SeqIn(j, i) == Cardinality({k \in 1..i : j[k].run = j[i].run})
EventIn(j, i) == [seq |-> SeqIn(j, i), output |-> j[i].output]
EventsIn(j, watched) ==
  LET at == {i \in DOMAIN j : j[i].run = watched}
  IN  {[seq |-> Cardinality({k \in at : k <= i}), output |-> j[i].output] : i \in at}

LEMMA PlacesIn ==
  ASSUME NEW j \in Seq(Entries), NEW watched
  PROVE  \A e : e \in EventsIn(j, watched) <=>
                  \E i \in 1..Len(j) : j[i].run = watched /\ e = EventIn(j, i)
<1> DEFINE at == {i \in DOMAIN j : j[i].run = watched}
<1>1. DOMAIN j = 1..Len(j) /\ Len(j) \in Nat
  OBVIOUS
<1>2. \A i \in at : {k \in at : k <= i} = {k \in 1..i : j[k].run = j[i].run}
  BY <1>1
<1>3. \A i \in at : [seq |-> Cardinality({k \in at : k <= i}), output |-> j[i].output] = EventIn(j, i)
  BY <1>2 DEF EventIn, SeqIn
<1>4. EventsIn(j, watched) = {[seq |-> Cardinality({k \in at : k <= i}), output |-> j[i].output] : i \in at}
  BY DEF EventsIn
<1> HIDE DEF at
<1>5. \A e : e \in EventsIn(j, watched) <=> \E i \in at : e = EventIn(j, i)
  BY <1>3, <1>4
<1> QED
  BY <1>1, <1>5 DEF at

LEMMA EventPlaces ==
  ASSUME Journals, NEW watched
  PROVE  \A e : e \in EventsOf(watched) <=>
                  \E i \in 1..Len(journal) : journal[i].run = watched /\ e = EventAt(i)
<1>1. EventsOf(watched) = EventsIn(journal, watched) /\ \A i : EventAt(i) = EventIn(journal, i)
  BY DEF EventsOf, EventsIn, EventAt, EventIn, SeqAt, SeqIn
<1>2. \A e : e \in EventsIn(journal, watched) <=>
               \E i \in 1..Len(journal) : journal[i].run = watched /\ e = EventIn(journal, i)
  BY PlacesIn DEF Journals
<1> QED
  BY <1>1, <1>2

\* the number of an event is at most the count of its run
LEMMA EventNumber ==
  ASSUME Journals, EventsNumbered, NEW i \in 1..Len(journal)
  PROVE  /\ journal[i].run \in WatchedRuns /\ journal[i].output \in BOOLEAN
         /\ EventAt(i) \in EventsOf(journal[i].run)
         /\ SeqAt(i) \in 1..CountOf(journal[i].run)
<1>1. journal[i].run \in WatchedRuns /\ journal[i].output \in BOOLEAN
  <2>1. journal[i] \in Entries
    BY DEF Journals
  <2> QED
    BY <2>1 DEF Entries
<1>2. EventAt(i) \in EventsOf(journal[i].run)
  BY EventPlaces
<1>3. EventAt(i).seq = SeqAt(i)
  BY DEF EventAt
<1> QED
  BY <1>1, <1>2, <1>3 DEF EventsNumbered

LEMMA EventAdded ==
  ASSUME Journals, EventsNumbered, NEW r \in WatchedRuns, NEW output \in BOOLEAN,
         journal' = Append(journal, [run |-> r, output |-> output])
  PROVE  /\ Journals' /\ Len(journal)' = Len(journal) + 1
         /\ \A i \in 1..Len(journal) : journal'[i] = journal[i] /\ SeqAt(i)' = SeqAt(i)
         /\ \A watched \in WatchedRuns :
              /\ CountOf(watched)' = IF watched = r THEN CountOf(watched) + 1 ELSE CountOf(watched)
              /\ EventsOf(watched)' = IF watched = r
                                  THEN EventsOf(watched) \union {[seq |-> CountOf(r) + 1, output |-> output]}
                                  ELSE EventsOf(watched)
<1> DEFINE last == Len(journal) + 1
           new == [run |-> r, output |-> output]
           Positions(watched) == {i \in 1..Len(journal) : journal[i].run = watched}
<1>0. new \in Entries
  BY DEF Entries
<1>1. /\ Len(journal) \in Nat /\ DOMAIN journal = 1..Len(journal)
      /\ Journals' /\ Len(journal') = last /\ DOMAIN journal' = 1..last
      /\ \A i \in 1..Len(journal) : journal'[i] = journal[i]
      /\ journal'[last] = new
  BY <1>0 DEF Journals
<1>2. \A i \in 1..Len(journal) : SeqAt(i)' = SeqAt(i)
  <2> TAKE i \in 1..Len(journal)
  <2>1. {j \in 1..i : journal'[j].run = journal'[i].run} = {j \in 1..i : journal[j].run = journal[i].run}
    BY <1>1
  <2> QED
    BY <2>1 DEF SeqAt
<1>3. \A watched : CountOf(watched) = Cardinality(Positions(watched)) /\ IsFiniteSet(Positions(watched))
  <2> TAKE watched
  <2>1. Positions(watched) \in SUBSET (1..Len(journal))
    OBVIOUS
  <2>2. IsFiniteSet(1..Len(journal))
    BY <1>1, FS_Interval
  <2> QED
    BY <2>1, <2>2, <1>1, FS_Subset DEF CountOf
<1>4. \A watched : {i \in 1..last : journal'[i].run = watched} =
                   IF watched = r THEN Positions(watched) \union {last} ELSE Positions(watched)
  BY <1>1
<1>5. \A watched : CountOf(watched)' = IF watched = r THEN CountOf(watched) + 1 ELSE CountOf(watched)
  <2> TAKE watched
  <2>1. CountOf(watched)' = Cardinality({i \in 1..last : journal'[i].run = watched})
    BY <1>1 DEF CountOf
  <2>2. last \notin Positions(watched)
    BY <1>1
  <2> HIDE DEF Positions, last
  <2>3. Cardinality(Positions(watched) \union {last}) = CountOf(watched) + 1
    BY <2>2, <1>3, FS_AddElement
  <2>4. {i \in 1..last : journal'[i].run = watched} =
          IF watched = r THEN Positions(watched) \union {last} ELSE Positions(watched)
    BY <1>4
  <2> QED
    BY <2>1, <2>3, <2>4, <1>3
<1>6. SeqIn(journal', last) = CountOf(r) + 1
  <2>1. {j \in 1..last : journal'[j].run = journal'[last].run} = {i \in 1..last : journal'[i].run = r}
    BY <1>1
  <2>2. SeqIn(journal', last) = Cardinality({i \in 1..last : journal'[i].run = r})
    BY <2>1 DEF SeqIn
  <2>3. CountOf(r)' = Cardinality({i \in 1..last : journal'[i].run = r})
    BY <1>1 DEF CountOf
  <2> QED
    BY <2>2, <2>3, <1>5
<1>7. \A i \in 1..Len(journal) : EventIn(journal', i) = EventIn(journal, i)
  BY <1>1, <1>2 DEF EventIn, SeqIn, SeqAt
<1>8. EventIn(journal', last) = [seq |-> CountOf(r) + 1, output |-> output]
  BY <1>1, <1>6 DEF EventIn
<1>9. \A watched \in WatchedRuns : EventsOf(watched)' = IF watched = r
                                  THEN EventsOf(watched) \union {[seq |-> CountOf(r) + 1, output |-> output]}
                                  ELSE EventsOf(watched)
  <2> TAKE watched \in WatchedRuns
  <2> DEFINE added == [seq |-> CountOf(r) + 1, output |-> output]
  <2>1. EventsOf(watched)' = EventsIn(journal', watched) /\ EventsOf(watched) = EventsIn(journal, watched)
    BY DEF EventsOf, EventsIn
  <2>2. \A e : e \in EventsOf(watched)' <=> \E i \in 1..last : journal'[i].run = watched /\ e = EventIn(journal', i)
    <3>1. \A e : e \in EventsIn(journal', watched) <=>
                   \E i \in 1..Len(journal') : journal'[i].run = watched /\ e = EventIn(journal', i)
      <4>1. journal' \in Seq(Entries)
        BY <1>1 DEF Journals
      <4>2. PICK j \in Seq(Entries) : j = journal'
        BY <4>1
      <4>3. \A e : e \in EventsIn(j, watched) <=> \E i \in 1..Len(j) : j[i].run = watched /\ e = EventIn(j, i)
        BY PlacesIn
      <4> QED
        BY <4>2, <4>3
    <3> QED
      BY <2>1, <3>1, <1>1
  <2>3. \A e : e \in EventsOf(watched) <=>
                 \E i \in 1..Len(journal) : journal[i].run = watched /\ e = EventIn(journal, i)
    <3>1. \A e : e \in EventsIn(journal, watched) <=>
                   \E i \in 1..Len(journal) : journal[i].run = watched /\ e = EventIn(journal, i)
      BY PlacesIn DEF Journals
    <3> QED
      BY <2>1, <3>1
  <2>4. 1..last = (1..Len(journal)) \union {last}
    BY <1>1
  <2>5. \A i \in 1..Len(journal) : journal'[i].run = journal[i].run
    BY <1>1
  <2>6. journal'[last].run = r
    BY <1>1
  <2>7. EventIn(journal', last) = added
    BY <1>8
  <2> HIDE DEF last, added
  <2>8. \A e : e \in EventsOf(watched)' <=> e \in EventsOf(watched) \/ (watched = r /\ e = added)
    BY <2>2, <2>3, <2>4, <2>5, <2>6, <2>7, <1>7
  <2>9. EventsOf(watched)' = IF watched = r THEN EventsOf(watched) \union {added} ELSE EventsOf(watched)
    BY <2>8
  <2> QED
    BY <2>9 DEF added
<1> QED
  BY <1>1, <1>2, <1>5, <1>9

\* the page that one request returns
LEMMA PageFacts ==
  ASSUME WatchingAssumption, EventsNumbered, NEW watched \in WatchedRuns, NEW from \in 0..CountOf(watched),
         NEW rest, rest = {e \in EventsOf(watched) : e.seq > from},
         NEW page, page = {e \in rest : e.seq <= from + PageSize}
  PROVE  /\ from + Cardinality(page) \in from..CountOf(watched)
         /\ \A e \in EventsOf(watched) : from < e.seq /\ e.seq <= from + Cardinality(page) => e \in page
         /\ page = rest => from + Cardinality(page) = CountOf(watched)
<1> DEFINE n == CountOf(watched)
           upto == IF n <= from + PageSize THEN n ELSE from + PageSize
           numbers == (from + 1)..upto
           number == [e \in page |-> e.seq]
<1>1. /\ n \in Nat /\ PageSize \in Nat /\ from \in Nat /\ from <= n
      /\ {e.seq : e \in EventsOf(watched)} = 1..n
      /\ \A e, f \in EventsOf(watched) : e.seq = f.seq => e = f
  BY DEF WatchingAssumption, EventsNumbered
<1> HIDE DEF n
<1>2. upto \in Nat /\ from <= upto /\ upto <= n /\ upto <= from + PageSize
  BY <1>1
<1>3. \A e \in EventsOf(watched) : e.seq \in 1..n
  BY <1>1
<1>4. \A e \in page : e \in EventsOf(watched) /\ e.seq \in numbers
  BY <1>1, <1>3
<1>5. number \in Injection(page, numbers)
  <2>1. number \in [page -> numbers]
    BY <1>4
  <2>2. \A e, f \in page : number[e] = number[f] => e = f
    BY <1>1, <1>4
  <2> QED
    BY <2>1, <2>2 DEF Injection, IsInjective
<1>6. \A k \in numbers : \E e \in page : number[e] = k
  <2> TAKE k \in numbers
  <2>1. k \in 1..n /\ k > from /\ k <= from + PageSize
    BY <1>1, <1>2
  <2>2. PICK e \in EventsOf(watched) : e.seq = k
    BY <2>1, <1>1
  <2>3. e \in page
    BY <2>1, <2>2
  <2> QED
    BY <2>2, <2>3
<1>7. number \in Surjection(page, numbers)
  BY <1>5, <1>6 DEF Injection, Surjection
<1>8. IsFiniteSet(numbers) /\ Cardinality(numbers) = upto - from
  <2> HIDE DEF upto
  <2>1. from + 1 \in Int /\ upto \in Int
    BY <1>1, <1>2
  <2>2. IsFiniteSet(numbers) /\ Cardinality(numbers) = IF from + 1 > upto THEN 0 ELSE upto - (from + 1) + 1
    BY <2>1, FS_Interval
  <2> QED
    BY <2>2, <1>1, <1>2
<1>9. Cardinality(page) = upto - from
  <2> HIDE DEF number, numbers
  <2> QED
    BY <1>5, <1>7, <1>8, FS_Injection
<1>10. from + Cardinality(page) = upto
  <2> HIDE DEF upto
  <2> QED
    BY <1>9, <1>1, <1>2
<1>11. \A e \in EventsOf(watched) : from < e.seq /\ e.seq <= upto => e \in page
  BY <1>1, <1>2, <1>3
<1>12. ASSUME page = rest PROVE upto = n
  <2>1. CASE n = from
    BY <2>1, <1>1, <1>2
  <2>2. CASE n # from
    <3>1. PICK e \in EventsOf(watched) : e.seq = n
      BY <2>2, <1>1
    <3>2. e \in page
      BY <3>1, <2>2, <1>1, <1>12
    <3> QED
      BY <3>1, <3>2, <1>1, <1>4
  <2> QED
    BY <2>1, <2>2
<1> HIDE DEF upto
<1>13. from + Cardinality(page) \in from..n
  BY <1>1, <1>2, <1>10
<1>14. \A e \in EventsOf(watched) : from < e.seq /\ e.seq <= from + Cardinality(page) => e \in page
  BY <1>10, <1>11
<1> QED
  BY <1>10, <1>12, <1>13, <1>14 DEF n

LEMMA NothingWatched == WatchingAssumption /\ WatchInit => WatchInv
<1> SUFFICES ASSUME WatchingAssumption, WatchInit PROVE WatchInv
  OBVIOUS
<1> USE DEF WatchInit
<1>1. picked \in WatchedRuns
  BY DEF WatchingAssumption
<1>2. Fresh \in [state : {"waiting", "open", "stopped"}, cursor : Nat \union {Start}, era : Nat]
  BY DEF Fresh
<1>3. WatchRows
  <2>1. \A w \in Watchers : watchers[w] = Fresh
    OBVIOUS
  <2>2. Len(journal) = 0 /\ Journals
    BY DEF Journals
  <2>3. Fresh.cursor <= 0 /\ Fresh.state # "open"
    BY DEF Fresh, Start
  <2>4. watchers \in [Watchers -> [state : {"waiting", "open", "stopped"}, cursor : Nat \union {Start}, era : Nat]]
    BY <1>2
  <2> QED
    BY <1>1, <2>1, <2>2, <2>3, <2>4 DEF WatchRows
<1>4. EventsNumbered
  <2> SUFFICES ASSUME NEW watched \in WatchedRuns
               PROVE  CountOf(watched) = 0 /\ EventsOf(watched) = {}
    BY DEF EventsNumbered
  <2>1. {i \in DOMAIN journal : journal[i].run = watched} = {}
    OBVIOUS
  <2> QED
    BY <2>1, FS_EmptySet DEF CountOf, EventsOf
<1> QED
  BY <1>3, <1>4 DEF WatchInv, CacheGapless, AnswerGapless, CacheShown, PassedRead

LEMMA JournalKept ==
  ASSUME UNCHANGED journal
  PROVE  /\ Journals' = Journals
         /\ \A watched : CountOf(watched)' = CountOf(watched) /\ EventsOf(watched)' = EventsOf(watched)
         /\ \A i : SeqAt(i)' = SeqAt(i)
         /\ EventsNumbered' = EventsNumbered
<1>1. \A watched : CountOf(watched)' = CountOf(watched) /\ EventsOf(watched)' = EventsOf(watched)
  BY DEF CountOf, EventsOf
<1> QED
  BY <1>1 DEF Journals, SeqAt, EventsNumbered

\* what the page has read and shows does not depend on its subscriptions
LEMMA PagesKept ==
  ASSUME UNCHANGED <<journal, cached, displayed, picked, fetching>>,
         CacheGapless, AnswerGapless, CacheShown,
         restless' \in BOOLEAN, restless => restless', trouble => trouble',
         watchers'["run"].state = "open" => watchers["run"].state = "open" \/ ~restless
  PROVE  CacheGapless' /\ AnswerGapless' /\ CacheShown'
<1>1. /\ \A watched, upto, events : Gapless(watched, upto, events)' = Gapless(watched, upto, events)
      /\ \A watched : EventsOf(watched)' = EventsOf(watched)
  BY JournalKept DEF Gapless
<1>2. CacheGapless'
  BY <1>1 DEF CacheGapless
<1>3. AnswerGapless'
  BY <1>1 DEF AnswerGapless
<1>4. CacheShown'
  BY DEF CacheShown
<1> QED
  BY <1>2, <1>3, <1>4

\* a passed event stays read while the page's stream passes nothing new
LEMMA PassedKept ==
  ASSUME UNCHANGED <<journal, cached, picked, fetching>>, PassedRead,
         watchers'["page"].cursor = watchers["page"].cursor,
         armed => armed' \/ restless', restless => restless', trouble => trouble'
  PROVE  PassedRead'
BY JournalKept DEF PassedRead

LEMMA WatchKept ==
  ASSUME UNCHANGED watchVars, WatchInv
  PROVE  WatchInv'
<1>1. UNCHANGED <<journal, cached, displayed, picked, fetching, watchers, era, restless, armed, trouble>>
  BY DEF watchVars
<1>2. CacheGapless' /\ AnswerGapless' /\ CacheShown'
  BY <1>1, PagesKept DEF WatchInv, WatchRows
<1>3. PassedRead'
  BY <1>1, PassedKept DEF WatchInv
<1>4. WatchRows' /\ EventsNumbered'
  BY <1>1, JournalKept DEF WatchInv, WatchRows
<1> QED
  BY <1>2, <1>3, <1>4 DEF WatchInv

LEMMA JournaledKeeps ==
  ASSUME WatchInv, NEW r \in WatchedRuns, NEW output \in BOOLEAN, Journaled(r, output)
  PROVE  WatchInv'
<1> DEFINE new == [seq |-> CountOf(r) + 1, output |-> output]
<1>1. /\ journal' = Append(journal, [run |-> r, output |-> output])
      /\ UNCHANGED <<era, watchers, cached, displayed, picked, fetching, restless, armed, trouble>>
  BY DEF Journaled
<1>2. WatchRows /\ Journals /\ EventsNumbered
  BY DEF WatchInv, WatchRows
<1>3. /\ Journals' /\ Len(journal)' = Len(journal) + 1
      /\ \A i \in 1..Len(journal) : journal'[i] = journal[i] /\ SeqAt(i)' = SeqAt(i)
      /\ \A watched \in WatchedRuns :
           /\ CountOf(watched)' = IF watched = r THEN CountOf(watched) + 1 ELSE CountOf(watched)
           /\ EventsOf(watched)' = IF watched = r THEN EventsOf(watched) \union {new} ELSE EventsOf(watched)
  BY <1>1, <1>2, EventAdded
<1>4. Len(journal) \in Nat
  BY <1>2 DEF Journals
<1>5. WatchRows'
  <2>1. \A w \in Watchers : /\ watchers[w].cursor <= Len(journal) + 1
                            /\ watchers[w].state = "open" => watchers[w].cursor # Start
    BY <1>2, <1>4 DEF WatchRows, Start
  <2> QED
    BY <2>1, <1>1, <1>2, <1>3 DEF WatchRows
<1>6. EventsNumbered'
  <2> SUFFICES ASSUME NEW watched \in WatchedRuns
               PROVE  /\ CountOf(watched)' \in Nat
                      /\ {e.seq : e \in EventsOf(watched)'} = 1..CountOf(watched)'
                      /\ \A e, f \in EventsOf(watched)' : e.seq = f.seq => e = f
    BY DEF EventsNumbered
  <2>1. /\ CountOf(watched) \in Nat /\ {e.seq : e \in EventsOf(watched)} = 1..CountOf(watched)
        /\ \A e, f \in EventsOf(watched) : e.seq = f.seq => e = f
    BY <1>2 DEF EventsNumbered
  <2>2. CASE watched # r
    BY <2>1, <2>2, <1>3
  <2>3. CASE watched = r
    <3>1. new.seq = CountOf(watched) + 1
      BY <2>3
    <3>2. CountOf(watched)' = CountOf(watched) + 1 /\ EventsOf(watched)' = EventsOf(watched) \union {new}
      BY <2>3, <1>3
    <3> HIDE DEF new
    <3>3. {e.seq : e \in EventsOf(watched)'} = {e.seq : e \in EventsOf(watched)} \union {new.seq}
      BY <3>2
    <3>4. 1..(CountOf(watched) + 1) = (1..CountOf(watched)) \union {CountOf(watched) + 1}
      BY <2>1
    <3>5. \A e \in EventsOf(watched) : e.seq \in 1..CountOf(watched)
      BY <2>1
    <3>6. \A e \in EventsOf(watched) : e.seq # new.seq
      BY <3>1, <3>5, <2>1
    <3> QED
      BY <2>1, <3>1, <3>2, <3>3, <3>4, <3>6
  <2> QED
    BY <2>2, <2>3
<1>7. ASSUME NEW watched \in WatchedRuns, NEW upto, NEW events, Gapless(watched, upto, events)
      PROVE  Gapless(watched, upto, events)'
  <2>1. CountOf(watched) \in Nat
    BY <1>2 DEF EventsNumbered
  <2>2. new.seq = CountOf(r) + 1
    OBVIOUS
  <2> HIDE DEF new
  <2> QED
    BY <1>3, <1>7, <2>1, <2>2 DEF Gapless
<1>8. \A watched \in WatchedRuns : EventsOf(watched) \subseteq EventsOf(watched)'
  BY <1>3
<1>9. CacheGapless'
  BY <1>1, <1>7, <1>8 DEF WatchInv, CacheGapless
<1>10. AnswerGapless'
  BY <1>1, <1>2, <1>7, <1>8 DEF WatchInv, AnswerGapless, WatchRows
<1>11. CacheShown'
  BY <1>1 DEF WatchInv, CacheShown
<1>12. PassedRead'
  <2>1. watchers["page"].cursor <= Len(journal) /\ watchers["page"].cursor \in Nat \union {Start}
    BY <1>2 DEF WatchRows, Watchers
  <2>2. \A i \in 1..watchers["page"].cursor : i \in 1..Len(journal)
    BY <2>1, <1>4 DEF Start
  <2>3. PassedRead
    BY DEF WatchInv
  <2> QED
    BY <2>2, <2>3, <1>1, <1>3 DEF PassedRead
<1> QED
  BY <1>3, <1>5, <1>6, <1>9, <1>10, <1>11, <1>12 DEF WatchInv

\* a step that only moves subscriptions, the timer and the wish to read again
LEMMA WatchersMoved ==
  ASSUME WatchInv, UNCHANGED <<journal, cached, displayed, picked, fetching, trouble>>,
         WatchRows', restless => restless',
         watchers'["run"].state = "open" => watchers["run"].state = "open" \/ ~restless,
         \/ watchers'["page"].cursor = watchers["page"].cursor /\ (armed => armed' \/ restless')
         \/ /\ watchers'["page"].cursor = watchers["page"].cursor + 1
            /\ journal[watchers["page"].cursor + 1].output /\ UNCHANGED <<armed, restless>>
         \/ armed' \/ restless'
  PROVE  WatchInv'
<1>1. CacheGapless' /\ AnswerGapless' /\ CacheShown'
  BY PagesKept DEF WatchInv, WatchRows
<1>2. PassedRead'
  <2>1. CASE watchers'["page"].cursor = watchers["page"].cursor /\ (armed => armed' \/ restless')
    BY <2>1, PassedKept DEF WatchInv
  <2>2. CASE armed' \/ restless'
    BY <2>2 DEF PassedRead
  <2>3. CASE /\ watchers'["page"].cursor = watchers["page"].cursor + 1
             /\ journal[watchers["page"].cursor + 1].output /\ UNCHANGED <<armed, restless>>
    <3>1. watchers["page"].cursor \in Nat \union {-1}
      BY DEF WatchInv, WatchRows, Watchers, Start
    <3>2. \A i \in 1..(watchers["page"].cursor + 1) :
             i \in 1..watchers["page"].cursor \/ i = watchers["page"].cursor + 1
      BY <3>1
    <3>3. PassedRead /\ \A i : SeqAt(i)' = SeqAt(i)
      BY JournalKept DEF WatchInv
    <3> QED
      BY <2>3, <3>2, <3>3 DEF PassedRead
  <2> QED
    BY <2>1, <2>2, <2>3
<1>3. EventsNumbered'
  BY JournalKept DEF WatchInv
<1> QED
  BY <1>1, <1>2, <1>3 DEF WatchInv

WatcherRows == [state : {"waiting", "open", "stopped"}, cursor : Nat \union {Start}, era : Nat]

LEMMA WatcherMoved ==
  ASSUME WatchRows, NEW w \in Watchers, NEW new \in WatcherRows,
         new.cursor <= Len(journal), new.state = "open" => new.cursor # Start,
         watchers' = [watchers EXCEPT ![w] = new],
         UNCHANGED <<journal, picked>>, era' \in Nat,
         restless' \in BOOLEAN, armed' \in BOOLEAN, trouble' \in BOOLEAN
  PROVE  /\ WatchRows' /\ watchers'[w] = new
         /\ \A v \in Watchers : v # w => watchers'[v] = watchers[v]
<1>1. watchers' \in [Watchers -> WatcherRows]
  BY DEF WatchRows, WatcherRows
<1>2. /\ watchers'[w] = new
      /\ \A v \in Watchers : v # w => watchers'[v] = watchers[v]
  BY DEF WatchRows
<1>3. \A v \in Watchers : /\ watchers'[v].cursor <= Len(journal)
                          /\ watchers'[v].state = "open" => watchers'[v].cursor # Start
  BY <1>2 DEF WatchRows
<1> QED
  BY <1>1, <1>2, <1>3 DEF WatchRows, WatcherRows, Journals

LEMMA RowsKept ==
  ASSUME WatchRows, UNCHANGED <<journal, watchers>>, era' \in Nat, picked' \in WatchedRuns,
         restless' \in BOOLEAN, armed' \in BOOLEAN, trouble' \in BOOLEAN
  PROVE  WatchRows'
BY DEF WatchRows, Journals

LEMMA WatcherOf ==
  ASSUME WatchRows, NEW w \in Watchers
  PROVE  /\ watchers[w] \in WatcherRows /\ watchers[w].cursor <= Len(journal)
         /\ watchers[w].state = "open" => watchers[w].cursor # Start
         /\ Len(journal) \in Nat /\ era \in Nat
         /\ restless \in BOOLEAN /\ armed \in BOOLEAN /\ trouble \in BOOLEAN
BY DEF WatchRows, WatcherRows, Journals

LEMMA SubscribedKeeps ==
  ASSUME WatchInv, NEW w \in Watchers, Subscribed(w)
  PROVE  WatchInv'
<1> DEFINE new == [state |-> "open", era |-> era,
                   cursor |-> IF watchers[w].cursor = Start THEN Len(journal) ELSE watchers[w].cursor]
<1>1. /\ w = "run" => ~restless
      /\ watchers' = [watchers EXCEPT ![w] = new] /\ armed' = (armed \/ w = "page")
      /\ UNCHANGED <<journal, era, cached, displayed, picked, fetching, restless, trouble>>
  BY DEF Subscribed
<1>2. WatchRows
  BY DEF WatchInv
<1>3. /\ watchers[w] \in WatcherRows /\ watchers[w].cursor <= Len(journal)
      /\ Len(journal) \in Nat /\ era \in Nat
      /\ restless \in BOOLEAN /\ armed \in BOOLEAN /\ trouble \in BOOLEAN
  BY <1>2, WatcherOf
<1>4. new \in WatcherRows /\ new.cursor <= Len(journal) /\ new.cursor # Start
  BY <1>3 DEF WatcherRows, Start
<1> HIDE DEF new
<1>5. WatchRows' /\ watchers'[w] = new /\ \A v \in Watchers : v # w => watchers'[v] = watchers[v]
  BY <1>1, <1>2, <1>3, <1>4, WatcherMoved
<1>6. CASE w = "page"
  BY <1>1, <1>5, <1>6, WatchersMoved DEF Watchers
<1>7. CASE w = "run"
  BY <1>1, <1>5, <1>7, WatchersMoved DEF Watchers
<1> QED
  BY <1>6, <1>7 DEF Watchers

\* an event of the run that the stream gives to the page
LEMMA SeenKeeps ==
  ASSUME WatchInv, NEW e \in EventsOf(picked), RunEventSeen(e), WatchRows',
         watchers["run"].state = "open",
         watchers'["page"].cursor = watchers["page"].cursor,
         UNCHANGED <<journal, picked, fetching, restless, armed, trouble>>
  PROVE  WatchInv'
<1>1. /\ cached' = [run |-> picked, events |-> KeptEvents(cached, picked) \union {e},
                    cursor |-> FetchFrom(cached, picked)]
      /\ displayed' = [run |-> picked, events |-> KeptEvents(cached, picked) \union {e}]
  BY DEF RunEventSeen
<1>2. /\ cached'.run = picked /\ cached'.cursor = FetchFrom(cached, picked)
      /\ cached'.events = KeptEvents(cached, picked) \union {e}
  BY <1>1
<1>3. picked \in WatchedRuns /\ CountOf(picked) \in Nat /\ picked # "nothing"
  BY WatchingAssumption DEF WatchInv, WatchRows, EventsNumbered, WatchingAssumption
<1>4. \A x \in EventsOf(picked) : x.seq \in 1..CountOf(picked)
  BY <1>3 DEF WatchInv, EventsNumbered
<1>5. /\ KeptEvents(cached, picked) \subseteq EventsOf(picked)
      /\ Gapless(picked, FetchFrom(cached, picked), KeptEvents(cached, picked))
  <2>1. CASE cached.run = picked
    <3>1. cached # NoCache
      BY <2>1, <1>3 DEF NoCache
    <3> QED
      BY <2>1, <3>1 DEF WatchInv, CacheGapless, KeptEvents, FetchFrom
  <2>2. CASE cached.run # picked
    <3>1. KeptEvents(cached, picked) = {} /\ FetchFrom(cached, picked) = 0
      BY <2>2 DEF KeptEvents, FetchFrom
    <3>2. \A x \in EventsOf(picked) : ~(x.seq <= 0)
      BY <1>3, <1>4
    <3> QED
      BY <3>1, <3>2, <1>3 DEF Gapless
  <2> QED
    BY <2>1, <2>2
<1>6. /\ \A watched : EventsOf(watched)' = EventsOf(watched)
      /\ \A watched, upto, events : Gapless(watched, upto, events)' = Gapless(watched, upto, events)
      /\ EventsNumbered'
  BY JournalKept DEF Gapless, WatchInv
<1>7. CacheGapless'
  <2>1. cached'.events \subseteq EventsOf(picked) /\ Gapless(picked, cached'.cursor, cached'.events)
    BY <1>2, <1>5 DEF Gapless
  <2> QED
    BY <2>1, <1>2, <1>3, <1>6 DEF CacheGapless
<1>8. AnswerGapless'
  <2> SUFFICES ASSUME fetching # NoFetch
               PROVE  /\ fetching.kept \subseteq EventsOf(picked) /\ fetching.events \subseteq EventsOf(picked)
                      /\ fetching.more \in BOOLEAN
                      /\ Gapless(picked, fetching.next, fetching.kept \union fetching.events)
                      /\ Gapless(picked, fetching.next, cached'.events \union fetching.events)
    BY <1>2, <1>6 DEF AnswerGapless
  <2>1. /\ fetching.kept \subseteq EventsOf(picked) /\ fetching.events \subseteq EventsOf(picked)
        /\ fetching.more \in BOOLEAN
        /\ Gapless(picked, fetching.next, fetching.kept \union fetching.events)
        /\ cached.run = picked => Gapless(picked, fetching.next, cached.events \union fetching.events)
        /\ cached.run # picked => fetching.kept = {}
    BY DEF WatchInv, AnswerGapless
  <2>2. Gapless(picked, fetching.next, KeptEvents(cached, picked) \union fetching.events)
    BY <2>1 DEF KeptEvents
  <2>3. Gapless(picked, fetching.next, cached'.events \union fetching.events)
    BY <2>2, <1>2 DEF Gapless
  <2> QED
    BY <2>1, <2>3
<1>9. CacheShown'
  BY <1>1 DEF CacheShown
<1>10. PassedRead'
  <2> SUFFICES ASSUME ~armed, ~restless, ~trouble, NEW i \in 1..watchers["page"].cursor,
                      journal[i].run = picked, ~journal[i].output
               PROVE  IF fetching = NoFetch THEN SeqAt(i) <= cached'.cursor
                      ELSE fetching.more \/ SeqAt(i) <= fetching.next
    BY JournalKept DEF PassedRead
  <2>1. IF fetching = NoFetch THEN SeqAt(i) <= cached.cursor
        ELSE fetching.more \/ SeqAt(i) <= fetching.next
    BY DEF WatchInv, PassedRead
  <2>2. fetching = NoFetch => cached.run = picked
    BY DEF WatchInv, CacheShown
  <2>3. fetching = NoFetch => cached'.cursor = cached.cursor
    BY <2>2, <1>2 DEF FetchFrom
  <2> QED
    BY <2>1, <2>3
<1> QED
  BY <1>6, <1>7, <1>8, <1>9, <1>10 DEF WatchInv

LEMMA StreamedKeeps ==
  ASSUME WatchInv, NEW w \in Watchers, Streamed(w)
  PROVE  WatchInv'
<1> DEFINE next == watchers[w].cursor + 1
           new == [watchers[w] EXCEPT !.cursor = next]
<1>1. /\ watchers[w].state = "open" /\ watchers[w].cursor < Len(journal)
      /\ watchers' = [watchers EXCEPT ![w].cursor = next]
      /\ armed' = (armed \/ (w = "page" /\ ~journal[next].output))
      /\ IF w = "run" /\ journal[next].run = picked THEN RunEventSeen(EventAt(next))
         ELSE UNCHANGED <<cached, displayed>>
      /\ UNCHANGED <<journal, era, picked, fetching, restless, trouble>>
  BY DEF Streamed
<1>2. WatchRows
  BY DEF WatchInv
<1>3. /\ watchers[w] \in WatcherRows /\ watchers[w].cursor # Start
      /\ Len(journal) \in Nat /\ era \in Nat
      /\ restless \in BOOLEAN /\ armed \in BOOLEAN /\ trouble \in BOOLEAN
  BY <1>1, <1>2, WatcherOf
<1>4. next \in 1..Len(journal)
  BY <1>1, <1>3 DEF WatcherRows, Start
<1>5. new \in WatcherRows /\ new.cursor = next /\ new.state = "open"
  BY <1>1, <1>3, <1>4 DEF WatcherRows
<1>6. watchers' = [watchers EXCEPT ![w] = new]
  BY <1>1
<1>7. journal[next].run \in WatchedRuns /\ journal[next].output \in BOOLEAN
      /\ EventAt(next) \in EventsOf(journal[next].run)
  BY <1>2, <1>4, EventNumber DEF WatchRows, WatchInv
<1> HIDE DEF new, next
<1>8. WatchRows' /\ watchers'[w] = new /\ \A v \in Watchers : v # w => watchers'[v] = watchers[v]
  <2>1. armed' \in BOOLEAN
    BY <1>1, <1>3, <1>7
  <2>2. next # Start /\ next <= Len(journal)
    BY <1>3, <1>4 DEF Start
  <2>3. UNCHANGED <<journal, picked>> /\ UNCHANGED <<era, restless, trouble>>
    BY <1>1
  <2>4. new.cursor <= Len(journal) /\ new.cursor # Start
    BY <2>2, <1>5
  <2> QED
    BY <2>1, <2>3, <2>4, <1>2, <1>3, <1>5, <1>6, WatcherMoved
<1>9. CASE w = "page"
  <2>1. watchers'["page"].cursor = watchers["page"].cursor + 1
    BY <1>5, <1>8, <1>9 DEF next
  <2>2. watchers'["run"] = watchers["run"]
    BY <1>8, <1>9 DEF Watchers
  <2>3. UNCHANGED <<journal, cached, displayed, picked, fetching, trouble, restless>>
    BY <1>1, <1>9
  <2>4. CASE journal[next].output
    <3>1. armed' = armed /\ journal[watchers["page"].cursor + 1].output
      BY <2>4, <1>1, <1>3, <1>9 DEF next
    <3> QED
      BY <2>1, <2>2, <2>3, <3>1, <1>8, WatchersMoved
  <2>5. CASE ~journal[next].output
    <3>1. armed'
      BY <2>5, <1>1, <1>9
    <3> QED
      BY <2>2, <2>3, <3>1, <1>8, WatchersMoved
  <2> QED
    BY <2>4, <2>5
<1>10. CASE w = "run"
  <2>1. watchers'["page"] = watchers["page"] /\ armed' = armed
    BY <1>1, <1>3, <1>8, <1>10 DEF Watchers
  <2>2. CASE journal[next].run = picked
    <3>1. EventAt(next) \in EventsOf(picked) /\ RunEventSeen(EventAt(next))
      BY <1>1, <1>7, <1>10, <2>2
    <3>2. PICK e \in EventsOf(picked) : RunEventSeen(e)
      BY <3>1
    <3> QED
      BY <3>2, <2>1, <1>1, <1>8, <1>10, SeenKeeps
  <2>3. CASE journal[next].run # picked
    <3>1. UNCHANGED <<cached, displayed>>
      BY <2>3, <1>1
    <3> QED
      BY <3>1, <2>1, <1>1, <1>8, <1>10, WatchersMoved
  <2> QED
    BY <2>2, <2>3
<1> QED
  BY <1>9, <1>10 DEF Watchers

LEMMA ResetKeeps ==
  ASSUME WatchInv, NEW w \in Watchers, ResetBy(w)
  PROVE  WatchInv'
<1>1. /\ watchers' = [watchers EXCEPT ![w] = Fresh]
      /\ IF w = "page" THEN armed' = TRUE /\ UNCHANGED <<cached, restless>>
         ELSE cached' = NoCache /\ restless' = TRUE /\ UNCHANGED armed
      /\ UNCHANGED <<journal, era, displayed, picked, fetching, trouble>>
  BY DEF ResetBy
<1>2. WatchRows /\ Fresh \in WatcherRows /\ Fresh.cursor = -1 /\ Fresh.state = "waiting"
  BY DEF WatchInv, Fresh, WatcherRows, Start
<1>3. Len(journal) \in Nat /\ era \in Nat /\ restless \in BOOLEAN /\ armed \in BOOLEAN /\ trouble \in BOOLEAN
  BY <1>2, WatcherOf
<1>4. WatchRows' /\ watchers'[w] = Fresh /\ \A v \in Watchers : v # w => watchers'[v] = watchers[v]
  <2>1. Fresh.cursor <= Len(journal) /\ restless' \in BOOLEAN /\ armed' \in BOOLEAN
    <3>1. Fresh.cursor <= Len(journal)
      BY <1>2, <1>3
    <3>2. CASE w = "page"
      BY <3>1, <3>2, <1>1, <1>3
    <3>3. CASE w # "page"
      BY <3>1, <3>3, <1>1, <1>3
    <3> QED
      BY <3>2, <3>3
  <2> QED
    BY <2>1, <1>1, <1>2, <1>3, WatcherMoved
<1>5. CASE w = "page"
  <2>1. watchers'["run"] = watchers["run"]
    BY <1>4, <1>5 DEF Watchers
  <2> QED
    BY <2>1, <1>1, <1>4, <1>5, WatchersMoved
<1>6. CASE w = "run"
  <2>1. cached' = NoCache /\ restless' /\ watchers'["run"].state # "open"
    BY <1>1, <1>2, <1>4, <1>6
  <2>2. cached'.run # picked
    BY <2>1, WatchingAssumption, <1>2 DEF WatchingAssumption, WatchRows, NoCache
  <2>3. /\ \A watched : EventsOf(watched)' = EventsOf(watched)
        /\ \A watched, upto, events : Gapless(watched, upto, events)' = Gapless(watched, upto, events)
        /\ EventsNumbered'
    BY <1>1, JournalKept DEF Gapless, WatchInv
  <2>4. AnswerGapless'
    BY <2>1, <2>2, <2>3, <1>1 DEF WatchInv, AnswerGapless
  <2> QED
    BY <2>1, <2>3, <2>4, <1>4 DEF WatchInv, CacheGapless, CacheShown, PassedRead
<1> QED
  BY <1>5, <1>6 DEF Watchers

\* the state of one subscription changes, and it does not open
LEMMA StateKeeps ==
  ASSUME WatchInv, NEW w \in Watchers, NEW state \in {"waiting", "stopped"},
         watchers' = [watchers EXCEPT ![w].state = state],
         UNCHANGED <<journal, era, cached, displayed, picked, fetching, restless, armed, trouble>>
  PROVE  WatchInv'
<1> DEFINE new == [watchers[w] EXCEPT !.state = state]
<1>1. WatchRows /\ watchers[w] \in WatcherRows /\ watchers[w].cursor <= Len(journal)
      /\ era \in Nat /\ restless \in BOOLEAN /\ armed \in BOOLEAN /\ trouble \in BOOLEAN
  BY WatcherOf DEF WatchInv
<1>2. new \in WatcherRows /\ new.cursor = watchers[w].cursor /\ new.state = state
  BY <1>1 DEF WatcherRows
<1>3. watchers' = [watchers EXCEPT ![w] = new]
  OBVIOUS
<1> HIDE DEF new
<1>4. WatchRows' /\ watchers'[w] = new /\ \A v \in Watchers : v # w => watchers'[v] = watchers[v]
  BY <1>1, <1>2, <1>3, WatcherMoved
<1>5. /\ watchers'["page"].cursor = watchers["page"].cursor
      /\ watchers'["run"].state = "open" => watchers["run"].state = "open"
  BY <1>2, <1>4 DEF Watchers
<1> QED
  BY <1>4, <1>5, WatchersMoved

LEMMA PickedKeeps ==
  ASSUME WatchInv, NEW r \in WatchedRuns, Picked(r)
  PROVE  WatchInv'
<1>1. /\ picked' = r /\ watchers' = [watchers EXCEPT !["run"] = Fresh]
      /\ fetching' = NoFetch /\ restless' = TRUE
      /\ UNCHANGED <<journal, era, cached, displayed, armed, trouble>>
  BY DEF Picked
<1>2. WatchRows /\ Fresh \in WatcherRows /\ Fresh.cursor = -1 /\ Fresh.state = "waiting"
  BY DEF WatchInv, Fresh, WatcherRows, Start
<1>3. WatchRows'
  <2>1. watchers' \in [Watchers -> WatcherRows] /\ watchers'["run"] = Fresh /\ watchers'["page"] = watchers["page"]
    BY <1>1, <1>2 DEF WatchRows, WatcherRows, Watchers
  <2>2. /\ watchers["page"].cursor <= Len(journal) /\ Len(journal) \in Nat
        /\ watchers["page"].state = "open" => watchers["page"].cursor # Start
    BY <1>2, WatcherOf DEF Watchers
  <2>3. \A v \in Watchers : /\ watchers'[v].cursor <= Len(journal)
                            /\ watchers'[v].state = "open" => watchers'[v].cursor # Start
    BY <2>1, <2>2, <1>2 DEF Watchers
  <2> QED
    BY <2>1, <2>3, <1>1, <1>2 DEF WatchRows, WatcherRows, Journals
<1>4. /\ \A watched : EventsOf(watched)' = EventsOf(watched)
      /\ \A watched, upto, events : Gapless(watched, upto, events)' = Gapless(watched, upto, events)
      /\ EventsNumbered'
  BY <1>1, JournalKept DEF Gapless, WatchInv
<1>5. CacheGapless'
  BY <1>1, <1>4 DEF WatchInv, CacheGapless
<1> QED
  BY <1>1, <1>3, <1>4, <1>5 DEF WatchInv, AnswerGapless, CacheShown, PassedRead

LEMMA FetchKeeps ==
  ASSUME WatchInv, Fetch
  PROVE  WatchInv'
<1> DEFINE from == FetchFrom(cached, picked)
           kept == KeptEvents(cached, picked)
           rest == {e \in EventsOf(picked) : e.seq > from}
           page == {e \in rest : e.seq <= from + PageSize}
           n == from + Cardinality(page)
<1>1. /\ ~restless' /\ ~trouble' /\ restless' \in BOOLEAN /\ trouble' \in BOOLEAN
      /\ fetching' = [kept |-> kept, events |-> page, more |-> page # rest, next |-> n]
      /\ UNCHANGED <<journal, era, watchers, cached, displayed, picked, armed>>
  BY DEF Fetch
<1>2. /\ WatchRows /\ EventsNumbered /\ picked \in WatchedRuns /\ CountOf(picked) \in Nat
      /\ picked # "nothing" /\ era \in Nat /\ armed \in BOOLEAN
  BY WatchingAssumption DEF WatchInv, WatchRows, EventsNumbered, WatchingAssumption
<1>3. \A x \in EventsOf(picked) : x.seq \in 1..CountOf(picked)
  BY <1>2 DEF EventsNumbered
<1>4. kept \subseteq EventsOf(picked) /\ Gapless(picked, from, kept)
  <2>1. CASE cached.run = picked
    <3>1. cached # NoCache
      BY <2>1, <1>2 DEF NoCache
    <3> QED
      BY <2>1, <3>1 DEF WatchInv, CacheGapless, KeptEvents, FetchFrom
  <2>2. CASE cached.run # picked
    <3>1. kept = {} /\ from = 0
      BY <2>2 DEF KeptEvents, FetchFrom
    <3>2. \A x \in EventsOf(picked) : ~(x.seq <= 0)
      BY <1>2, <1>3
    <3> QED
      BY <3>1, <3>2, <1>2 DEF Gapless
  <2> QED
    BY <2>1, <2>2
<1>5. from \in 0..CountOf(picked)
  BY <1>4 DEF Gapless
<1> HIDE DEF from, kept
<1>6. /\ n \in from..CountOf(picked)
      /\ \A e \in EventsOf(picked) : from < e.seq /\ e.seq <= n => e \in page
      /\ page = rest => n = CountOf(picked)
  BY <1>2, <1>5, WatchingAssumption, PageFacts
<1>7. page \subseteq EventsOf(picked)
  OBVIOUS
<1> HIDE DEF page, n, rest
<1>8. Gapless(picked, n, kept \union page)
  BY <1>2, <1>3, <1>4, <1>5, <1>6 DEF Gapless
<1>9. /\ fetching'.kept = kept /\ fetching'.events = page /\ fetching'.more = (page # rest)
      /\ fetching'.next = n /\ fetching' # NoFetch
  <2>1. n # -1
    BY <1>5, <1>6, <1>2
  <2> QED
    BY <1>1, <2>1 DEF NoFetch
<1>10. /\ \A watched : EventsOf(watched)' = EventsOf(watched)
       /\ \A watched, upto, events : Gapless(watched, upto, events)' = Gapless(watched, upto, events)
       /\ EventsNumbered'
  BY <1>1, JournalKept DEF Gapless, WatchInv
<1>11. WatchRows'
  BY <1>1, <1>2, RowsKept
<1>12. CacheGapless'
  BY <1>1, <1>10 DEF WatchInv, CacheGapless
<1>13. AnswerGapless'
  <2>1. cached.run = picked => kept = cached.events
    BY DEF kept, KeptEvents
  <2>2. cached.run # picked => kept = {}
    BY DEF kept, KeptEvents
  <2>3. (page # rest) \in BOOLEAN
    OBVIOUS
  <2> QED
    BY <2>1, <2>2, <2>3, <1>1, <1>4, <1>7, <1>8, <1>9, <1>10 DEF AnswerGapless
<1>14. CacheShown'
  BY <1>9 DEF CacheShown
<1>15. PassedRead'
  <2> SUFFICES ASSUME NEW i \in 1..watchers["page"].cursor, journal[i].run = picked, page = rest
               PROVE  SeqAt(i) <= n
    BY <1>1, <1>9, JournalKept DEF PassedRead
  <2>1. watchers["page"] \in WatcherRows /\ watchers["page"].cursor <= Len(journal) /\ Len(journal) \in Nat
    BY <1>2, WatcherOf DEF Watchers
  <2>2. i \in 1..Len(journal)
    BY <2>1 DEF WatcherRows, Start
  <2>3. SeqAt(i) \in 1..CountOf(picked)
    BY <2>2, <1>2, EventNumber DEF WatchRows
  <2> QED
    BY <2>3, <1>2, <1>6
<1> QED
  BY <1>10, <1>11, <1>12, <1>13, <1>14, <1>15 DEF WatchInv

LEMMA FetchedKeeps ==
  ASSUME WatchInv, Fetched
  PROVE  WatchInv'
<1> DEFINE events == (IF cached.run = picked THEN cached.events ELSE fetching.kept) \union fetching.events
<1>1. /\ fetching # NoFetch
      /\ cached' = [run |-> picked, events |-> events, cursor |-> fetching.next]
      /\ displayed' = [run |-> picked, events |-> events]
      /\ restless' = (restless \/ fetching.more) /\ fetching' = NoFetch
      /\ UNCHANGED <<journal, era, watchers, picked, armed, trouble>>
  BY DEF Fetched
<1>2. /\ fetching.kept \subseteq EventsOf(picked) /\ fetching.events \subseteq EventsOf(picked)
      /\ fetching.more \in BOOLEAN
      /\ Gapless(picked, fetching.next, fetching.kept \union fetching.events)
      /\ cached.run = picked => Gapless(picked, fetching.next, cached.events \union fetching.events)
  BY <1>1 DEF WatchInv, AnswerGapless
<1>3. WatchRows /\ picked \in WatchedRuns /\ picked # "nothing"
  BY WatchingAssumption DEF WatchInv, WatchRows, WatchingAssumption
<1>4. events \subseteq EventsOf(picked) /\ Gapless(picked, fetching.next, events)
  <2>1. CASE cached.run = picked
    <3>1. cached # NoCache
      BY <2>1, <1>3 DEF NoCache
    <3> QED
      BY <2>1, <3>1, <1>2 DEF WatchInv, CacheGapless
  <2>2. CASE cached.run # picked
    BY <2>2, <1>2
  <2> QED
    BY <2>1, <2>2
<1> HIDE DEF events
<1>5. cached'.run = picked /\ cached'.events = events /\ cached'.cursor = fetching.next
  BY <1>1
<1>6. /\ \A watched : EventsOf(watched)' = EventsOf(watched)
      /\ \A watched, upto, es : Gapless(watched, upto, es)' = Gapless(watched, upto, es)
      /\ EventsNumbered'
  BY <1>1, JournalKept DEF Gapless, WatchInv
<1>7. WatchRows'
  <2>1. restless' \in BOOLEAN /\ era \in Nat /\ armed \in BOOLEAN /\ trouble \in BOOLEAN
    BY <1>1, <1>2, <1>3 DEF WatchRows
  <2> QED
    BY <2>1, <1>1, <1>3, RowsKept
<1>8. CacheGapless'
  BY <1>1, <1>3, <1>4, <1>5, <1>6 DEF CacheGapless
<1>9. AnswerGapless' /\ CacheShown'
  BY <1>1 DEF AnswerGapless, CacheShown
<1>10. PassedRead'
  <2> SUFFICES ASSUME ~armed, ~restless, ~fetching.more, ~trouble,
                      NEW i \in 1..watchers["page"].cursor,
                      journal[i].run = picked, ~journal[i].output
               PROVE  SeqAt(i) <= fetching.next
    BY <1>1, <1>5, JournalKept DEF PassedRead
  <2> QED
    BY <1>1 DEF WatchInv, PassedRead
<1> QED
  BY <1>6, <1>7, <1>8, <1>9, <1>10 DEF WatchInv

LEMMA FetchFailedKeeps ==
  ASSUME WatchInv, FetchFailed
  PROVE  WatchInv'
<1>1. /\ fetching' = NoFetch /\ trouble' = TRUE
      /\ UNCHANGED <<journal, era, watchers, cached, displayed, picked, restless, armed>>
  BY DEF FetchFailed
<1>2. WatchRows'
  BY <1>1, RowsKept DEF WatchInv, WatchRows
<1>3. /\ \A watched : EventsOf(watched)' = EventsOf(watched)
      /\ \A watched, upto, events : Gapless(watched, upto, events)' = Gapless(watched, upto, events)
      /\ EventsNumbered'
  BY <1>1, JournalKept DEF Gapless, WatchInv
<1>4. CacheGapless'
  BY <1>1, <1>3 DEF WatchInv, CacheGapless
<1> QED
  BY <1>1, <1>2, <1>3, <1>4 DEF WatchInv, AnswerGapless, CacheShown, PassedRead

LEMMA WatchStep == WatchInv /\ [WatchNext]_watchVars => WatchInv'
<1> SUFFICES ASSUME WatchInv, [WatchNext]_watchVars PROVE WatchInv'
  OBVIOUS
<1>1. CASE UNCHANGED watchVars
  BY <1>1, WatchKept
<1>2. ASSUME NEW r \in WatchedRuns, Picked(r) PROVE WatchInv'
  BY <1>2, PickedKeeps
<1>3. ASSUME NEW r \in WatchedRuns, NEW output \in BOOLEAN, Journaled(r, output) PROVE WatchInv'
  BY <1>3, JournaledKeeps
<1>4. ASSUME NEW w \in Watchers, Subscribed(w) PROVE WatchInv'
  BY <1>4, SubscribedKeeps
<1>5. ASSUME NEW w \in Watchers, Streamed(w) PROVE WatchInv'
  BY <1>5, StreamedKeeps
<1>6. ASSUME NEW w \in Watchers, ResetBy(w) PROVE WatchInv'
  BY <1>6, ResetKeeps
<1>7. ASSUME NEW w \in Watchers, Disconnected(w) PROVE WatchInv'
  BY <1>7, StateKeeps DEF Disconnected
<1>8. CASE WentOffline
  BY <1>8, StateKeeps DEF WentOffline, Watchers
<1>9. CASE CameOnline
  BY <1>9, StateKeeps DEF CameOnline, Watchers
<1>10. CASE NewInspection
  <2>1. UNCHANGED <<journal, watchers, cached, displayed, picked, fetching, restless, armed, trouble>>
        /\ era' \in Nat
    BY <1>10 DEF NewInspection, WatchInv, WatchRows
  <2>2. WatchRows'
    BY <2>1, RowsKept DEF WatchInv, WatchRows
  <2> QED
    BY <2>1, <2>2, WatchersMoved
<1>11. CASE Refreshed
  <2>1. /\ restless' = TRUE /\ armed' = FALSE
        /\ UNCHANGED <<journal, era, watchers, cached, displayed, picked, fetching, trouble>>
    BY <1>11 DEF Refreshed
  <2>2. WatchRows'
    BY <2>1, RowsKept DEF WatchInv, WatchRows
  <2> QED
    BY <2>1, <2>2, WatchersMoved
<1>12. CASE Fetch
  BY <1>12, FetchKeeps
<1>13. CASE Fetched
  BY <1>13, FetchedKeeps
<1>14. CASE FetchFailed
  BY <1>14, FetchFailedKeeps
<1> QED
  BY <1>1, <1>2, <1>3, <1>4, <1>5, <1>6, <1>7, <1>8, <1>9, <1>10, <1>11, <1>12, <1>13, <1>14 DEF WatchNext

LEMMA WholeOfInv == WatchInv => WatchedWhole
<1> SUFFICES ASSUME WatchInv, AtRest
             PROVE  /\ displayed.run = picked
                    /\ displayed.events \subseteq EventsOf(picked)
                    /\ \A e, later \in EventsOf(picked) :
                         later.seq >= e.seq /\ ~later.output => e \in displayed.events
  BY DEF WatchedWhole
<1>1. /\ fetching = NoFetch /\ ~restless /\ ~armed /\ ~trouble
      /\ watchers["page"].cursor = Len(journal)
  BY DEF AtRest, Caught, Watchers
<1>2. cached.run = picked /\ displayed = [run |-> picked, events |-> cached.events]
  BY <1>1 DEF WatchInv, CacheShown
<1>3. picked \in WatchedRuns /\ Journals /\ EventsNumbered
  BY DEF WatchInv, WatchRows
<1>4. cached.events \subseteq EventsOf(picked) /\ Gapless(picked, cached.cursor, cached.events)
  <2>1. cached # NoCache
    BY <1>2, <1>3, WatchingAssumption DEF WatchingAssumption, NoCache
  <2> QED
    BY <2>1, <1>2 DEF WatchInv, CacheGapless
<1>5. ASSUME NEW e \in EventsOf(picked), NEW later \in EventsOf(picked),
             later.seq >= e.seq, ~later.output
      PROVE  e \in cached.events
  <2>1. PICK i \in 1..Len(journal) : journal[i].run = picked /\ later = EventAt(i)
    BY <1>3, EventPlaces
  <2>2. later.seq = SeqAt(i) /\ ~journal[i].output
    BY <2>1, <1>5 DEF EventAt
  <2>3. SeqAt(i) <= cached.cursor
    BY <2>1, <2>2, <1>1 DEF WatchInv, PassedRead
  <2>4. e.seq \in 1..CountOf(picked) /\ SeqAt(i) \in 1..CountOf(picked) /\ CountOf(picked) \in Nat
    BY <1>3, <2>1, EventNumber DEF EventsNumbered
  <2>5. e.seq <= cached.cursor
    BY <1>4, <1>5, <2>2, <2>3, <2>4 DEF Gapless
  <2> QED
    BY <1>4, <2>5 DEF Gapless
<1> QED
  BY <1>2, <1>4, <1>5

\* Once nothing is under way and no error is shown, the page shows its run whole
\* up to the last event that is not output, for any runs, journals, page sizes,
\* lost connections, failed requests and reloads (use-run-activity.ts, run-stream.ts).
THEOREM WatchedWholeHolds == WatchInit /\ [][WatchNext]_watchVars => []WatchedWhole
<1>1. WatchInit => WatchInv
  BY WatchingAssumption, NothingWatched
<1> QED
  BY <1>1, WatchStep, WholeOfInv, PTL

(* --------------------------- commits and answers ------------------------- *)

CommitRows == [parents : Seq(Nat), author : Authors \union {"host"}, number : Nat, base : Nat]
RefRows == [head : Nat, version : Nat]
DraftRows == [at : {"idle", "ready", "answered"}, number : Nat, name : RefNames \union {"none"},
              seen : RefRows, others : SUBSET Nat, answer : {"none", "stored", "refused"}]

GraphRows ==
  /\ commits \in Seq(CommitRows)
  /\ refs \in [RefNames -> RefRows]
  /\ drafts \in [Authors -> DraftRows]
  /\ \A a \in Authors : IsFiniteSet(drafts[a].others)

\* what is stored continues what its author had seen
Continued ==
  \A c \in CommitsMade :
    commits[c].base # 0 => commits[c].parents # <<>> /\ Head(commits[c].parents) = commits[c].base

\* a version stands for one head of its ref, and a ref that moved has another
SeenOnce ==
  \A a \in Authors : drafts[a].at # "idle" =>
    /\ drafts[a].name \in RefNames
    /\ drafts[a].seen.version <= refs[drafts[a].name].version
    /\ drafts[a].seen.version = refs[drafts[a].name].version => drafts[a].seen = refs[drafts[a].name]

\* a refusal is the answer to a request that stored nothing
RefusedUnstored ==
  \A a \in Authors : drafts[a].at # "ready" /\ drafts[a].answer = "refused" => Repeated(a) = {}

CommitsInv == GraphRows /\ Continued /\ SeenOnce /\ RefusedUnstored

LEMMA ListedIsSequence ==
  ASSUME NEW S, IsFiniteSet(S)
  PROVE  SetToSeq(S) \in Seq(S)
<1>1. Cardinality(S) \in Nat
  BY FS_CardinalityType
<1>2. \E f \in [1..Cardinality(S) -> S] : IsInjective(f)
  <2>1. PICK f \in Bijection(1..Cardinality(S), S) : TRUE
    BY FS_CardinalityType DEF ExistsBijection
  <2> QED
    BY <2>1 DEF Bijection, Injection, IsInjective
<1>3. SetToSeq(S) \in [1..Cardinality(S) -> S]
  BY <1>2 DEF SetToSeq
<1> QED
  BY <1>1, <1>3

LEMMA ParentsListed ==
  ASSUME GraphRows, NEW d \in DraftRows, d.name \in RefNames, IsFiniteSet(d.others)
  PROVE  LET head == refs[d.name].head
         IN  /\ ParentsOf(d) \in Seq(Nat)
             /\ head # 0 => ParentsOf(d) # <<>> /\ Head(ParentsOf(d)) = head
<1> DEFINE head == refs[d.name].head
           rest == SetToSeq(d.others \ {head})
<1>1. head \in Nat /\ d.others \subseteq Nat
  BY DEF GraphRows, RefRows, DraftRows
<1>2. rest \in Seq(Nat)
  <2>1. d.others \ {head} \in SUBSET d.others /\ IsFiniteSet(d.others \ {head})
    BY FS_Subset
  <2>2. rest \in Seq(d.others \ {head})
    BY <2>1, ListedIsSequence
  <2> QED
    BY <1>1, <2>2
<1>3. ParentsOf(d) = IF head = 0 THEN rest ELSE <<head>> \o rest
  BY DEF ParentsOf
<1> HIDE DEF head, rest
<1>4. <<head>> \o rest \in Seq(Nat) /\ <<head>> \o rest # <<>> /\ Head(<<head>> \o rest) = head
  <2>1. <<head>> \in Seq(Nat) /\ Len(<<head>>) = 1 /\ <<head>>[1] = head
    BY <1>1
  <2>2. /\ <<head>> \o rest \in Seq(Nat) /\ Len(<<head>> \o rest) = 1 + Len(rest)
        /\ (<<head>> \o rest)[1] = head /\ Len(rest) \in Nat
    BY <2>1, <1>2
  <2> QED
    BY <2>2
<1> QED
  BY <1>2, <1>3, <1>4 DEF head

LEMMA OnlyRoot == ContextInit => CommitsInv
<1> SUFFICES ASSUME ContextInit PROVE CommitsInv
  OBVIOUS
<1> DEFINE root == NewCommit(<<>>, "host", 0, 0)
<1>1. PICK n \in RefNames : commits = <<root>> /\ refs = [NoRefs EXCEPT ![n] = [head |-> 1, version |-> 1]]
  BY DEF ContextInit
<1>2. drafts = [a \in Authors |-> NoDraft]
  BY DEF ContextInit
<1>3. root \in CommitRows /\ root.base = 0
  BY DEF CommitRows, NewCommit
<1> HIDE DEF root
<1>4. commits \in Seq(CommitRows) /\ Len(commits) = 1 /\ commits[1] = root /\ CommitsMade = 1..1
  BY <1>1, <1>3 DEF CommitsMade
<1>5. refs \in [RefNames -> RefRows]
  BY <1>1 DEF NoRefs, NoRef, RefRows
<1>6. NoDraft \in DraftRows /\ IsFiniteSet(NoDraft.others)
  BY FS_EmptySet DEF NoDraft, DraftRows, RefRows, NoRef
<1>7. NoDraft.at = "idle" /\ NoDraft.answer = "none"
  BY DEF NoDraft
<1>8. GraphRows
  BY <1>2, <1>4, <1>5, <1>6 DEF GraphRows
<1> QED
  BY <1>2, <1>3, <1>4, <1>7, <1>8 DEF CommitsInv, Continued, SeenOnce, RefusedUnstored

LEMMA DraftFacts ==
  ASSUME CommitsInv, NEW a \in Authors
  PROVE  /\ drafts[a] \in DraftRows /\ IsFiniteSet(drafts[a].others)
         /\ drafts[a].number \in Nat /\ drafts[a].seen \in RefRows
         /\ drafts[a].at # "idle" => /\ drafts[a].name \in RefNames
                                     /\ refs[drafts[a].name] \in RefRows
  BY DEF CommitsInv, GraphRows, DraftRows, SeenOnce

\* a step of one author that stores nothing
LEMMA DraftMoved ==
  ASSUME CommitsInv, NEW a \in Authors, NEW d \in DraftRows, IsFiniteSet(d.others),
         drafts' = [drafts EXCEPT ![a] = d], UNCHANGED <<commits, refs>>,
         d.at # "idle" => /\ d.name \in RefNames
                          /\ d.seen.version <= refs[d.name].version
                          /\ d.seen.version = refs[d.name].version => d.seen = refs[d.name],
         d.at # "ready" /\ d.answer = "refused" =>
           {c \in CommitsMade : commits[c].author = a /\ commits[c].number = d.number} = {}
  PROVE  CommitsInv'
<1>1. drafts'[a] = d /\ \A b \in Authors : b # a => drafts'[b] = drafts[b]
  BY DEF CommitsInv, GraphRows
<1>2. drafts' \in [Authors -> DraftRows] /\ \A b \in Authors : IsFiniteSet(drafts'[b].others)
  BY <1>1 DEF CommitsInv, GraphRows
<1>3. GraphRows'
  BY <1>2 DEF CommitsInv, GraphRows
<1>4. Continued'
  BY DEF CommitsInv, Continued, CommitsMade
<1>5. SeenOnce'
  BY <1>1 DEF CommitsInv, SeenOnce
<1>6. \A b \in Authors : Repeated(b)' =
         {c \in CommitsMade : commits[c].author = b /\ commits[c].number = drafts'[b].number}
  BY DEF Repeated, CommitsMade
<1>7. RefusedUnstored'
  BY <1>1, <1>6 DEF CommitsInv, RefusedUnstored, Repeated
<1> QED
  BY <1>3, <1>4, <1>5, <1>7 DEF CommitsInv

LEMMA PrepareKeeps ==
  ASSUME CommitsInv, NEW a \in Authors, NEW n \in RefNames, NEW others \in SUBSET Nat,
         IsFiniteSet(others), Prepare(a, n, others)
  PROVE  CommitsInv'
<1> DEFINE d == [at |-> "ready", number |-> drafts[a].number + 1, name |-> n,
                 seen |-> refs[n], others |-> others, answer |-> "none"]
<1>1. drafts' = [drafts EXCEPT ![a] = d] /\ UNCHANGED <<commits, refs>>
  BY DEF Prepare
<1>2. drafts[a].number \in Nat /\ refs[n] \in RefRows
  BY DraftFacts DEF CommitsInv, GraphRows
<1>3. d \in DraftRows
  BY <1>2 DEF DraftRows
<1>4. /\ d.others = others /\ d.at = "ready" /\ d.name = n /\ d.seen = refs[n]
      /\ refs[n].version \in Nat
  BY <1>2 DEF RefRows
<1> HIDE DEF d
<1>5. /\ d.name \in RefNames /\ d.seen.version <= refs[d.name].version
      /\ d.seen.version = refs[d.name].version => d.seen = refs[d.name]
  BY <1>4
<1>6. IsFiniteSet(d.others) /\ ~(d.at # "ready" /\ d.answer = "refused")
  BY <1>4
<1> QED
  BY <1>1, <1>3, <1>5, <1>6, DraftMoved

\* the answer to a request, and its fate
LEMMA AnswerKeeps ==
  ASSUME CommitsInv, NEW a \in Authors, drafts[a].at # "idle",
         NEW at \in {"ready", "answered"}, NEW answer \in {"none", "stored", "refused"},
         drafts' = [drafts EXCEPT ![a].at = at, ![a].answer = answer], UNCHANGED <<commits, refs>>,
         at # "ready" /\ answer = "refused" => Repeated(a) = {}
  PROVE  CommitsInv'
<1> DEFINE d == [drafts[a] EXCEPT !.at = at, !.answer = answer]
<1>1. drafts' = [drafts EXCEPT ![a] = d]
  BY DEF CommitsInv, GraphRows
<1>2. d \in DraftRows /\ d.others = drafts[a].others /\ d.at = at /\ d.answer = answer
      /\ d.name = drafts[a].name /\ d.seen = drafts[a].seen /\ d.number = drafts[a].number
  BY DraftFacts DEF DraftRows
<1>3. /\ drafts[a].name \in RefNames
      /\ drafts[a].seen.version <= refs[drafts[a].name].version
      /\ drafts[a].seen.version = refs[drafts[a].name].version => drafts[a].seen = refs[drafts[a].name]
  BY DEF CommitsInv, SeenOnce
<1>4. Repeated(a) = {c \in CommitsMade : commits[c].author = a /\ commits[c].number = d.number}
  BY <1>2 DEF Repeated
<1>5. IsFiniteSet(d.others)
  BY <1>2, DraftFacts
<1> HIDE DEF d
<1> QED
  BY <1>1, <1>2, <1>3, <1>4, <1>5, DraftMoved

LEMMA ReceiveKeeps ==
  ASSUME CommitsInv, NEW a \in Authors, Receive(a)
  PROVE  CommitsInv'
<1> DEFINE d == [NoDraft EXCEPT !.number = drafts[a].number, !.answer = drafts[a].answer]
<1>1. /\ drafts[a].at = "answered"
      /\ drafts' = [drafts EXCEPT ![a] = d] /\ UNCHANGED <<commits, refs>>
  BY DEF Receive
<1>2. d \in DraftRows /\ d.others = {} /\ d.at = "idle"
      /\ d.answer = drafts[a].answer /\ d.number = drafts[a].number
  BY DraftFacts DEF DraftRows, NoDraft, NoRef, RefRows
<1>3. IsFiniteSet(d.others)
  BY <1>2, FS_EmptySet
<1>4. drafts[a].answer = "refused" => Repeated(a) = {}
  BY <1>1 DEF CommitsInv, RefusedUnstored
<1>5. Repeated(a) = {c \in CommitsMade : commits[c].author = a /\ commits[c].number = d.number}
  BY <1>2 DEF Repeated
<1> HIDE DEF d
<1> QED
  BY <1>1, <1>2, <1>3, <1>4, <1>5, DraftMoved

\* a commit continues what its author had seen, as the ref has not moved since
LEMMA CommitKeeps ==
  ASSUME CommitsInv, NEW a \in Authors, Commit(a)
  PROVE  CommitsInv'
<1> DEFINE d == drafts[a]
           parents == ParentsOf(d)
           new == NewCommit(parents, a, d.number, d.seen.head)
           last == Len(commits) + 1
           moved == [head |-> last, version |-> refs[d.name].version + 1]
           answered == [d EXCEPT !.at = "answered", !.answer = "stored"]
<1>1. /\ d.at = "ready" /\ ~CommitRefused(a)
      /\ commits' = Append(commits, new)
      /\ refs' = [refs EXCEPT ![d.name] = moved]
      /\ drafts' = [drafts EXCEPT ![a].at = "answered", ![a].answer = "stored"]
  BY DEF Commit, AnswerDraft
<1>2. /\ d \in DraftRows /\ IsFiniteSet(d.others) /\ d.number \in Nat /\ d.seen \in RefRows
      /\ d.name \in RefNames /\ refs[d.name] \in RefRows
  BY <1>1, DraftFacts
<1>3. d.seen = refs[d.name]
  <2>1. refs[d.name].version = d.seen.version
    BY <1>1 DEF CommitRefused
  <2> QED
    BY <2>1, <1>1 DEF CommitsInv, SeenOnce
<1>4. parents \in Seq(Nat) /\ (d.seen.head # 0 => parents # <<>> /\ Head(parents) = d.seen.head)
  BY <1>2, <1>3, ParentsListed DEF CommitsInv
<1>5. GraphRows
  BY DEF CommitsInv
<1>6. drafts' = [drafts EXCEPT ![a] = answered]
  BY <1>1, <1>5 DEF GraphRows
<1>7. /\ answered \in DraftRows /\ answered.others = d.others /\ answered.at = "answered"
      /\ answered.answer = "stored" /\ answered.name = d.name /\ answered.seen = d.seen
      /\ answered.number = d.number
  BY <1>2 DEF DraftRows
<1> HIDE DEF answered, d
<1>8. drafts'[a] = answered /\ \A b \in Authors : b # a => drafts'[b] = drafts[b]
  BY <1>5, <1>6 DEF GraphRows
<1>9. Len(commits) \in Nat /\ commits \in Seq(CommitRows)
  BY <1>5 DEF GraphRows
<1>10. moved \in RefRows /\ moved.version = refs[d.name].version + 1 /\ refs[d.name].version \in Nat
  BY <1>2, <1>9 DEF RefRows
<1>11. /\ refs' \in [RefNames -> RefRows] /\ refs'[d.name] = moved
       /\ \A n \in RefNames : n # d.name => refs'[n] = refs[n]
  BY <1>1, <1>2, <1>5, <1>10 DEF GraphRows
<1>12. /\ new \in CommitRows /\ new.author = a /\ new.number = d.number
       /\ new.parents = parents /\ new.base = d.seen.head
  BY <1>2, <1>4 DEF NewCommit, CommitRows, RefRows
<1> HIDE DEF new, parents, moved
<1>13. /\ commits' \in Seq(CommitRows) /\ CommitsMade' = CommitsMade \union {last}
       /\ \A c \in CommitsMade : commits'[c] = commits[c]
       /\ commits'[last] = new
  BY <1>1, <1>9, <1>12 DEF CommitsMade
<1>14. GraphRows'
  <2>1. drafts' \in [Authors -> DraftRows]
    BY <1>5, <1>6, <1>7 DEF GraphRows
  <2>2. \A b \in Authors : IsFiniteSet(drafts'[b].others)
    BY <1>2, <1>5, <1>7, <1>8 DEF GraphRows
  <2> QED
    BY <2>1, <2>2, <1>11, <1>13 DEF GraphRows
<1>15. Continued'
  <2>1. Continued
    BY DEF CommitsInv
  <2>2. \A c \in CommitsMade' : c \in CommitsMade \/ c = last
    BY <1>13
  <2> QED
    BY <2>1, <2>2, <1>4, <1>12, <1>13 DEF Continued
<1>16. SeenOnce'
  <2> SUFFICES ASSUME NEW b \in Authors, drafts'[b].at # "idle"
               PROVE  /\ drafts'[b].name \in RefNames
                      /\ drafts'[b].seen.version <= refs'[drafts'[b].name].version
                      /\ drafts'[b].seen.version = refs'[drafts'[b].name].version =>
                           drafts'[b].seen = refs'[drafts'[b].name]
    BY DEF SeenOnce
  <2>1. drafts'[b].name = drafts[b].name /\ drafts'[b].seen = drafts[b].seen /\ drafts[b].at # "idle"
    BY <1>1, <1>7, <1>8 DEF d
  <2>2. /\ drafts[b].name \in RefNames
        /\ drafts[b].seen.version <= refs[drafts[b].name].version
        /\ drafts[b].seen.version = refs[drafts[b].name].version => drafts[b].seen = refs[drafts[b].name]
    BY <2>1 DEF CommitsInv, SeenOnce
  <2>3. drafts[b].seen.version \in Nat
    BY DraftFacts DEF RefRows
  <2>4. CASE drafts[b].name = d.name
    <3>1. refs'[drafts'[b].name].version = refs[drafts[b].name].version + 1
      BY <2>1, <2>4, <1>10, <1>11
    <3>2. refs[drafts[b].name].version \in Nat
      BY <2>4, <1>10
    <3> QED
      BY <3>1, <3>2, <2>1, <2>2, <2>3
  <2>5. CASE drafts[b].name # d.name
    BY <2>1, <2>2, <2>5, <1>11
  <2> QED
    BY <2>4, <2>5
<1>17. RefusedUnstored'
  <2> SUFFICES ASSUME NEW b \in Authors, drafts'[b].at # "ready", drafts'[b].answer = "refused"
               PROVE  Repeated(b)' = {}
    BY DEF RefusedUnstored
  <2>1. b # a
    BY <1>7, <1>8
  <2>2. drafts'[b] = drafts[b] /\ Repeated(b) = {}
    BY <2>1, <1>8 DEF CommitsInv, RefusedUnstored
  <2>3. \A c \in CommitsMade' : c \in CommitsMade \/ c = last
    BY <1>13
  <2>4. \A c \in CommitsMade' : ~(commits'[c].author = b /\ commits'[c].number = drafts'[b].number)
    BY <2>1, <2>2, <2>3, <1>12, <1>13 DEF Repeated
  <2> QED
    BY <2>4 DEF Repeated
<1> QED
  BY <1>14, <1>15, <1>16, <1>17 DEF CommitsInv

LEMMA ForkKeeps ==
  ASSUME CommitsInv, NEW n \in RefNames, NEW c \in CommitsMade, Fork(n, c)
  PROVE  CommitsInv'
<1> DEFINE forked == [head |-> c, version |-> 1]
<1>1. refs[n] = NoRef /\ refs' = [refs EXCEPT ![n] = forked] /\ UNCHANGED <<commits, drafts>>
  BY DEF Fork
<1>2. GraphRows
  BY DEF CommitsInv
<1>3. c \in Nat
  BY <1>2 DEF GraphRows, CommitsMade
<1>4. forked \in RefRows /\ forked.version = 1 /\ NoRef.version = 0
  BY <1>3 DEF RefRows, NoRef
<1> HIDE DEF forked
<1>5. /\ refs' \in [RefNames -> RefRows] /\ refs'[n] = forked
      /\ \A m \in RefNames : m # n => refs'[m] = refs[m]
  BY <1>1, <1>2, <1>4 DEF GraphRows
<1>6. GraphRows'
  BY <1>1, <1>2, <1>5 DEF GraphRows
<1>7. Continued' /\ RefusedUnstored'
  BY <1>1 DEF CommitsInv, Continued, RefusedUnstored, CommitsMade, Repeated
<1>8. SeenOnce'
  <2> SUFFICES ASSUME NEW b \in Authors, drafts[b].at # "idle"
               PROVE  /\ drafts[b].name \in RefNames
                      /\ drafts[b].seen.version <= refs'[drafts[b].name].version
                      /\ drafts[b].seen.version = refs'[drafts[b].name].version =>
                           drafts[b].seen = refs'[drafts[b].name]
    BY <1>1 DEF SeenOnce
  <2>1. /\ drafts[b].name \in RefNames
        /\ drafts[b].seen.version <= refs[drafts[b].name].version
        /\ drafts[b].seen.version = refs[drafts[b].name].version => drafts[b].seen = refs[drafts[b].name]
    BY DEF CommitsInv, SeenOnce
  <2>2. drafts[b].seen.version \in Nat
    BY DraftFacts DEF RefRows
  <2>3. CASE drafts[b].name = n
    BY <2>1, <2>2, <2>3, <1>1, <1>4, <1>5
  <2>4. CASE drafts[b].name # n
    BY <2>1, <2>4, <1>5
  <2> QED
    BY <2>3, <2>4
<1> QED
  BY <1>6, <1>7, <1>8 DEF CommitsInv

LEMMA GraphStep == CommitsInv /\ [ContextNext]_contextVars => CommitsInv'
<1> SUFFICES ASSUME CommitsInv, [ContextNext]_contextVars PROVE CommitsInv'
  OBVIOUS
<1>1. CASE UNCHANGED contextVars
  BY <1>1 DEF contextVars, CommitsInv, GraphRows, Continued, SeenOnce, RefusedUnstored, Repeated, CommitsMade
<1>2. ASSUME NEW a \in Authors, NEW n \in RefNames, Prepare(a, n, {}) PROVE CommitsInv'
  BY <1>2, PrepareKeeps, FS_EmptySet
<1>3. ASSUME NEW a \in Authors, NEW n \in RefNames, NEW m \in RefNames, Prepare(a, n, {refs[m].head})
      PROVE  CommitsInv'
  <2>1. refs[m].head \in Nat
    BY DEF CommitsInv, GraphRows, RefRows
  <2>2. {refs[m].head} \in SUBSET Nat /\ IsFiniteSet({refs[m].head})
    BY <2>1, FS_Singleton
  <2> QED
    BY <1>3, <2>2, PrepareKeeps
<1>4. ASSUME NEW a \in Authors, CommitAgain(a) PROVE CommitsInv'
  BY <1>4, AnswerKeeps DEF CommitAgain, AnswerDraft
<1>5. ASSUME NEW a \in Authors, RefuseCommit(a) PROVE CommitsInv'
  BY <1>5, AnswerKeeps DEF RefuseCommit, AnswerDraft
<1>6. ASSUME NEW a \in Authors, Commit(a) PROVE CommitsInv'
  BY <1>6, CommitKeeps
<1>7. ASSUME NEW a \in Authors, Receive(a) PROVE CommitsInv'
  BY <1>7, ReceiveKeeps
<1>8. ASSUME NEW a \in Authors, LoseAnswer(a) PROVE CommitsInv'
  <2>1. drafts[a].at = "answered" /\ UNCHANGED <<commits, refs>>
    BY <1>8 DEF LoseAnswer
  <2>2. drafts' = [drafts EXCEPT ![a].at = "ready", ![a].answer = drafts[a].answer]
    BY <1>8 DEF LoseAnswer, CommitsInv, GraphRows, DraftRows
  <2>3. drafts[a].answer \in {"none", "stored", "refused"}
    BY DraftFacts DEF DraftRows
  <2> QED
    BY <2>1, <2>2, <2>3, AnswerKeeps
<1>9. ASSUME NEW n \in RefNames, NEW c \in CommitsMade, Fork(n, c) PROVE CommitsInv'
  BY <1>9, ForkKeeps
<1> QED
  BY <1>1, <1>2, <1>3, <1>4, <1>5, <1>6, <1>7, <1>8, <1>9 DEF ContextNext

\* What an author is told of its commits is true, and a commit continues what its
\* author had seen, for any authors, refs, requests, lost answers and quota
\* (context-graph-store.ts 66-107).
THEOREM CommitsAnsweredHolds == ContextSpec => []CommitsAnswered
<1>1. CommitsInv => CommitsAnswered
  BY DEF CommitsInv, CommitsAnswered, Continued, RefusedUnstored, Repeated
<1> QED
  BY <1>1, OnlyRoot, GraphStep, PTL DEF ContextSpec

(* ------------------------------ context paths ---------------------------- *)

\* a set of numbers has a least one: the least of the intervals below them
LEMMA LeastNumber ==
  ASSUME NEW T, T \subseteq Nat, T # {}
  PROVE  \E n \in T : \A m \in T : n <= m
<1> DEFINE S == {0..n : n \in T}
<1>1. S \subseteq FiniteSubsetsOf(Nat)
  <2>1. \A n \in Nat : IsFiniteSet(0..n) /\ 0..n \subseteq Nat
    BY FS_Interval
  <2> QED
    BY <2>1 DEF FiniteSubsetsOf
<1>2. PICK X \in S : \A Y \in S : ~(<<Y, X>> \in StrictSubsetOrdering(Nat))
  <2>1. S # {}
    OBVIOUS
  <2>2. IsWellFoundedOn(StrictSubsetOrdering(Nat), FiniteSubsetsOf(Nat))
    BY FS_StrictSubsetOrderingWellFounded
  <2> HIDE DEF S
  <2> QED
    BY <1>1, <2>1, <2>2, WFMin
<1>3. PICK n \in T : X = 0..n
  BY <1>2
<1>4. ASSUME NEW m \in T, m < n PROVE FALSE
  <2>1. 0..m \in S /\ 0..m \subseteq 0..n /\ 0..m # 0..n /\ 0..m \subseteq Nat /\ 0..n \subseteq Nat
    BY <1>4
  <2>2. <<0..m, 0..n>> \in StrictSubsetOrdering(Nat)
    BY <2>1 DEF StrictSubsetOrdering
  <2> QED
    BY <1>2, <1>3, <2>1, <2>2
<1> QED
  BY <1>4

\* induction, of a set instead of a formula
LEMMA CountUp ==
  ASSUME NEW n \in Nat, NEW T, 0 \in T, \A k \in 1..n : k - 1 \in T => k \in T
  PROVE  \A k \in 0..n : k \in T
<1> DEFINE U == {k \in 0..n : k \notin T}
<1> SUFFICES ASSUME U # {} PROVE FALSE
  OBVIOUS
<1>1. PICK k \in U : \A m \in U : k <= m
  <2>1. U \subseteq Nat
    OBVIOUS
  <2> HIDE DEF U
  <2> QED
    BY <2>1, LeastNumber
<1>2. k - 1 \in 0..n /\ k - 1 \notin U
  BY <1>1
<1> QED
  BY <1>1, <1>2

\* a loop of n steps over S from s, and what it goes through
IsLoop(F, n, S) == n \in Nat /\ F \in [1..n -> [S -> S]]
Runs(f, F, n, S, s) ==
  /\ f \in [0..n -> S] /\ f[0] = s
  /\ \A k \in 1..n : f[k] = F[k][f[k - 1]]
  /\ f = [k \in 0..n |-> IF k = 0 THEN s ELSE F[k][f[k - 1]]]
  /\ \A k \in 1..n : f[k - 1] \in S

LEMMA LoopRuns ==
  ASSUME NEW n, NEW S, NEW s \in S, NEW F, IsLoop(F, n, S)
  PROVE  \E f : Runs(f, F, n, S, s)
<1> USE DEF IsLoop
<1> DEFINE Upto(m, f) == f \in [0..m -> S] /\ f[0] = s /\ \A k \in 1..m : f[k] = F[k][f[k - 1]]
           T == {m \in 0..n : \E f : Upto(m, f)}
<1>1. 0 \in T
  <2>1. Upto(0, [k \in 0..0 |-> s])
    OBVIOUS
  <2> HIDE DEF Upto
  <2> QED
    BY <2>1
<1>2. ASSUME NEW m \in 1..n, m - 1 \in T PROVE m \in T
  <2>1. PICK f : Upto(m - 1, f)
    BY <1>2
  <2> DEFINE g == [k \in 0..m |-> IF k = m THEN F[m][f[m - 1]] ELSE f[k]]
  <2>2. F[m][f[m - 1]] \in S
    BY <2>1
  <2>3. g \in [0..m -> S] /\ g[0] = s
    BY <2>1, <2>2
  <2>4. \A k \in 1..m : g[k] = F[k][g[k - 1]]
    BY <2>1
  <2>5. Upto(m, g)
    BY <2>3, <2>4
  <2> HIDE DEF Upto, g
  <2> QED
    BY <2>5
<1>3. n \in T
  <2> HIDE DEF T
  <2>1. \A k \in 1..n : k - 1 \in T => k \in T
    BY <1>2
  <2>2. \A k \in 0..n : k \in T
    BY <1>1, <2>1, CountUp, Zenon
  <2> QED
    BY <2>2
<1>4. PICK f : Upto(n, f)
  BY <1>3
<1>5. \A k \in 0..n : f[k] = IF k = 0 THEN s ELSE F[k][f[k - 1]]
  BY <1>4
<1>6. f = [k \in 0..n |-> IF k = 0 THEN s ELSE F[k][f[k - 1]]]
  BY <1>4, <1>5
<1>7. \A k \in 1..n : f[k - 1] \in S
  BY <1>4
<1> QED
  BY <1>4, <1>6, <1>7 DEF Runs

LEMMA WithinRuns ==
  ASSUME NEW T, NEW s \in Seq(T), NEW S
  PROVE  \E kept : /\ kept[0] = <<>>
                   /\ \A i \in 1..Len(s) :
                        kept[i] = IF s[i] \in S THEN Append(kept[i - 1], s[i]) ELSE kept[i - 1]
                   /\ Within(s, S) = kept[Len(s)]
<1> DEFINE n == Len(s)
           X == Seq(T)
           none == <<>>
           F == [i \in 1..n |-> [q \in X |-> IF s[i] \in S THEN Append(q, s[i]) ELSE q]]
           kept[i \in 0..Len(s)] ==
             IF i = 0 THEN <<>>
             ELSE IF s[i] \in S THEN Append(kept[i - 1], s[i]) ELSE kept[i - 1]
<1> HIDE DEF kept
<1>1. IsLoop(F, n, X) /\ none \in X /\ n \in Nat
  BY DEF IsLoop
<1>2. PICK f : Runs(f, F, n, X, none)
  <2> HIDE DEF n, X, none, F
  <2> QED
    BY <1>1, LoopRuns
<1>3. \A i \in 1..n : F[i][f[i - 1]] = IF s[i] \in S THEN Append(f[i - 1], s[i]) ELSE f[i - 1]
  <2>1. \A i \in 1..n : f[i - 1] \in X
    BY <1>2 DEF Runs
  <2> QED
    BY <2>1
<1> HIDE DEF F, n, X, none
<1>4. f = [i \in 0..n |-> IF i = 0 THEN none
             ELSE IF s[i] \in S THEN Append(f[i - 1], s[i]) ELSE f[i - 1]]
  BY <1>1, <1>2, <1>3 DEF Runs
<1>5. kept = [i \in 0..n |-> IF i = 0 THEN none
             ELSE IF s[i] \in S THEN Append(kept[i - 1], s[i]) ELSE kept[i - 1]]
  BY <1>4 DEF kept, n, none
<1>6. kept[0] = none /\ \A i \in 1..n : kept[i] = IF s[i] \in S THEN Append(kept[i - 1], s[i]) ELSE kept[i - 1]
  <2>1. \A i \in 0..n : kept[i] = IF i = 0 THEN none
             ELSE IF s[i] \in S THEN Append(kept[i - 1], s[i]) ELSE kept[i - 1]
    BY <1>5, Zenon
  <2> QED
    BY <1>1, <2>1
<1>7. Within(s, S) = kept[n]
  BY DEF Within, kept, n
<1> QED
  BY <1>6, <1>7 DEF n, none

LEMMA RangeListed ==
  ASSUME NEW T, NEW s \in Seq(T)
  PROVE  /\ Range(s) = {s[i] : i \in 1..Len(s)} /\ Range(s) \subseteq T /\ Len(s) \in Nat
         /\ IsInjective(s) <=> \A i \in 1..Len(s) : \A j \in 1..Len(s) : s[i] = s[j] => i = j
  BY DEF Range, IsInjective

LEMMA RangeAppended ==
  ASSUME NEW T, NEW s \in Seq(T), NEW x \in T
  PROVE  /\ Append(s, x) \in Seq(T) /\ Range(Append(s, x)) = Range(s) \union {x}
         /\ IsInjective(s) /\ x \notin Range(s) => IsInjective(Append(s, x))
<1> DEFINE t == Append(s, x)
<1>1. /\ t \in Seq(T) /\ Len(t) = Len(s) + 1 /\ t[Len(s) + 1] = x
      /\ \A i \in 1..Len(s) : t[i] = s[i]
  OBVIOUS
<1>2. Range(t) = {t[i] : i \in 1..Len(t)} /\ Range(s) = {s[i] : i \in 1..Len(s)} /\ Len(s) \in Nat
  BY <1>1, RangeListed
<1> HIDE DEF t
<1>3. Range(t) = Range(s) \union {x}
  <2>1. \A i \in 1..Len(t) : i \in 1..Len(s) \/ i = Len(s) + 1
    BY <1>1, <1>2
  <2>2. 1..Len(s) \subseteq 1..Len(t) /\ Len(s) + 1 \in 1..Len(t)
    BY <1>1, <1>2
  <2> QED
    BY <1>1, <1>2, <2>1, <2>2
<1>4. ASSUME IsInjective(s), x \notin Range(s) PROVE IsInjective(t)
  <2>1. \A i \in 1..Len(s) : \A j \in 1..Len(s) : s[i] = s[j] => i = j
    BY <1>4, RangeListed
  <2>2. \A i \in 1..Len(s) : s[i] # x
    BY <1>2, <1>4
  <2>3. \A i \in 1..Len(t) : i \in 1..Len(s) \/ i = Len(s) + 1
    BY <1>1, <1>2
  <2>4. \A i \in 1..Len(t) : \A j \in 1..Len(t) : t[i] = t[j] => i = j
    BY <1>1, <2>1, <2>2, <2>3
  <2> QED
    BY <1>1, <2>4, RangeListed
<1> QED
  BY <1>1, <1>3, <1>4 DEF t

LEMMA RangeJoined ==
  ASSUME NEW T, NEW s \in Seq(T), NEW u \in Seq(T)
  PROVE  /\ s \o u \in Seq(T) /\ Range(s \o u) = Range(s) \union Range(u)
         /\ Len(s \o u) = Len(s) + Len(u) /\ \A i \in 1..Len(s) : (s \o u)[i] = s[i]
         /\ \A i \in 1..Len(s \o u) : i > Len(s) => (s \o u)[i] \in Range(u)
         /\ IsInjective(s) /\ IsInjective(u) /\ Range(s) \intersect Range(u) = {} => IsInjective(s \o u)
<1> DEFINE t == s \o u
<1>1. /\ t \in Seq(T) /\ Len(t) = Len(s) + Len(u)
      /\ \A i \in 1..Len(s) : t[i] = s[i]
      /\ \A i \in 1..Len(u) : t[Len(s) + i] = u[i]
  OBVIOUS
<1>2. /\ Range(t) = {t[i] : i \in 1..Len(t)} /\ Range(s) = {s[i] : i \in 1..Len(s)} /\ Len(s) \in Nat
      /\ Range(u) = {u[i] : i \in 1..Len(u)} /\ Len(u) \in Nat
  BY <1>1, RangeListed
<1> HIDE DEF t
<1>3. \A i \in 1..Len(t) : i > Len(s) => i - Len(s) \in 1..Len(u) /\ t[i] = u[i - Len(s)]
  <2> TAKE i \in 1..Len(t)
  <2> HAVE i > Len(s)
  <2>1. i - Len(s) \in 1..Len(u) /\ Len(s) + (i - Len(s)) = i
    BY <1>1, <1>2
  <2> QED
    BY <1>1, <2>1
<1>4. \A i \in 1..Len(t) : i > Len(s) => t[i] \in Range(u)
  BY <1>2, <1>3
<1>5. \A i \in 1..Len(t) : i <= Len(s) => i \in 1..Len(s)
  BY <1>2
<1>6. Range(t) = Range(s) \union Range(u)
  <2>1. \A i \in 1..Len(t) : i <= Len(s) \/ i > Len(s)
    BY <1>1, <1>2
  <2>2. Range(t) \subseteq Range(s) \union Range(u)
    BY <1>1, <1>2, <1>4, <1>5, <2>1
  <2>3. \A i \in 1..Len(u) : Len(s) + i \in 1..Len(t)
    BY <1>1, <1>2
  <2>4. \A i \in 1..Len(s) : i \in 1..Len(t)
    BY <1>1, <1>2
  <2> QED
    BY <1>1, <1>2, <2>2, <2>3, <2>4
<1>7. ASSUME IsInjective(s), IsInjective(u), Range(s) \intersect Range(u) = {} PROVE IsInjective(t)
  <2>1. \A i \in 1..Len(s) : \A j \in 1..Len(s) : s[i] = s[j] => i = j
    BY <1>7, RangeListed
  <2>2. \A i \in 1..Len(u) : \A j \in 1..Len(u) : u[i] = u[j] => i = j
    BY <1>7, RangeListed
  <2>3. \A i \in 1..Len(s) : t[i] \notin Range(u)
    BY <1>1, <1>2, <1>7
  <2>4. ASSUME NEW i \in 1..Len(t), NEW j \in 1..Len(t), t[i] = t[j] PROVE i = j
    <3>1. CASE i <= Len(s) /\ j <= Len(s)
      BY <1>1, <1>5, <2>1, <2>4, <3>1
    <3>2. CASE i > Len(s) /\ j > Len(s)
      <4>1. i - Len(s) = j - Len(s)
        BY <1>3, <2>2, <2>4, <3>2
      <4> QED
        BY <1>2, <4>1
    <3>3. CASE i <= Len(s) /\ j > Len(s)
      BY <1>4, <1>5, <2>3, <2>4, <3>3
    <3>4. CASE i > Len(s) /\ j <= Len(s)
      BY <1>4, <1>5, <2>3, <2>4, <3>4
    <3> QED
      BY <1>2, <3>1, <3>2, <3>3, <3>4
  <2> QED
    BY <1>1, <2>4, RangeListed
<1> QED
  BY <1>1, <1>4, <1>6, <1>7 DEF t

LEMMA WithinKeeps ==
  ASSUME NEW T, NEW s \in Seq(T), NEW S
  PROVE  /\ Within(s, S) \in Seq(T) /\ Range(Within(s, S)) = Range(s) \intersect S
         /\ IsInjective(s) => IsInjective(Within(s, S))
<1>1. PICK kept : /\ kept[0] = <<>>
                  /\ \A i \in 1..Len(s) :
                       kept[i] = IF s[i] \in S THEN Append(kept[i - 1], s[i]) ELSE kept[i - 1]
                  /\ Within(s, S) = kept[Len(s)]
  BY WithinRuns
<1> DEFINE Good(i) == /\ kept[i] \in Seq(T)
                      /\ Range(kept[i]) = {s[j] : j \in 1..i} \intersect S
                      /\ IsInjective(s) => IsInjective(kept[i])
           G == {i \in 0..Len(s) : Good(i)}
<1>2. Len(s) \in Nat /\ \A i \in 1..Len(s) : s[i] \in T
  OBVIOUS
<1>3. 0 \in G
  <2>1. <<>> \in Seq(T) /\ Range(<<>>) = {} /\ IsInjective(<<>>)
    BY DEF Range, IsInjective
  <2>2. 1..0 = {}
    OBVIOUS
  <2>3. Good(0)
    BY <1>1, <2>1, <2>2
  <2> QED
    BY <1>2, <2>3
<1>4. ASSUME NEW i \in 1..Len(s), i - 1 \in G PROVE i \in G
  <2>1. Good(i - 1) /\ i \in Nat
    BY <1>2, <1>4
  <2>2. {s[j] : j \in 1..i} = {s[j] : j \in 1..(i - 1)} \union {s[i]}
    <3>1. \A j \in 1..i : j \in 1..(i - 1) \/ j = i
      BY <1>2
    <3>2. 1..(i - 1) \subseteq 1..i /\ i \in 1..i
      BY <1>2
    <3> QED
      BY <3>1, <3>2
  <2>3. CASE s[i] \in S
    <3>1. kept[i] = Append(kept[i - 1], s[i])
      BY <1>1, <2>3
    <3>2. /\ kept[i] \in Seq(T) /\ Range(kept[i]) = Range(kept[i - 1]) \union {s[i]}
          /\ IsInjective(kept[i - 1]) /\ s[i] \notin Range(kept[i - 1]) => IsInjective(kept[i])
      BY <1>2, <2>1, <3>1, RangeAppended
    <3>3. Range(kept[i]) = {s[j] : j \in 1..i} \intersect S
      BY <2>1, <2>2, <2>3, <3>2
    <3>4. IsInjective(s) => s[i] \notin {s[j] : j \in 1..(i - 1)}
      <4>1. \A j \in 1..(i - 1) : j \in 1..Len(s) /\ j # i
        BY <1>2
      <4> QED
        BY <4>1, RangeListed
    <3>5. Good(i)
      BY <2>1, <3>2, <3>3, <3>4
    <3> QED
      BY <1>2, <3>5
  <2>4. CASE s[i] \notin S
    <3>1. kept[i] = kept[i - 1]
      BY <1>1, <2>4
    <3>2. Good(i)
      BY <2>1, <2>2, <2>4, <3>1
    <3> QED
      BY <1>2, <3>2
  <2> QED
    BY <2>3, <2>4
<1>5. Len(s) \in G
  <2> HIDE DEF G
  <2>1. \A i \in 1..Len(s) : i - 1 \in G => i \in G
    BY <1>4
  <2>2. \A i \in 0..Len(s) : i \in G
    BY <1>2, <1>3, <2>1, CountUp, Zenon
  <2> QED
    BY <1>2, <2>2
<1> QED
  BY <1>1, <1>5, RangeListed

\* parents are older, and listed once; what is stored fits
Acyclic ==
  /\ Len(commits) <= CommitQuota
  /\ \A c \in CommitsMade : Range(commits[c].parents) \subseteq 1..(c - 1) /\ IsInjective(commits[c].parents)

Graph == commits \in Seq(CommitRows) /\ Acyclic

LEMMA ParentsOlder ==
  ASSUME Graph, NEW c \in CommitsMade
  PROVE  /\ commits[c].parents \in Seq(CommitsMade) /\ IsInjective(commits[c].parents)
         /\ \A p \in Range(commits[c].parents) : p \in CommitsMade /\ p < c
         /\ c \in 1..Len(commits) /\ Len(commits) \in Nat /\ SizeOf[c] \in Nat
<1>1. CommitsMade = 1..Len(commits) /\ Len(commits) \in Nat /\ Len(commits) <= CommitQuota
  BY DEF Graph, Acyclic, CommitsMade
<1>2. commits[c] \in CommitRows
  BY <1>1 DEF Graph, CommitsMade
<1>3. commits[c].parents \in Seq(Nat)
  BY <1>2 DEF CommitRows
<1>4. Range(commits[c].parents) \subseteq 1..(c - 1) /\ IsInjective(commits[c].parents)
  BY DEF Graph, Acyclic
<1>5. \A p \in Range(commits[c].parents) : p \in CommitsMade /\ p < c
  BY <1>1, <1>4
<1>6. commits[c].parents \in Seq(CommitsMade)
  <2> DEFINE s == commits[c].parents
  <2>1. Range(s) = {s[i] : i \in 1..Len(s)}
    BY <1>3, RangeListed
  <2>2. \A i \in 1..Len(s) : s[i] \in CommitsMade
    BY <1>5, <2>1
  <2> HIDE DEF s
  <2> QED
    BY <1>3, <2>2 DEF s
<1>7. SizeOf[c] \in Nat
  BY <1>1, ContextGraphAssumption
<1> QED
  BY <1>1, <1>4, <1>5, <1>6, <1>7

(* the ancestors of a head: the least set with it that holds the parents of its members *)

OlderClosed(S) == \A c \in S : Range(commits[c].parents) \subseteq S

LEMMA AncestorsRun ==
  ASSUME NEW head \in CommitsMade, Graph
  PROVE  \E reach : /\ reach[0] = {head}
                    /\ \A k \in 1..Len(commits) : reach[k] = WithParents(reach[k - 1])
                    /\ Ancestors(head) = reach[Len(commits)]
<1> DEFINE n == Len(commits)
           X == SUBSET CommitsMade
           one == {head}
           F == [k \in 1..n |-> [r \in X |-> WithParents(r)]]
           reach[k \in 0..Len(commits)] == IF k = 0 THEN {head} ELSE WithParents(reach[k - 1])
<1> HIDE DEF reach
<1>1. IsLoop(F, n, X) /\ one \in X /\ n \in Nat
  <2>1. ASSUME NEW r \in X PROVE WithParents(r) \in X
    BY ParentsOlder DEF WithParents
  <2>2. n \in Nat
    BY DEF Graph
  <2> QED
    BY <2>1, <2>2 DEF IsLoop
<1>2. PICK f : Runs(f, F, n, X, one)
  <2> HIDE DEF n, X, one, F
  <2> QED
    BY <1>1, LoopRuns
<1>3. \A k \in 1..n : F[k][f[k - 1]] = WithParents(f[k - 1])
  <2>1. \A k \in 1..n : f[k - 1] \in X
    BY <1>2 DEF Runs
  <2> HIDE DEF X, n
  <2> QED
    BY <2>1
<1> HIDE DEF F, n, X, one
<1>4. f = [k \in 0..n |-> IF k = 0 THEN one ELSE WithParents(f[k - 1])]
  BY <1>1, <1>2, <1>3 DEF Runs
<1>5. reach = [k \in 0..n |-> IF k = 0 THEN one ELSE WithParents(reach[k - 1])]
  BY <1>4 DEF reach, n, one
<1>6. reach[0] = one /\ \A k \in 1..n : reach[k] = WithParents(reach[k - 1])
  <2>1. \A k \in 0..n : reach[k] = IF k = 0 THEN one ELSE WithParents(reach[k - 1])
    BY <1>5, Zenon
  <2> QED
    BY <1>1, <2>1
<1>7. Ancestors(head) = reach[n]
  BY DEF Ancestors, reach, n
<1> QED
  BY <1>6, <1>7 DEF n, one

\* a member whose parents are not all there yet is k generations from the head
LEMMA AncestorsLeast ==
  ASSUME NEW head \in CommitsMade, Graph
  PROVE  /\ head \in Ancestors(head) /\ Ancestors(head) \subseteq CommitsMade
         /\ OlderClosed(Ancestors(head))
         /\ \A S : head \in S /\ OlderClosed(S) => Ancestors(head) \subseteq S
<1> DEFINE n == Len(commits)
           Old(c) == Range(commits[c].parents)
<1>1. PICK reach : /\ reach[0] = {head}
                   /\ \A k \in 1..n : reach[k] = WithParents(reach[k - 1])
                   /\ Ancestors(head) = reach[n]
  BY AncestorsRun
<1>2. n \in Nat /\ head \in 1..n /\ CommitsMade = 1..n
  BY ParentsOlder DEF CommitsMade, Graph
<1>3. \A c \in CommitsMade : \A p \in Old(c) : p \in CommitsMade /\ p < c
  BY ParentsOlder
<1>4. \A k \in 1..n : \A c : c \in reach[k] <=> c \in reach[k - 1] \/ \E d \in reach[k - 1] : c \in Old(d)
  BY <1>1 DEF WithParents
<1> DEFINE Good(k) == /\ head \in reach[k] /\ reach[k] \subseteq CommitsMade
                      /\ \A c \in reach[k] : Old(c) \subseteq reach[k] \/ c <= head - k
           G == {k \in 0..n : Good(k)}
<1> HIDE DEF Old
<1>5. 0 \in G
  <2>1. Good(0)
    BY <1>1, <1>2
  <2> QED
    BY <1>2, <2>1
<1>6. ASSUME NEW k \in 1..n, k - 1 \in G PROVE k \in G
  <2>1. Good(k - 1)
    BY <1>6
  <2>2. head \in reach[k] /\ reach[k - 1] \subseteq reach[k]
    BY <1>4, <2>1
  <2>3. reach[k] \subseteq CommitsMade
    BY <1>3, <1>4, <2>1
  <2>4. ASSUME NEW c \in reach[k] PROVE Old(c) \subseteq reach[k] \/ c <= head - k
    <3>1. CASE c \in reach[k - 1]
      BY <1>4, <3>1
    <3>2. CASE c \notin reach[k - 1]
      <4>1. PICK d \in reach[k - 1] : c \in Old(d)
        BY <1>4, <3>2
      <4>2. ~(Old(d) \subseteq reach[k - 1])
        BY <3>2, <4>1
      <4>3. d <= head - (k - 1)
        BY <2>1, <4>2
      <4>4. c < d /\ c \in 1..n /\ d \in 1..n
        BY <1>2, <1>3, <2>1, <4>1
      <4> QED
        BY <1>2, <4>3, <4>4
    <3> QED
      BY <3>1, <3>2
  <2>5. Good(k)
    BY <2>2, <2>3, <2>4
  <2> QED
    BY <2>5
<1>7. n \in G
  <2> HIDE DEF G
  <2>1. \A k \in 1..n : k - 1 \in G => k \in G
    BY <1>6
  <2>2. \A k \in 0..n : k \in G
    BY <1>2, <1>5, <2>1, CountUp, Zenon
  <2> QED
    BY <1>2, <2>2
<1>8. \A c \in reach[n] : Old(c) \subseteq reach[n]
  BY <1>2, <1>7
<1>9. ASSUME NEW S, head \in S, OlderClosed(S) PROVE reach[n] \subseteq S
  <2> DEFINE H == {k \in 0..n : reach[k] \subseteq S}
  <2>1. 0 \in H
    BY <1>1, <1>2, <1>9
  <2>2. \A k \in 1..n : k - 1 \in H => k \in H
    BY <1>4, <1>9 DEF OlderClosed, Old
  <2>3. n \in H
    <3> HIDE DEF H
    <3>1. \A k \in 0..n : k \in H
      BY <1>2, <2>1, <2>2, CountUp, Zenon
    <3> QED
      BY <1>2, <3>1
  <2> QED
    BY <2>3
<1> QED
  BY <1>1, <1>7, <1>8, <1>9 DEF OlderClosed, Old

(* the walk: what is queued are ancestors, and what was passed has its parents queued *)

Walks == [queue : Seq(CommitsMade), selected : Seq(CommitsMade), used : Nat, skipped : BOOLEAN]

Passed(w, k) == {w.queue[i] : i \in {j \in 1..Len(w.queue) : j <= k}}

Walking(w, k, head) ==
  /\ w \in Walks
  /\ head \in Range(w.queue) /\ Range(w.queue) \subseteq Ancestors(head)
  /\ IsInjective(w.queue) /\ IsInjective(w.selected)
  /\ \A c \in Passed(w, k) : Range(commits[c].parents) \subseteq Range(w.queue)
  /\ Range(w.selected) \subseteq Passed(w, k)
  /\ ~w.skipped => Passed(w, k) \subseteq Range(w.selected)

LEMMA UnqueuedAre ==
  ASSUME Graph, NEW queue \in Seq(CommitsMade), NEW c \in CommitsMade
  PROVE  /\ Unqueued(queue, c) \in Seq(CommitsMade) /\ IsInjective(Unqueued(queue, c))
         /\ Range(Unqueued(queue, c)) = Range(commits[c].parents) \ Range(queue)
<1>1. commits[c].parents \in Seq(CommitsMade) /\ IsInjective(commits[c].parents)
  BY ParentsOlder
<1> DEFINE s == commits[c].parents
           S == Range(s) \ Range(queue)
<1>2. /\ Within(s, S) \in Seq(CommitsMade) /\ Range(Within(s, S)) = Range(s) \intersect S
      /\ IsInjective(s) => IsInjective(Within(s, S))
  <2> HIDE DEF s, S
  <2> QED
    BY <1>1, WithinKeeps DEF s
<1> QED
  BY <1>1, <1>2 DEF Unqueued

LEMMA VisitStays ==
  ASSUME Graph, NEW k \in Nat, k # 0, NEW maxChars \in Nat, NEW w \in Walks
  PROVE  /\ Visit(w, k, maxChars) \in Walks
         /\ k <= Len(w.queue) =>
              LET c == w.queue[k]
                  v == Visit(w, k, maxChars)
              IN  /\ c \in CommitsMade /\ v.queue = w.queue \o Unqueued(w.queue, c)
                  /\ \/ v.selected = Append(w.selected, c) /\ v.skipped = w.skipped
                     \/ v.selected = w.selected /\ v.skipped
<1>1. w.queue \in Seq(CommitsMade) /\ w.selected \in Seq(CommitsMade) /\ w.used \in Nat /\ w.skipped \in BOOLEAN
  BY DEF Walks
<1>2. CASE k > Len(w.queue)
  <2>1. Visit(w, k, maxChars) = w
    BY <1>2 DEF Visit
  <2>2. ~(k <= Len(w.queue))
    BY <1>1, <1>2
  <2> QED
    BY <2>1, <2>2
<1>3. CASE ~(k > Len(w.queue))
  <2> DEFINE c == w.queue[k]
             more == Unqueued(w.queue, c)
             fits == w.used + SizeOf[c] <= maxChars
  <2>1. c \in CommitsMade
    BY <1>1, <1>3
  <2>2. more \in Seq(CommitsMade) /\ SizeOf[c] \in Nat
    BY <1>1, <2>1, UnqueuedAre, ParentsOlder
  <2>3. Visit(w, k, maxChars) =
          [queue |-> w.queue \o more,
           selected |-> IF fits THEN Append(w.selected, c) ELSE w.selected,
           used |-> IF fits THEN w.used + SizeOf[c] ELSE w.used,
           skipped |-> w.skipped \/ ~fits]
    BY <1>3 DEF Visit
  <2>4. fits \in BOOLEAN /\ w.used + SizeOf[c] \in Nat
    BY <1>1, <2>2
  <2>5. w.queue \o more \in Seq(CommitsMade) /\ Append(w.selected, c) \in Seq(CommitsMade)
    BY <1>1, <2>1, <2>2
  <2> HIDE DEF c, more, fits
  <2>6. Visit(w, k, maxChars) \in Walks
    BY <1>1, <2>3, <2>4, <2>5 DEF Walks
  <2>7. Visit(w, k, maxChars).queue = w.queue \o more
    BY <2>3
  <2>8. fits => /\ Visit(w, k, maxChars).selected = Append(w.selected, c)
                /\ Visit(w, k, maxChars).skipped = w.skipped
    BY <1>1, <2>3, <2>4
  <2>9. ~fits => Visit(w, k, maxChars).selected = w.selected
    BY <2>3
  <2>10. Visit(w, k, maxChars).skipped = (w.skipped \/ ~fits)
    BY <2>3
  <2>11. ~fits => Visit(w, k, maxChars).skipped
    BY <2>10, Zenon
  <2> QED
    BY <2>1, <2>6, <2>7, <2>8, <2>9, <2>11 DEF c, more
<1> QED
  BY <1>2, <1>3

LEMMA VisitKeeps ==
  ASSUME Graph, NEW head \in CommitsMade, NEW k \in Nat, k # 0, NEW maxChars \in Nat,
         NEW w, Walking(w, k - 1, head)
  PROVE  Walking(Visit(w, k, maxChars), k, head)
<1> DEFINE v == Visit(w, k, maxChars)
<1>1. /\ w \in Walks /\ w.queue \in Seq(CommitsMade) /\ w.selected \in Seq(CommitsMade)
      /\ Len(w.queue) \in Nat
  BY DEF Walking, Walks
<1>2. CASE k > Len(w.queue)
  <2>1. v = w
    BY <1>2 DEF Visit
  <2>2. Passed(w, k) = Passed(w, k - 1)
    <3>1. {j \in 1..Len(w.queue) : j <= k} = {j \in 1..Len(w.queue) : j <= k - 1}
      BY <1>1, <1>2
    <3> QED
      BY <3>1 DEF Passed
  <2> QED
    BY <2>1, <2>2 DEF Walking
<1>3. CASE k <= Len(w.queue)
  <2> DEFINE c == w.queue[k]
             more == Unqueued(w.queue, c)
  <2>1. /\ v \in Walks /\ c \in CommitsMade /\ v.queue = w.queue \o more
        /\ \/ v.selected = Append(w.selected, c) /\ v.skipped = w.skipped
           \/ v.selected = w.selected /\ v.skipped
    BY <1>1, <1>3, VisitStays
  <2>2. /\ more \in Seq(CommitsMade) /\ IsInjective(more)
        /\ Range(more) = Range(commits[c].parents) \ Range(w.queue)
    BY <1>1, <2>1, UnqueuedAre
  <2>3. /\ Range(w.queue \o more) = Range(w.queue) \union Range(more)
        /\ Len(w.queue \o more) = Len(w.queue) + Len(more)
        /\ \A i \in 1..Len(w.queue) : (w.queue \o more)[i] = w.queue[i]
        /\ IsInjective(w.queue) /\ IsInjective(more) /\ Range(w.queue) \intersect Range(more) = {}
             => IsInjective(w.queue \o more)
    <3> HIDE DEF more
    <3> QED
      BY <1>1, <2>2, RangeJoined
  <2>4. Len(more) \in Nat /\ Range(w.queue) = {w.queue[i] : i \in 1..Len(w.queue)}
    BY <1>1, <2>2, RangeListed
  <2> HIDE DEF v, more
  <2>5. IsInjective(v.queue)
    BY <2>1, <2>2, <2>3 DEF Walking
  <2>6. c \in Range(w.queue) /\ c \in Ancestors(head)
    BY <1>1, <1>3, <2>4 DEF Walking
  <2>7. head \in Range(v.queue) /\ Range(v.queue) \subseteq Ancestors(head)
    BY <2>1, <2>2, <2>3, <2>6, AncestorsLeast DEF Walking, OlderClosed
  <2>8. Passed(v, k) = Passed(w, k - 1) \union {c}
    <3>1. \A i \in 1..Len(v.queue) : i <= k => i \in 1..Len(w.queue) /\ (i <= k - 1 \/ i = k)
      BY <1>1, <1>3, <2>1, <2>3, <2>4
    <3>2. \A i \in 1..Len(w.queue) : i \in 1..Len(v.queue) /\ v.queue[i] = w.queue[i] /\ (i <= k - 1 => i <= k)
      BY <1>1, <2>1, <2>3, <2>4
    <3>3. k \in 1..Len(w.queue) /\ k <= k
      BY <1>1, <1>3
    <3>4. \A x \in Passed(v, k) : x \in Passed(w, k - 1) \union {c}
      BY <3>1, <3>2 DEF Passed
    <3>5. Passed(w, k - 1) \subseteq Passed(v, k)
      BY <3>2 DEF Passed
    <3>6. c \in Passed(v, k)
      BY <3>2, <3>3 DEF Passed
    <3> QED
      BY <3>4, <3>5, <3>6
  <2>9. \A d \in Passed(v, k) : Range(commits[d].parents) \subseteq Range(v.queue)
    BY <2>1, <2>2, <2>3, <2>8 DEF Walking
  <2>10. c \notin Passed(w, k - 1)
    <3>1. \A i \in 1..Len(w.queue) : w.queue[i] = w.queue[k] => i = k
      BY <1>1, <1>3, RangeListed DEF Walking
    <3>2. ~(k <= k - 1)
      OBVIOUS
    <3> QED
      BY <3>1, <3>2 DEF Passed
  <2> HIDE DEF c
  <2>11. /\ Range(Append(w.selected, c)) = Range(w.selected) \union {c}
         /\ IsInjective(w.selected) /\ c \notin Range(w.selected) => IsInjective(Append(w.selected, c))
    BY <1>1, <2>1, RangeAppended
  <2>12. c \notin Range(w.selected)
    BY <2>10 DEF Walking
  <2>13. IsInjective(v.selected) /\ Range(v.selected) \subseteq Passed(v, k)
    BY <2>1, <2>8, <2>11, <2>12 DEF Walking
  <2>14. ~v.skipped => Passed(v, k) \subseteq Range(v.selected)
    BY <2>1, <2>8, <2>11 DEF Walking
  <2> QED
    BY <2>1, <2>5, <2>7, <2>9, <2>13, <2>14 DEF Walking, v
<1> QED
  BY <1>1, <1>2, <1>3

WalkStart(head) == [queue |-> <<head>>, selected |-> <<>>, used |-> 0, skipped |-> FALSE]

LEMMA StartWalks ==
  ASSUME Graph, NEW head \in CommitsMade
  PROVE  Walking(WalkStart(head), 0, head)
<1> DEFINE s == WalkStart(head)
<1>1. s \in Walks /\ s.queue = <<head>> /\ s.selected = <<>> /\ s.skipped = FALSE
  BY DEF WalkStart, Walks
<1> HIDE DEF s
<1>2. <<head>> \in Seq(CommitsMade) /\ Len(<<head>>) = 1 /\ <<head>>[1] = head
  OBVIOUS
<1>3. Range(<<head>>) = {head} /\ IsInjective(<<head>>)
  BY DEF Range, IsInjective
<1>4. Range(<<>>) = {} /\ IsInjective(<<>>)
  BY DEF Range, IsInjective
<1>5. Passed(s, 0) = {}
  BY <1>1, <1>2 DEF Passed
<1> QED
  BY <1>1, <1>3, <1>4, <1>5, AncestorsLeast DEF Walking, s

LEMMA WalkRuns ==
  ASSUME Graph, NEW head \in CommitsMade, NEW maxCommits \in Nat, NEW maxChars \in Nat
  PROVE  \E walk : /\ walk[0] = WalkStart(head)
                   /\ \A k \in 1..maxCommits : walk[k] = Visit(walk[k - 1], k, maxChars)
                   /\ Walk(head, maxCommits, maxChars) = walk[maxCommits]
<1> DEFINE n == maxCommits
           X == Walks
           s == WalkStart(head)
           F == [k \in 1..n |-> [w \in X |-> Visit(w, k, maxChars)]]
           walk[k \in 0..maxCommits] ==
             IF k = 0 THEN [queue |-> <<head>>, selected |-> <<>>, used |-> 0, skipped |-> FALSE]
             ELSE Visit(walk[k - 1], k, maxChars)
<1> HIDE DEF walk
<1>1. IsLoop(F, n, X) /\ s \in X /\ n \in Nat
  <2>1. \A k \in 1..n : k \in Nat /\ k # 0
    OBVIOUS
  <2>2. \A k \in 1..n : \A w \in X : Visit(w, k, maxChars) \in X
    BY <2>1, VisitStays
  <2>3. s \in X
    BY StartWalks DEF Walking
  <2> QED
    BY <2>2, <2>3 DEF IsLoop
<1>2. PICK f : Runs(f, F, n, X, s)
  <2> HIDE DEF n, X, s, F
  <2> QED
    BY <1>1, LoopRuns
<1>3. \A k \in 1..n : F[k][f[k - 1]] = Visit(f[k - 1], k, maxChars)
  <2>1. \A k \in 1..n : f[k - 1] \in X
    BY <1>2 DEF Runs
  <2> HIDE DEF X, n
  <2> QED
    BY <2>1
<1> HIDE DEF F, n, X, s
<1>4. f = [k \in 0..n |-> IF k = 0 THEN s ELSE Visit(f[k - 1], k, maxChars)]
  BY <1>1, <1>2, <1>3 DEF Runs
<1>5. walk = [k \in 0..n |-> IF k = 0 THEN s ELSE Visit(walk[k - 1], k, maxChars)]
  BY <1>4 DEF walk, n, s, WalkStart
<1>6. walk[0] = s /\ \A k \in 1..n : walk[k] = Visit(walk[k - 1], k, maxChars)
  <2>1. \A k \in 0..n : walk[k] = IF k = 0 THEN s ELSE Visit(walk[k - 1], k, maxChars)
    BY <1>5, Zenon
  <2> QED
    BY <1>1, <2>1
<1>7. Walk(head, maxCommits, maxChars) = walk[n]
  BY DEF Walk, walk, n
<1> QED
  BY <1>6, <1>7 DEF n, s

\* a walk selects ancestors, each once, and all of them when it leaves nothing out
LEMMA WalkFaithful ==
  ASSUME Graph, NEW head \in CommitsMade, NEW maxCommits \in Nat, NEW maxChars \in Nat
  PROVE  LET w == Walk(head, maxCommits, maxChars)
         IN  /\ w.selected \in Seq(CommitsMade) /\ IsInjective(w.selected)
             /\ Range(w.selected) \subseteq Ancestors(head)
             /\ ~w.skipped /\ ~(Len(w.queue) > maxCommits) => Range(w.selected) = Ancestors(head)
<1>1. PICK walk : /\ walk[0] = WalkStart(head)
                  /\ \A k \in 1..maxCommits : walk[k] = Visit(walk[k - 1], k, maxChars)
                  /\ Walk(head, maxCommits, maxChars) = walk[maxCommits]
  BY WalkRuns
<1> DEFINE G == {k \in 0..maxCommits : Walking(walk[k], k, head)}
<1>2. 0 \in G
  BY <1>1, StartWalks
<1>3. ASSUME NEW k \in 1..maxCommits, k - 1 \in G PROVE k \in G
  <2>1. Walking(walk[k - 1], k - 1, head) /\ k \in Nat /\ k # 0
    BY <1>3
  <2>2. Walking(Visit(walk[k - 1], k, maxChars), k, head)
    BY <2>1, VisitKeeps
  <2> QED
    BY <1>1, <2>2
<1>4. maxCommits \in G
  <2> HIDE DEF G
  <2>1. \A k \in 1..maxCommits : k - 1 \in G => k \in G
    BY <1>3
  <2>2. \A k \in 0..maxCommits : k \in G
    BY <1>2, <2>1, CountUp, Zenon
  <2> QED
    BY <2>2
<1> DEFINE w == Walk(head, maxCommits, maxChars)
<1>5. Walking(w, maxCommits, head)
  BY <1>1, <1>4
<1> HIDE DEF w
<1>6. w.queue \in Seq(CommitsMade) /\ w.selected \in Seq(CommitsMade)
  BY <1>5 DEF Walking, Walks
<1>7. Passed(w, maxCommits) \subseteq Range(w.queue) /\ Len(w.queue) \in Nat
  BY <1>6, RangeListed DEF Passed
<1>8. ASSUME ~w.skipped, ~(Len(w.queue) > maxCommits) PROVE Range(w.selected) = Ancestors(head)
  <2>1. Passed(w, maxCommits) = Range(w.queue)
    <3>1. \A i \in 1..Len(w.queue) : i <= maxCommits
      BY <1>7, <1>8
    <3> QED
      BY <3>1, <1>6, RangeListed DEF Passed
  <2>2. OlderClosed(Range(w.queue)) /\ head \in Range(w.queue)
    BY <1>5, <2>1 DEF Walking, OlderClosed
  <2>3. Ancestors(head) \subseteq Range(w.queue)
    BY <2>2, AncestorsLeast
  <2> QED
    BY <1>5, <1>8, <2>1, <2>3 DEF Walking
<1> QED
  BY <1>5, <1>6, <1>7, <1>8 DEF Walking, w

(* the sorting: what is placed are those whose selected parents came before *)

First(s, k) == {s[i] : i \in {j \in 1..Len(s) : j <= k}}

Sorting(s, k, selected) ==
  /\ s \in Seq(CommitsMade) /\ IsInjective(s)
  /\ Range(s) = {c \in Range(selected) : Known(selected, c) \subseteq First(s, k)}
  /\ \A j \in 1..Len(s) : \A p \in Known(selected, s[j]) : \E i \in 1..Len(s) : i < j /\ s[i] = p

LEMMA RootsSorted ==
  ASSUME NEW selected \in Seq(CommitsMade), IsInjective(selected)
  PROVE  Sorting(Roots(selected), 0, selected)
<1> DEFINE S == {c \in Range(selected) : Known(selected, c) = {}}
           s == Roots(selected)
<1>1. s \in Seq(CommitsMade) /\ Range(s) = Range(selected) \intersect S /\ IsInjective(s)
  <2> HIDE DEF S
  <2>1. s = Within(selected, S)
    BY DEF Roots, S
  <2> QED
    BY <2>1, WithinKeeps
<1> HIDE DEF s
<1>2. First(s, 0) = {}
  BY DEF First
<1>3. Range(s) = {c \in Range(selected) : Known(selected, c) \subseteq First(s, 0)}
  BY <1>1, <1>2
<1>4. \A j \in 1..Len(s) : s[j] \in Range(s)
  BY <1>1, RangeListed
<1>5. \A j \in 1..Len(s) : Known(selected, s[j]) = {}
  BY <1>1, <1>4
<1> QED
  BY <1>1, <1>3, <1>5 DEF Sorting, s

LEMMA ChildrenStay ==
  ASSUME NEW selected \in Seq(CommitsMade), NEW k \in Nat, k # 0, NEW s \in Seq(CommitsMade)
  PROVE  PlaceChildren(s, k, selected) \in Seq(CommitsMade)
<1> DEFINE S == {c \in Range(selected) : /\ s[k] \in Known(selected, c)
                                         /\ Known(selected, c) \subseteq {s[i] : i \in 1..k}}
<1>1. PlaceChildren(s, k, selected) = IF k > Len(s) THEN s ELSE s \o Within(selected, S)
  BY DEF PlaceChildren
<1> HIDE DEF S
<1>2. Within(selected, S) \in Seq(CommitsMade)
  BY WithinKeeps
<1> QED
  BY <1>1, <1>2

LEMMA ChildrenKeep ==
  ASSUME NEW selected \in Seq(CommitsMade), IsInjective(selected), NEW k \in Nat, k # 0,
         NEW s, Sorting(s, k - 1, selected)
  PROVE  Sorting(PlaceChildren(s, k, selected), k, selected)
<1> DEFINE t == PlaceChildren(s, k, selected)
           S == {c \in Range(selected) : /\ s[k] \in Known(selected, c)
                                         /\ Known(selected, c) \subseteq {s[i] : i \in 1..k}}
           more == Within(selected, S)
<1>1. s \in Seq(CommitsMade) /\ Len(s) \in Nat /\ IsInjective(s)
  BY DEF Sorting
<1>2. CASE k > Len(s)
  <2>1. t = s
    BY <1>2 DEF PlaceChildren
  <2>2. First(s, k) = First(s, k - 1)
    <3>1. {j \in 1..Len(s) : j <= k} = {j \in 1..Len(s) : j <= k - 1}
      BY <1>1, <1>2
    <3> QED
      BY <3>1 DEF First
  <2> QED
    BY <2>1, <2>2 DEF Sorting
<1>3. CASE k <= Len(s)
  <2>1. t = s \o more
    <3>1. ~(k > Len(s))
      BY <1>1, <1>3
    <3> QED
      BY <3>1 DEF PlaceChildren
  <2>2. more \in Seq(CommitsMade) /\ Range(more) = S /\ IsInjective(more)
    <3>1. S \subseteq Range(selected)
      OBVIOUS
    <3> HIDE DEF S, more
    <3>2. /\ more \in Seq(CommitsMade) /\ Range(more) = Range(selected) \intersect S
          /\ IsInjective(selected) => IsInjective(more)
      BY WithinKeeps DEF more
    <3> QED
      BY <3>1, <3>2
  <2>3. {s[i] : i \in 1..k} = First(s, k) /\ k \in 1..Len(s)
    <3>1. {j \in 1..Len(s) : j <= k} = 1..k /\ k \in 1..Len(s)
      BY <1>1, <1>3
    <3> QED
      BY <3>1 DEF First
  <2>4. First(s, k) = First(s, k - 1) \union {s[k]} /\ s[k] \notin First(s, k - 1)
    <3>1. {j \in 1..Len(s) : j <= k} = {j \in 1..Len(s) : j <= k - 1} \union {k}
      BY <1>1, <2>3
    <3>2. \A j \in 1..Len(s) : s[j] = s[k] => j = k
      BY <1>1, <2>3, RangeListed
    <3>3. ~(k <= k - 1)
      OBVIOUS
    <3> QED
      BY <3>1, <3>2, <3>3 DEF First
  <2>5. Range(more) = {c \in Range(selected) : s[k] \in Known(selected, c)
                                               /\ Known(selected, c) \subseteq First(s, k)}
    BY <2>2, <2>3
  <2> HIDE DEF t, more, S
  <2>6. Range(s) = {c \in Range(selected) : Known(selected, c) \subseteq First(s, k - 1)}
    BY DEF Sorting
  <2>7. Range(s) \intersect Range(more) = {}
    BY <2>4, <2>5, <2>6
  <2>8. /\ t \in Seq(CommitsMade) /\ Range(t) = Range(s) \union Range(more) /\ IsInjective(t)
        /\ Len(t) = Len(s) + Len(more) /\ \A i \in 1..Len(s) : t[i] = s[i]
        /\ \A i \in 1..Len(t) : i > Len(s) => t[i] \in Range(more)
    BY <1>1, <2>1, <2>2, <2>7, RangeJoined
  <2>9. Len(more) \in Nat
    BY <2>2
  <2>10. First(t, k) = First(s, k)
    <3>1. {j \in 1..Len(t) : j <= k} = {j \in 1..Len(s) : j <= k}
      BY <1>1, <1>3, <2>8, <2>9
    <3> QED
      BY <3>1, <2>8 DEF First
  <2>11. Range(t) = {c \in Range(selected) : Known(selected, c) \subseteq First(t, k)}
    BY <2>4, <2>5, <2>6, <2>8, <2>10
  <2>12. ASSUME NEW j \in 1..Len(t), NEW p \in Known(selected, t[j])
         PROVE  \E i \in 1..Len(t) : i < j /\ t[i] = p
    <3>1. CASE j <= Len(s)
      <4>1. j \in 1..Len(s) /\ t[j] = s[j]
        BY <1>1, <2>8, <3>1
      <4>2. PICK i \in 1..Len(s) : i < j /\ s[i] = p
        BY <2>12, <4>1 DEF Sorting
      <4> QED
        BY <1>1, <2>8, <2>9, <4>2
    <3>2. CASE j > Len(s)
      <4>1. p \in First(s, k)
        BY <2>5, <2>8, <2>12, <3>2
      <4>2. PICK i \in 1..Len(s) : s[i] = p
        BY <4>1 DEF First
      <4> QED
        BY <1>1, <2>8, <2>9, <3>2, <4>2
    <3> QED
      BY <1>1, <2>8, <2>9, <3>1, <3>2
  <2> QED
    BY <2>8, <2>11, <2>12 DEF Sorting, t
<1> QED
  BY <1>1, <1>2, <1>3

LEMMA SortedRuns ==
  ASSUME NEW selected \in Seq(CommitsMade), IsInjective(selected)
  PROVE  \E sorted : /\ sorted[0] = Roots(selected)
                     /\ \A k \in 1..Len(selected) : sorted[k] = PlaceChildren(sorted[k - 1], k, selected)
                     /\ Sorted(selected) = sorted[Len(selected)]
<1> DEFINE n == Len(selected)
           X == Seq(CommitsMade)
           s == Roots(selected)
           F == [k \in 1..n |-> [q \in X |-> PlaceChildren(q, k, selected)]]
           sorted[k \in 0..Len(selected)] ==
             IF k = 0 THEN Roots(selected) ELSE PlaceChildren(sorted[k - 1], k, selected)
<1> HIDE DEF sorted
<1>1. IsLoop(F, n, X) /\ s \in X /\ n \in Nat
  <2>1. \A k \in 1..n : k \in Nat /\ k # 0
    OBVIOUS
  <2>2. \A k \in 1..n : \A q \in X : PlaceChildren(q, k, selected) \in X
    BY <2>1, ChildrenStay
  <2>3. s \in X /\ n \in Nat
    BY RootsSorted DEF Sorting
  <2> HIDE DEF X, s, n
  <2> QED
    BY <2>2, <2>3 DEF IsLoop
<1>2. PICK f : Runs(f, F, n, X, s)
  <2> HIDE DEF n, X, s, F
  <2> QED
    BY <1>1, LoopRuns
<1>3. \A k \in 1..n : F[k][f[k - 1]] = PlaceChildren(f[k - 1], k, selected)
  <2>1. \A k \in 1..n : f[k - 1] \in X
    BY <1>2 DEF Runs
  <2> HIDE DEF X, n
  <2> QED
    BY <2>1
<1> HIDE DEF F, n, X, s
<1>4. f = [k \in 0..n |-> IF k = 0 THEN s ELSE PlaceChildren(f[k - 1], k, selected)]
  BY <1>1, <1>2, <1>3 DEF Runs
<1>5. sorted = [k \in 0..n |-> IF k = 0 THEN s ELSE PlaceChildren(sorted[k - 1], k, selected)]
  BY <1>4 DEF sorted, n, s
<1>6. sorted[0] = s /\ \A k \in 1..n : sorted[k] = PlaceChildren(sorted[k - 1], k, selected)
  <2>1. \A k \in 0..n : sorted[k] = IF k = 0 THEN s ELSE PlaceChildren(sorted[k - 1], k, selected)
    BY <1>5, Zenon
  <2> QED
    BY <1>1, <2>1
<1>7. Sorted(selected) = sorted[n]
  BY DEF Sorted, sorted, n
<1> QED
  BY <1>6, <1>7 DEF n, s

\* a sequence without repetition has as many members as its length
LEMMA InjectiveLength ==
  ASSUME NEW T, NEW s \in Seq(T), IsInjective(s)
  PROVE  IsFiniteSet(Range(s)) /\ Cardinality(Range(s)) = Len(s)
<1>1. Len(s) \in Nat /\ Range(s) = {s[i] : i \in 1..Len(s)} /\ DOMAIN s = 1..Len(s)
  BY RangeListed
<1>2. \A i \in 1..Len(s) : \A j \in 1..Len(s) : s[i] = s[j] => i = j
  BY RangeListed
<1> DEFINE f == [i \in 1..Len(s) |-> s[i]]
<1>3. f \in Bijection(1..Len(s), Range(s))
  <2>1. f \in [1..Len(s) -> Range(s)]
    BY <1>1
  <2>2. \A i \in 1..Len(s) : \A j \in 1..Len(s) : f[i] = f[j] => i = j
    BY <1>2
  <2>3. \A x \in Range(s) : \E i \in 1..Len(s) : f[i] = x
    BY <1>1
  <2> HIDE DEF f
  <2> QED
    BY <2>1, <2>2, <2>3 DEF Bijection, Injection, Surjection, IsInjective
<1> HIDE DEF f
<1>4. ExistsBijection(1..Len(s), Range(s))
  BY <1>3 DEF ExistsBijection
<1>5. Cardinality(Range(s)) = Len(s)
  BY <1>1, <1>4, FS_CountingElements
<1>6. IsFiniteSet(1..Len(s))
  <2> DEFINE n == Len(s)
  <2>1. n \in Int /\ 1 \in Int
    BY <1>1
  <2> HIDE DEF n
  <2>2. IsFiniteSet(1..n)
    BY <2>1, FS_Interval
  <2> QED
    BY <2>2 DEF n
<1> QED
  BY <1>4, <1>5, <1>6, FS_Bijection

\* the sorting places every selected commit, once, after its selected parents
LEMMA SortedFaithful ==
  ASSUME Graph, NEW selected \in Seq(CommitsMade), IsInjective(selected)
  PROVE  LET listed == Sorted(selected)
         IN  /\ listed \in Seq(CommitsMade) /\ IsInjective(listed)
             /\ Range(listed) = Range(selected) /\ Len(listed) = Len(selected)
             /\ \A i, j \in DOMAIN listed : listed[i] \in Range(commits[listed[j]].parents) => i < j
<1>1. PICK sorted : /\ sorted[0] = Roots(selected)
                    /\ \A k \in 1..Len(selected) : sorted[k] = PlaceChildren(sorted[k - 1], k, selected)
                    /\ Sorted(selected) = sorted[Len(selected)]
  BY SortedRuns
<1> DEFINE G == {k \in 0..Len(selected) : Sorting(sorted[k], k, selected)}
<1>2. 0 \in G /\ Len(selected) \in Nat
  BY <1>1, RootsSorted
<1>3. ASSUME NEW k \in 1..Len(selected), k - 1 \in G PROVE k \in G
  <2>1. Sorting(sorted[k - 1], k - 1, selected) /\ k \in Nat /\ k # 0
    BY <1>3
  <2>2. Sorting(PlaceChildren(sorted[k - 1], k, selected), k, selected)
    BY <2>1, ChildrenKeep
  <2>3. sorted[k] = PlaceChildren(sorted[k - 1], k, selected) /\ k \in 0..Len(selected)
    BY <1>1
  <2> QED
    BY <2>2, <2>3
<1>4. Len(selected) \in G
  <2> HIDE DEF G
  <2>1. \A k \in 1..Len(selected) : k - 1 \in G => k \in G
    BY <1>3
  <2>2. \A k \in 0..Len(selected) : k \in G
    BY <1>2, <2>1, CountUp, Zenon
  <2> QED
    BY <1>2, <2>2
<1> DEFINE s == Sorted(selected)
<1>5. Sorting(s, Len(selected), selected)
  BY <1>1, <1>4
<1> HIDE DEF s
<1>6. s \in Seq(CommitsMade) /\ IsInjective(s) /\ Range(s) \subseteq Range(selected)
  BY <1>5 DEF Sorting
<1>7. IsFiniteSet(Range(selected)) /\ Cardinality(Range(selected)) = Len(selected)
  BY InjectiveLength
<1>8. IsFiniteSet(Range(s)) /\ Cardinality(Range(s)) = Len(s)
  BY <1>6, InjectiveLength
<1>9. Len(s) <= Len(selected)
  BY <1>6, <1>7, <1>8, FS_Subset
<1>10. First(s, Len(selected)) = Range(s)
  <2>1. {j \in 1..Len(s) : j <= Len(selected)} = 1..Len(s)
    BY <1>2, <1>6, <1>9
  <2> QED
    BY <1>6, <2>1, RangeListed DEF First
<1>11. Range(selected) \subseteq Range(s)
  <2> DEFINE Left == Range(selected) \ Range(s)
  <2> SUFFICES ASSUME Left # {} PROVE FALSE
    OBVIOUS
  <2>1. Range(selected) \subseteq CommitsMade /\ CommitsMade \subseteq Nat
    BY RangeListed DEF Graph, CommitsMade
  <2>2. PICK c \in Left : \A d \in Left : c <= d
    <3>1. Left \subseteq Nat
      BY <2>1
    <3> HIDE DEF Left
    <3> QED
      BY <3>1, LeastNumber
  <2>3. c \in CommitsMade /\ c \in Nat
    BY <2>1
  <2>4. \A p \in Known(selected, c) : p \in Range(selected) /\ p < c /\ p \in Nat
    BY <2>1, <2>3, ParentsOlder DEF Known
  <2>5. Known(selected, c) \subseteq Range(s)
    BY <2>2, <2>3, <2>4
  <2> QED
    BY <1>5, <1>10, <2>5 DEF Sorting
<1>12. Range(s) = Range(selected) /\ Len(s) = Len(selected)
  <2>1. Range(s) = Range(selected)
    BY <1>6, <1>11
  <2> QED
    BY <1>7, <1>8, <2>1
<1>13. ASSUME NEW i \in DOMAIN s, NEW j \in DOMAIN s, s[i] \in Range(commits[s[j]].parents) PROVE i < j
  <2>1. i \in 1..Len(s) /\ j \in 1..Len(s)
    BY <1>6
  <2>2. s[i] \in Known(selected, s[j])
    BY <1>6, <1>12, <1>13, <2>1, RangeListed DEF Known
  <2>3. PICK h \in 1..Len(s) : h < j /\ s[h] = s[i]
    BY <1>5, <2>1, <2>2 DEF Sorting
  <2>4. h = i
    BY <1>6, <2>1, <2>3, RangeListed
  <2> QED
    BY <2>3, <2>4
<1> QED
  BY <1>6, <1>12, <1>13 DEF s

\* heads, and what a merge names, are commits
HeadsExist ==
  /\ \A n \in RefNames : refs[n] = NoRef \/ refs[n].head \in CommitsMade
  /\ \A a \in Authors : drafts[a].others \subseteq CommitsMade

PathsInv == CommitsInv /\ Acyclic /\ HeadsExist

LEMMA ListedOnce ==
  ASSUME NEW S, IsFiniteSet(S)
  PROVE  IsInjective(SetToSeq(S))
<1>1. \E f \in [1..Cardinality(S) -> S] : IsInjective(f)
  <2>1. PICK f \in Bijection(1..Cardinality(S), S) : TRUE
    BY FS_CardinalityType DEF ExistsBijection
  <2> QED
    BY <2>1 DEF Bijection, Injection, IsInjective
<1> QED
  BY <1>1 DEF SetToSeq

LEMMA ParentsExist ==
  ASSUME PathsInv, NEW d \in DraftRows, d.name \in RefNames, IsFiniteSet(d.others),
         d.others \subseteq CommitsMade
  PROVE  Range(ParentsOf(d)) \subseteq CommitsMade /\ IsInjective(ParentsOf(d))
<1> DEFINE head == refs[d.name].head
           others == d.others \ {head}
           rest == SetToSeq(others)
<1>1. others \in SUBSET d.others /\ IsFiniteSet(others) /\ others \subseteq CommitsMade
  BY FS_Subset
<1>2. head = 0 \/ head \in CommitsMade
  BY DEF PathsInv, HeadsExist, NoRef
<1>3. ParentsOf(d) = IF head = 0 THEN rest ELSE <<head>> \o rest
  BY DEF ParentsOf
<1>4. head \notin others
  OBVIOUS
<1> HIDE DEF head, others
<1>5. rest \in Seq(others) /\ IsInjective(rest)
  BY <1>1, ListedIsSequence, ListedOnce
<1>6. Range(rest) \subseteq others /\ rest \in Seq(CommitsMade)
  <2>1. Range(rest) \subseteq others
    BY <1>5, RangeListed
  <2> HIDE DEF rest
  <2> QED
    BY <1>1, <1>5, <2>1
<1> HIDE DEF rest
<1>7. CASE head = 0
  BY <1>1, <1>3, <1>5, <1>6, <1>7
<1>8. CASE head # 0
  <2>1. <<head>> \in Seq(CommitsMade) /\ Range(<<head>>) = {head} /\ IsInjective(<<head>>)
    BY <1>2, <1>8 DEF Range, IsInjective
  <2>2. Range(<<head>>) \intersect Range(rest) = {}
    BY <1>4, <1>6, <2>1
  <2> DEFINE one == <<head>>
  <2> HIDE DEF one
  <2>3. /\ Range(one \o rest) = Range(one) \union Range(rest)
        /\ IsInjective(one) /\ IsInjective(rest) /\ Range(one) \intersect Range(rest) = {}
             => IsInjective(one \o rest)
    <3>1. one \in Seq(CommitsMade)
      BY <2>1 DEF one
    <3> QED
      BY <1>6, <3>1, RangeJoined
  <2> QED
    BY <1>1, <1>2, <1>3, <1>5, <1>6, <1>8, <2>1, <2>2, <2>3 DEF one
<1> QED
  BY <1>7, <1>8

\* a new commit is the youngest, and its parents are older
LEMMA CommitYoungest ==
  ASSUME PathsInv, NEW a \in Authors, Commit(a)
  PROVE  (Acyclic /\ HeadsExist)'
<1> DEFINE d == drafts[a]
           parents == ParentsOf(d)
           new == NewCommit(parents, a, d.number, d.seen.head)
           last == Len(commits) + 1
<1>1. CommitsInv /\ GraphRows /\ Acyclic /\ HeadsExist
  BY DEF PathsInv, CommitsInv
<1>2. /\ d.at = "ready" /\ ~CommitRefused(a)
      /\ commits' = Append(commits, new)
      /\ refs' = [refs EXCEPT ![d.name] = [head |-> last, version |-> refs[d.name].version + 1]]
      /\ drafts' = [drafts EXCEPT ![a].at = "answered", ![a].answer = "stored"]
  BY DEF Commit, AnswerDraft
<1>3. /\ d \in DraftRows /\ IsFiniteSet(d.others) /\ d.name \in RefNames
      /\ d.others \subseteq CommitsMade
  BY <1>1, <1>2, DraftFacts DEF HeadsExist
<1>4. Range(parents) \subseteq CommitsMade /\ IsInjective(parents)
  BY <1>3, ParentsExist
<1>5. Len(commits) \in Nat /\ commits \in Seq(CommitRows) /\ CommitsMade = 1..Len(commits)
  BY <1>1 DEF GraphRows, CommitsMade
<1>6. Len(commits) < CommitQuota
  <2>1. ~(Len(commits) >= CommitQuota)
    BY <1>2 DEF CommitRefused
  <2> QED
    BY <2>1, <1>5, ContextGraphAssumption
<1>7. new.parents = parents
  BY DEF NewCommit
<1> HIDE DEF new, parents
<1>8. /\ Len(commits') = last /\ CommitsMade' = CommitsMade \union {last}
      /\ \A c \in CommitsMade : commits'[c] = commits[c] /\ commits'[last] = new
      /\ commits'[last] = new
  BY <1>2, <1>5 DEF CommitsMade
<1>9. Acyclic'
  <2>1. Len(commits') <= CommitQuota
    BY <1>5, <1>6, <1>8, ContextGraphAssumption
  <2>2. ASSUME NEW c \in CommitsMade
        PROVE  Range(commits'[c].parents) \subseteq 1..(c - 1) /\ IsInjective(commits'[c].parents)
    BY <1>1, <1>8 DEF Acyclic
  <2>3. Range(commits'[last].parents) \subseteq 1..(last - 1) /\ IsInjective(commits'[last].parents)
    <3>1. last - 1 = Len(commits)
      BY <1>5
    <3> QED
      BY <3>1, <1>4, <1>5, <1>7, <1>8
  <2> QED
    BY <1>8, <2>1, <2>2, <2>3 DEF Acyclic
<1>10. HeadsExist'
  <2>1. \A n \in RefNames : refs'[n] = NoRef \/ refs'[n].head \in CommitsMade'
    BY <1>1, <1>2, <1>3, <1>8 DEF GraphRows, HeadsExist
  <2>2. \A b \in Authors : drafts'[b].others = drafts[b].others
    BY <1>1, <1>2 DEF GraphRows
  <2> QED
    BY <1>1, <1>8, <2>1, <2>2 DEF HeadsExist
<1> QED
  BY <1>9, <1>10

LEMMA PathsStep == PathsInv /\ [ContextNext]_contextVars => PathsInv'
<1> SUFFICES ASSUME PathsInv, [ContextNext]_contextVars PROVE PathsInv'
  OBVIOUS
<1>1. CommitsInv /\ GraphRows /\ Acyclic /\ HeadsExist
  BY DEF PathsInv, CommitsInv
<1>2. CommitsInv'
  BY <1>1, GraphStep
<1>3. commits' = commits => Acyclic' /\ CommitsMade' = CommitsMade
  BY <1>1 DEF Acyclic, CommitsMade
\* what an author does but commit
<1>4. ASSUME NEW a \in Authors, NEW moved, moved.others \subseteq CommitsMade,
             drafts' = [drafts EXCEPT ![a] = moved], UNCHANGED <<commits, refs>>
      PROVE  PathsInv'
  <2>1. \A b \in Authors : drafts'[b].others \subseteq CommitsMade
    BY <1>1, <1>4 DEF GraphRows, HeadsExist
  <2>2. HeadsExist'
    BY <1>1, <1>3, <1>4, <2>1 DEF HeadsExist
  <2> QED
    BY <1>2, <1>3, <1>4, <2>2 DEF PathsInv
<1>5. CASE UNCHANGED contextVars
  BY <1>1, <1>2, <1>3, <1>5 DEF contextVars, PathsInv, HeadsExist
<1>6. ASSUME NEW a \in Authors, NEW n \in RefNames, NEW others, others \subseteq CommitsMade,
             Prepare(a, n, others)
      PROVE  PathsInv'
  <2> DEFINE moved == [at |-> "ready", number |-> drafts[a].number + 1, name |-> n,
                     seen |-> refs[n], others |-> others, answer |-> "none"]
  <2>1. drafts' = [drafts EXCEPT ![a] = moved] /\ UNCHANGED <<commits, refs>> /\ moved.others = others
    BY <1>6 DEF Prepare
  <2> HIDE DEF moved
  <2> QED
    BY <1>4, <1>6, <2>1
<1>7. ASSUME NEW a \in Authors, NEW n \in RefNames, NEW m \in RefNames \ {n},
             refs[m] # NoRef, Prepare(a, n, {refs[m].head})
      PROVE  PathsInv'
  <2>1. {refs[m].head} \subseteq CommitsMade
    BY <1>1, <1>7 DEF HeadsExist
  <2> QED
    BY <1>6, <1>7, <2>1
\* an answer, and its fate
<1>8. ASSUME NEW a \in Authors, NEW at, NEW text,
             drafts' = [drafts EXCEPT ![a].at = at, ![a].answer = text], UNCHANGED <<commits, refs>>
      PROVE  PathsInv'
  <2> DEFINE moved == [drafts[a] EXCEPT !.at = at, !.answer = text]
  <2>1. drafts' = [drafts EXCEPT ![a] = moved]
    BY <1>1, <1>8 DEF GraphRows
  <2>2. moved.others = drafts[a].others
    BY <1>1 DEF GraphRows, DraftRows
  <2>3. moved.others \subseteq CommitsMade
    BY <1>1, <2>2 DEF HeadsExist
  <2> HIDE DEF moved
  <2> QED
    BY <1>4, <1>8, <2>1, <2>3
<1>9. ASSUME NEW a \in Authors, CommitAgain(a) \/ RefuseCommit(a) PROVE PathsInv'
  <2>1. CASE CommitAgain(a)
    BY <1>8, <2>1 DEF CommitAgain, AnswerDraft
  <2>2. CASE RefuseCommit(a)
    BY <1>8, <2>2 DEF RefuseCommit, AnswerDraft
  <2> QED
    BY <1>9, <2>1, <2>2
<1>10. ASSUME NEW a \in Authors, Commit(a) PROVE PathsInv'
  BY <1>2, <1>10, CommitYoungest DEF PathsInv
<1>11. ASSUME NEW a \in Authors, Receive(a) PROVE PathsInv'
  <2> DEFINE moved == [NoDraft EXCEPT !.number = drafts[a].number, !.answer = drafts[a].answer]
  <2>1. drafts' = [drafts EXCEPT ![a] = moved] /\ UNCHANGED <<commits, refs>>
    BY <1>11 DEF Receive
  <2>2. moved.others = {}
    BY DEF NoDraft
  <2> HIDE DEF moved
  <2> QED
    BY <1>4, <2>1, <2>2
<1>12. ASSUME NEW a \in Authors, LoseAnswer(a) PROVE PathsInv'
  <2>1. drafts' = [drafts EXCEPT ![a].at = "ready", ![a].answer = drafts[a].answer]
    BY <1>1, <1>12 DEF LoseAnswer, GraphRows, DraftRows
  <2> QED
    BY <1>8, <1>12, <2>1 DEF LoseAnswer
<1>13. ASSUME NEW n \in RefNames, NEW c \in CommitsMade, Fork(n, c) PROVE PathsInv'
  <2>1. UNCHANGED <<commits, drafts>> /\ refs' = [refs EXCEPT ![n] = [head |-> c, version |-> 1]]
    BY <1>13 DEF Fork
  <2>2. \A m \in RefNames : refs'[m] = NoRef \/ refs'[m].head \in CommitsMade
    BY <1>1, <2>1 DEF GraphRows, HeadsExist
  <2>3. HeadsExist'
    BY <1>1, <1>3, <2>1, <2>2 DEF HeadsExist
  <2> QED
    BY <1>2, <1>3, <2>1, <2>3 DEF PathsInv
<1>14. ASSUME NEW a \in Authors, NEW n \in RefNames, Prepare(a, n, {}) PROVE PathsInv'
  BY <1>6, <1>14
<1> QED
  BY <1>5, <1>7, <1>9, <1>10, <1>11, <1>12, <1>13, <1>14 DEF ContextNext

LEMMA PathsBegin == ContextInit => PathsInv
<1> SUFFICES ASSUME ContextInit PROVE PathsInv
  OBVIOUS
<1>1. CommitsInv /\ GraphRows
  BY OnlyRoot DEF CommitsInv
<1> DEFINE root == NewCommit(<<>>, "host", 0, 0)
<1>2. PICK n \in RefNames : commits = <<root>> /\ refs = [NoRefs EXCEPT ![n] = [head |-> 1, version |-> 1]]
  BY DEF ContextInit
<1>3. root.parents = <<>>
  BY DEF NewCommit
<1> HIDE DEF root
<1>4. Len(commits) = 1 /\ CommitsMade = {1} /\ commits[1] = root
  BY <1>2 DEF CommitsMade
<1>5. Range(<<>>) = {} /\ IsInjective(<<>>)
  BY DEF Range, IsInjective
<1>6. Acyclic
  <2>1. 1 <= CommitQuota
    BY ContextGraphAssumption
  <2> QED
    BY <2>1, <1>3, <1>4, <1>5 DEF Acyclic
<1>7. HeadsExist
  <2>1. \A m \in RefNames : refs[m] = NoRef \/ refs[m].head = 1
    BY <1>2 DEF NoRefs
  <2>2. \A a \in Authors : drafts[a].others = {}
    BY DEF ContextInit, NoDraft
  <2> QED
    BY <2>1, <2>2, <1>4 DEF HeadsExist
<1> QED
  BY <1>1, <1>6, <1>7 DEF PathsInv

LEMMA PathsTrue == PathsInv => PathsFaithful
<1> SUFFICES ASSUME PathsInv, NEW n \in RefNames, refs[n] # NoRef,
                    NEW maxCommits \in 1..Len(commits), NEW maxChars \in 1..(Len(commits) + 1)
             PROVE  LET all == Ancestors(refs[n].head)
                        path == ContextPath(refs[n].head, maxCommits, maxChars)
                        listed == path.commits
                    IN  /\ Len(listed) = Len(path.selected)
                        /\ Range(listed) \subseteq all
                        /\ IsInjective(listed)
                        /\ \A i, j \in DOMAIN listed : listed[i] \in Range(commits[listed[j]].parents) => i < j
                        /\ ~path.truncated => Range(listed) = all
  BY DEF PathsFaithful
<1> DEFINE head == refs[n].head
           w == Walk(head, maxCommits, maxChars)
           s == Sorted(w.selected)
<1>1. Graph /\ head \in CommitsMade
  BY DEF PathsInv, CommitsInv, GraphRows, Graph, HeadsExist
<1>2. maxCommits \in Nat /\ maxChars \in Nat
  BY <1>1 DEF Graph
<1> HIDE DEF head
<1>3. /\ w.selected \in Seq(CommitsMade) /\ IsInjective(w.selected)
      /\ Range(w.selected) \subseteq Ancestors(head)
      /\ ~w.skipped /\ ~(Len(w.queue) > maxCommits) => Range(w.selected) = Ancestors(head)
  BY <1>1, <1>2, WalkFaithful
<1> HIDE DEF w
<1>4. /\ IsInjective(s) /\ Range(s) = Range(w.selected) /\ Len(s) = Len(w.selected)
      /\ \A i, j \in DOMAIN s : s[i] \in Range(commits[s[j]].parents) => i < j
  BY <1>1, <1>3, SortedFaithful
<1>5. LET path == ContextPath(head, maxCommits, maxChars)
      IN  /\ path.commits = s /\ path.selected = w.selected
          /\ path.truncated = (w.skipped \/ Len(w.queue) > maxCommits)
  BY DEF ContextPath, w
<1> HIDE DEF s
<1> QED
  BY <1>3, <1>4, <1>5 DEF head

\* What the graph answers is what it stores: of the commits of an author, as
\* above, and of a context path, which for every graph, head and budget lists
\* ancestors of the head, each once and after its parents, and leaves none out
\* without saying so (context-graph-store.ts 66-107, resolver.ts 11-79).
THEOREM GraphAnswersHolds == ContextSpec => []GraphAnswers
<1>1. PathsInv => GraphAnswers
  BY PathsTrue DEF PathsInv, CommitsInv, GraphAnswers, CommitsAnswered, Continued, RefusedUnstored, Repeated
<1> QED
  BY <1>1, PathsBegin, PathsStep, PTL DEF ContextSpec
=============================================================================
