------------------------ MODULE ExecutionInvariant ------------------------
(***************************************************************************)
(* The inductive invariant of Execution.  The safety properties of the     *)
(* queue are not inductive: that a message is handed out once rests on     *)
(* what the delivery operation says at every point of the handler, and     *)
(* that an unknown outcome is never reported as done rests on the handler  *)
(* remembering in its live outcome what the tables hold.                   *)
(***************************************************************************)
EXTENDS Execution

InTool   == {"opened", "tool", "acting", "closed"}
AtHome   == {"permit", "handing", "sending"}        \* through a channel
AtNative == {"native", "opening", "stamping"}       \* into a native session

\* An external call whose outcome nobody knows.
OpenCall(i, n) ==
  \/ calls[i][n].state = "uncertain"
  \/ calls[i][n].state = "started" /\ calls[i][n].name \in External

OpenSend(i) ==
  \/ send[i] = "uncertain"
  \/ send[i] = "started" /\ ~intents[i].native

\* What a live outcome has to hold, lest the run be reported as settled.
Knows(mem, i, n) ==
  OpenCall(i, n) => mem.failure = "uncertain" \/ n \in mem.pending
KnowsSend(mem, i) ==
  OpenSend(i) => mem.failure = "uncertain" \/ mem.responding

\* The event loop belongs to the handler inside a synchronous stretch, only a
\* claimed intent has a handler in the middle of its work, and nothing runs
\* before the recovery has finished.
Owned(i) ==
  /\ proc[i].pc \in SyncPoints => turn = i
  /\ proc[i].pc \notin {"idle", "ended"} => intents[i].state = "claimed"
  /\ boot # "up" => proc[i].pc = "idle"

\* Nothing happened for a request before it was accepted, and its records are
\* gone after it was collected.
Untouched(i) ==
  /\ intents[i].state \in {"absent", "collected"} => NoOperation(i)
  /\ intents[i].state = "absent" =>
       world[i] = NewWorld /\ ~intents[i].native /\ proc[i].pc = "idle"

\* What the delivery operation says of the message.
Handed(i) ==
  /\ world[i].sent <= 1
  /\ intents[i].native /\ world[i].sent = 1 => world[i].arrived
  /\ ~intents[i].native /\ send[i] = "none" /\ intents[i].state # "collected" =>
       world[i].sent = 0
  /\ proc[i].pc \in AtHome => ~intents[i].native
  /\ proc[i].pc \in AtNative => intents[i].native
  /\ proc[i].pc = "permit" => send[i] = "none"
  /\ proc[i].pc \in {"handing", "sending"} => send[i] = "started"
  /\ proc[i].pc = "handing" => world[i].sent = 0
  /\ proc[i].pc = "acked" => send[i] \in {"succeeded", "failed", "uncertain"}

\* What the operation of a tool call says of the tool.
Called(i) ==
  /\ \A n \in CallNumbers :
       /\ world[i].acted[n] <= 1
       /\ world[i].acted[n] # 0 /\ intents[i].state # "collected" =>
            calls[i][n].state # "none" /\ calls[i][n].name \in External
  /\ proc[i].pc \in InTool => proc[i].seq \in CallNumbers
  /\ proc[i].pc \in {"opened", "tool", "acting"} =>
       calls[i][proc[i].seq].state = "started"
  /\ proc[i].pc \in {"opened", "tool"} => world[i].acted[proc[i].seq] = 0
  /\ proc[i].pc = "acting" => calls[i][proc[i].seq].name \in External
  /\ proc[i].pc = "closed" =>
       calls[i][proc[i].seq].state \in {"succeeded", "failed", "blocked", "uncertain"}

\* A handler knows every unknown outcome of its run: work that is queued or
\* reported as done has none.
Remembered(i) ==
  /\ intents[i].state \in {"queued", "done"} => ~Unknown(i)
  /\ proc[i].pc = "claimed" => ~Unknown(i)
  /\ proc[i].pc \notin {"idle", "ended"} =>
       /\ \A n \in CallNumbers :
            Knows(proc[i].mem, i, n) \/ (proc[i].pc = "opened" /\ n = proc[i].seq)
       /\ KnowsSend(proc[i].mem, i) \/ proc[i].pc = "handing"
  /\ proc[i].pc = "ended" /\ Unknown(i) => runs[i].status = "uncertain"

Sound(i) == Owned(i) /\ Untouched(i) /\ Handed(i) /\ Called(i) /\ Remembered(i)

\* The inductive invariant: what the tables, the memory of a handler and the world
\* say about each request fits together.
Inv == TypeOK /\ \A i \in Intents : Sound(i)

----------------------------------------------------------------------------
(* What the records of a request say about its past.  Verdicts, results,   *)
(* permissions and budgets rest on it; each part needs Inv and the parts   *)
(* before it.                                                              *)

Waiting == {"idle", "claimed", "ended"}   \* points outside of an attempt
Asking  == {"model", "thinking", "calling", "opened", "tool", "acting"}
Looping == Asking \cup {"closed", "defer"}

\* A run is "running" exactly while a handler works on it, or until the recovery
\* has judged it.
Judged(i) ==
  /\ proc[i].pc \notin Waiting => runs[i].status = "running"
  /\ runs[i].status = "running" =>
       proc[i].pc \notin Waiting \/ boot \in {"down", "reconciled"}

\* Nothing is recorded before a request is accepted.  While the agent is asked
\* there is no result, and a result that is about to be saved is the one that is
\* stored, if there is one.
Kept(i) ==
  /\ intents[i].state = "absent" =>
       intents[i] = NewIntent /\ runs[i] = NewRun /\ result[i] = "none" /\ usage[i].models = 0
  /\ proc[i].pc \in Asking => result[i] = "none"
  /\ proc[i].pc = "save" => result[i] \in {"none", proc[i].out}

\* Where a message is about to leave through a channel, its authorization has
\* just been seen.
Permitted(i) == proc[i].pc = "handing" => Valid(i)

\* What the delivery operation says of the arrival of the message.
Receipted(i) ==
  /\ send[i] = "failed" => ~world[i].arrived
  /\ send[i] = "succeeded" => world[i].arrived
  /\ proc[i].pc \in {"native", "opening"} => send[i] \in {"none", "started"}
  /\ proc[i].pc \in {"opening", "stamping"} => world[i].arrived

\* An outcome that speaks of a delivery, or of silence, says the truth.
Truthful(o, i) ==
  /\ o.delivered => world[i].arrived
  /\ o.quiet => result[i] # "notify"
Blank(o) == ~o.delivered /\ ~o.quiet

Reported(i) ==
  /\ runs[i].status = "accepted" =>
       Blank(runs[i].log) /\ send[i] = "none" /\ result[i] = "none"
  /\ proc[i].pc \notin Waiting \cup {"ending"} => Blank(runs[i].log)
  /\ proc[i].pc \notin {"idle", "ended", "ending"} => Blank(proc[i].mem)
  /\ runs[i].status = "running" => Truthful(runs[i].log, i)
  /\ proc[i].pc = "ending" => Truthful(proc[i].mem, i)
  /\ runs[i].status = "succeeded" /\ result[i] = "notify" => world[i].arrived

\* A run that is marked as refused ends as one, and its message never arrived.
Rejected(i) ==
  runs[i].refused =>
    /\ ~world[i].arrived
    /\ \/ runs[i].status \in Terminal
       \/ /\ Unfinished(i) /\ runs[i].log.failure # "none"
          /\ \/ boot \in {"down", "reconciled"}
             \/ proc[i].pc = "ending" /\ proc[i].mem.failure # "none"

\* Issued once and dead for ever.
Dead(g) == grants[g].status # "unissued" /\ ~Live(g)

\* Records are collected under dead grants only, a claim was made under a live one.
Granted(i) ==
  /\ intents[i].state # "absent" => grants[intents[i].grant].status # "unissued"
  /\ intents[i].state = "collected" => Dead(intents[i].grant)
  /\ proc[i].pc = "claimed" => Live(intents[i].grant)

\* The retry of a delivery finds the result it is about as long as it can run.
Retried(i) ==
  intents[i].origin # 0 =>
    /\ usage[i].models = 0 /\ \A n \in CallNumbers : world[i].acted[n] = 0
    /\ proc[i].pc \notin Looping
    /\ intents[i].origin \in Intents
    /\ intents[intents[i].origin].state # "absent"
    /\ intents[intents[i].origin].grant = intents[i].grant
    /\ result[intents[i].origin] # "none" \/ Dead(intents[i].grant)

Past(i) ==
  /\ Judged(i) /\ Kept(i) /\ Permitted(i) /\ Receipted(i) /\ Reported(i)
  /\ Rejected(i) /\ Granted(i) /\ Retried(i)

\* The second inductive invariant: every record is true of what happened before.
History == \A i \in Intents : Past(i)
=============================================================================
