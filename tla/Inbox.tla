------------------------------- MODULE Inbox -------------------------------
(* Messages that arrive while a run is working.                             *)
(*                                                                         *)
(* A message of the same person in the same session is attached to the run   *)
(* that is claimed (execution/store.ts acceptSupplement, enqueueInput), and   *)
(* the agent loop (agent-loop/src/loop.ts) adopts it at its next boundary:   *)
(* before a model request, or before a tool call of the answer it is         *)
(* carrying out.  An input is marked consumed when a model request that      *)
(* contains it has been recorded, and a tool action does not start while an  *)
(* input is not consumed.                                                   *)
(*                                                                         *)
(* One run is modelled with its attempts; inputs are numbered by their       *)
(* ordinal, and a message of the model is the set of inputs it contains.     *)
EXTENDS Naturals, FiniteSets

CONSTANTS Quota,     \* inputs a run accepts, 64 in enqueueInput
          Page,      \* inputs one read returns, LIMIT 64 in inputs()
          MaxCalls,  \* tool calls in one answer
          MaxSteps   \* bound: model steps over all attempts

ASSUME InboxAssumption == /\ Quota \in Nat /\ Page \in Nat /\ Page >= Quota
                          /\ MaxCalls \in Nat /\ MaxSteps \in Nat

VARIABLES
  intent,     \* "queued", "claimed" or "done"
  received,   \* number of inputs in execution_inbox
  consumed,   \* those with consumed = 1
  loop,       \* the attempt under way: ApiChatAgent.run and executionContext
  steps,      \* model steps so far
  uninformed  \* history: an action started that was decided without an input

inboxVars == <<intent, received, consumed, loop, steps, uninformed>>

Accepted == 1..received

NoLoop == [at |-> "idle", first |-> TRUE, messages |-> {}, incoming |-> {},
           asked |-> {}, calls |-> 0]

InboxTypeOK ==
  /\ intent \in {"queued", "claimed", "done"}
  /\ received \in 0..Quota
  /\ consumed \subseteq Accepted
  /\ loop \in [at : {"idle", "boundary", "built", "recorded", "generating", "answered", "calling", "acting"},
               first : BOOLEAN, messages : SUBSET Accepted, incoming : SUBSET Accepted,
               asked : SUBSET Accepted, calls : 0..MaxCalls]
  /\ steps \in 0..MaxSteps
  /\ uninformed \in BOOLEAN

InboxInit ==
  /\ intent = "queued" /\ received = 0 /\ consumed = {}
  /\ loop = NoLoop /\ steps = 0 /\ uninformed = FALSE

\* the claim starts an attempt: executeAgent, executionContext with first = true
ClaimRun ==
  /\ intent = "queued"
  /\ intent' = "claimed"
  /\ loop' = [NoLoop EXCEPT !.at = "boundary"]
  /\ UNCHANGED <<received, consumed, steps, uninformed>>

\* activeForSession finds claimed runs only; it and acceptSupplement run in one
\* turn of the event loop
Supplement ==
  /\ intent = "claimed" /\ received < Quota
  /\ received' = received + 1
  /\ UNCHANGED <<intent, consumed, loop, steps, uninformed>>

\* inputs(runId, all): the oldest ones first
Inputs(all) ==
  LET found == IF all THEN Accepted ELSE Accepted \ consumed
  IN  {i \in found : Cardinality(found \cap 1..i) <= Page}

WrongThrough(incoming) == Accepted

\* acknowledgeInputs(runId, through), through = incoming.at(-1).id
Through(incoming) == {i \in Accepted : \E last \in incoming : i <= last}

\* checkpoint() at the head of a model step
ModelBoundary ==
  /\ loop.at = "boundary" /\ steps < MaxSteps
  /\ LET incoming == Inputs(loop.first)
     IN  loop' = [loop EXCEPT !.at = "built", !.first = FALSE, !.incoming = incoming,
                              !.messages = @ \union incoming]
  /\ steps' = steps + 1
  /\ UNCHANGED <<intent, received, consumed, uninformed>>

\* observeModel(model_call_started) has recorded the request
RecordRequest ==
  /\ loop.at = "built"
  /\ loop' = [loop EXCEPT !.at = "recorded", !.asked = loop.messages]
  /\ UNCHANGED <<intent, received, consumed, steps, uninformed>>

\* acknowledgeInputs, then provider.complete
Generate ==
  /\ loop.at = "recorded"
  /\ consumed' = consumed \union Through(loop.incoming)
  /\ loop' = [loop EXCEPT !.at = "generating"]
  /\ UNCHANGED <<intent, received, steps, uninformed>>

\* an answer with tool calls
Propose(n) ==
  /\ loop.at = "generating"
  /\ loop' = [loop EXCEPT !.at = "answered", !.calls = n]
  /\ UNCHANGED <<intent, received, consumed, steps, uninformed>>

\* checkpoint() before a tool call: new input is added and the rest of the
\* calls is answered as blocked
ToolBoundary ==
  /\ loop.at = "answered"
  /\ LET steering == Inputs(loop.first)
     IN  IF loop.calls = 0
           THEN loop' = [loop EXCEPT !.at = "boundary"]
           ELSE IF steering # {}
             THEN loop' = [loop EXCEPT !.at = "boundary", !.calls = 0,
                                       !.messages = @ \union steering]
             ELSE loop' = [loop EXCEPT !.at = "calling"]
  /\ UNCHANGED <<intent, received, consumed, steps, uninformed>>

\* #recordToolRuntimeEvent(tool_call_started): refused while an input waits,
\* which the loop sees as a failed call
StartAction ==
  /\ loop.at = "calling"
  /\ IF Inputs(FALSE) # {}
       THEN loop' = [loop EXCEPT !.at = "answered", !.calls = @ - 1] /\ UNCHANGED uninformed
       ELSE /\ loop' = [loop EXCEPT !.at = "acting"]
            /\ uninformed' = (uninformed \/ ~(Accepted \subseteq loop.asked))
  /\ UNCHANGED <<intent, received, consumed, steps>>

\* the tool returns
EndAction ==
  /\ loop.at = "acting"
  /\ loop' = [loop EXCEPT !.at = "answered", !.calls = @ - 1]
  /\ UNCHANGED <<intent, received, consumed, steps, uninformed>>

\* a text answer, or an outcome the tool has committed (getOutcome), ends the
\* run without another look at the inbox
Conclude ==
  /\ loop.at \in {"generating", "acting"}
  /\ intent' = "done"
  /\ loop' = NoLoop
  /\ UNCHANGED <<received, consumed, steps, uninformed>>

\* the attempt ends early: the process dies and recover() queues the run
\* again, or retryModel defers it; only the database stays
Interrupt ==
  /\ intent = "claimed"
  /\ intent' = "queued"
  /\ loop' = NoLoop
  /\ UNCHANGED <<received, consumed, steps, uninformed>>

\* the step limit, a model error that is not retried, a budget or grant
\* that is refused
GiveUp ==
  /\ intent = "claimed" /\ loop.at \in {"boundary", "built", "generating", "answered"}
  /\ intent' = "done"
  /\ loop' = NoLoop
  /\ UNCHANGED <<received, consumed, steps, uninformed>>

InboxNext ==
  \/ ClaimRun \/ Supplement \/ ModelBoundary \/ RecordRequest \/ Generate
  \/ \E n \in 1..MaxCalls : Propose(n)
  \/ ToolBoundary \/ StartAction \/ EndAction \/ Conclude \/ Interrupt \/ GiveUp

InboxSpec == InboxInit /\ [][InboxNext]_inboxVars

\* No tool action starts that the model decided without an input accepted
\* before the start, however the input falls between the boundaries of the
\* loop (loop.ts 80-226, runtime-core.ts 1331-1334).
ActsInformed == ~uninformed

\* An input counted as consumed is in the request the model is working on,
\* also in an attempt that resumes after a crash (run-coordinator.ts 377-396:
\* the first checkpoint of an attempt reads consumed inputs again).
ConsumedIsKnown ==
  loop.at \in {"generating", "answered", "calling", "acting"} => consumed \subseteq loop.asked

\* Both: a run acts on nothing older than what it was told, and what it counts as
\* consumed it has read.  An input of the last generation is not adopted at all.
InputsHeard == ActsInformed /\ ConsumedIsKnown
=============================================================================
