-------------------------------- MODULE Gate --------------------------------
(* The execution gate of one runtime and the coordinator that owns it.      *)
(*                                                                         *)
(* ExecutionGate (runtime/execution-budget.ts) admits a bounded number of    *)
(* operations, keeps a bounded first-in first-out queue of waiters and       *)
(* refuses the rest.  RunCoordinator (runtime/run-coordinator.ts) tracks     *)
(* every operation until it settles, gives each run one abort controller     *)
(* with a deadline, and on dispose waits for the operations in flight, which *)
(* it aborts when the grace period is over.                                  *)
(*                                                                         *)
(* An operation settles before its slot is freed: its caller resumes between *)
(* the two and may dispatch again, so they are two steps here.               *)
EXTENDS Naturals, Sequences, FiniteSets

CONSTANTS Ops,          \* operations a host may dispatch, one at most each
          Runs,         \* runs the operations execute
          RunOf,        \* the run of an operation
          Concurrency,  \* limits.maxConcurrent
          MaxQueued     \* limits.maxQueued

ASSUME GateAssumption ==
  /\ Concurrency \in Nat \ {0}
  /\ MaxQueued \in Nat
  /\ RunOf \in [Ops -> Runs]

VARIABLES
  active,       \* #active, slots taken
  queue,        \* #queue, operations waiting for a slot
  closed,       \* #closed
  op,           \* where each operation is
  controller,   \* controllers: run -> "none", "live" or "aborted"
  disposal      \* dispose(): state and the operations it waits for

gateVars == <<active, queue, closed, op, controller, disposal>>

\* "started": holds a slot, has no controller yet; "settled": its promise is
\* resolved, its slot is not yet free
OpStates == {"new", "queued", "started", "executing", "settled", "ended", "refused"}

Over(o) == op[o] \in {"settled", "ended", "refused"}

GateTypeOK ==
  /\ active \in 0..Concurrency
  /\ queue \in Seq(Ops) /\ Len(queue) <= MaxQueued
  /\ closed \in BOOLEAN
  /\ op \in [Ops -> OpStates]
  /\ controller \in [Runs -> {"none", "live", "aborted"}]
  /\ disposal \in [state : {"no", "waiting", "done"}, inFlight : SUBSET Ops]

GateInit ==
  /\ active = 0
  /\ queue = <<>>
  /\ closed = FALSE
  /\ op = [o \in Ops |-> "new"]
  /\ controller = [r \in Runs |-> "none"]
  /\ disposal = [state |-> "no", inFlight |-> {}]

(* ------------------------------ the gate -------------------------------- *)

WrongFull == active >= Concurrency /\ Len(queue) >= MaxQueued

\* run(): refused when closed or when both slots and queue are full
Full == closed \/ (active >= Concurrency /\ Len(queue) >= MaxQueued)

Refuse(o) ==
  /\ op[o] = "new" /\ Full
  /\ op' = [op EXCEPT ![o] = "refused"]
  /\ UNCHANGED <<active, queue, closed, controller, disposal>>

Admit(o) ==
  /\ op[o] = "new" /\ ~Full /\ active < Concurrency
  /\ active' = active + 1
  /\ op' = [op EXCEPT ![o] = "started"]
  /\ UNCHANGED <<queue, closed, controller, disposal>>

Enqueue(o) ==
  /\ op[o] = "new" /\ ~Full /\ active >= Concurrency
  /\ queue' = Append(queue, o)
  /\ op' = [op EXCEPT ![o] = "queued"]
  /\ UNCHANGED <<active, closed, controller, disposal>>

WrongRelease(o) ==
  /\ op[o] = "settled"
  /\ op' = [op EXCEPT ![o] = "ended"]
  /\ active' = active - 1
  /\ UNCHANGED <<queue, closed, controller, disposal>>

\* the finally of start(): the slot goes to the first waiter, if there is one
Release(o) ==
  /\ op[o] = "settled"
  /\ IF queue = <<>>
       THEN /\ active' = active - 1
            /\ op' = [op EXCEPT ![o] = "ended"]
            /\ UNCHANGED queue
       ELSE /\ op' = [op EXCEPT ![o] = "ended", ![Head(queue)] = "started"]
            /\ queue' = Tail(queue)
            /\ UNCHANGED active
  /\ UNCHANGED <<closed, controller, disposal>>

(* ----------------------------- the coordinator -------------------------- *)

Settled(o) == op' = [op EXCEPT ![o] = "settled"]

\* beginRun: one controller per run, a second operation of the run gives up
BeginRun(o) ==
  /\ op[o] = "started"
  /\ IF controller[RunOf[o]] = "none"
       THEN /\ controller' = [controller EXCEPT ![RunOf[o]] = "live"]
            /\ op' = [op EXCEPT ![o] = "executing"]
       ELSE Settled(o) /\ UNCHANGED controller
  /\ UNCHANGED <<active, queue, closed, disposal>>

\* executeBackground: beginRecording throws before its try, so finishRun is
\* not called and the controller stays behind
RecordingFails(o) ==
  /\ op[o] = "started" /\ controller[RunOf[o]] = "none"
  /\ controller' = [controller EXCEPT ![RunOf[o]] = "live"]
  /\ Settled(o)
  /\ UNCHANGED <<active, queue, closed, disposal>>

\* finishRun, reached when the body ends or withAbort has rejected it
FinishRun(o) ==
  /\ op[o] = "executing"
  /\ controller' = [controller EXCEPT ![RunOf[o]] = "none"]
  /\ Settled(o)
  /\ UNCHANGED <<active, queue, closed, disposal>>

\* the timer of beginRun
Deadline(r) ==
  /\ controller[r] = "live"
  /\ controller' = [controller EXCEPT ![r] = "aborted"]
  /\ UNCHANGED <<active, queue, closed, op, disposal>>

\* dispose(): close() rejects every waiter; what is tracked now is waited for
Dispose ==
  /\ disposal.state = "no"
  /\ closed' = TRUE
  /\ queue' = <<>>
  /\ op' = [o \in Ops |-> IF op[o] = "queued" THEN "refused" ELSE op[o]]
  /\ disposal' = [state |-> "waiting",
                  inFlight |-> {o \in Ops : op[o] \in {"queued", "started", "executing"}}]
  /\ UNCHANGED <<active, controller>>

\* the grace timer of dispose()
GraceOver ==
  /\ disposal.state = "waiting"
  /\ \E r \in Runs : controller[r] = "live"
  /\ controller' = [r \in Runs |-> IF controller[r] = "live" THEN "aborted"
                                                             ELSE controller[r]]
  /\ UNCHANGED <<active, queue, closed, op, disposal>>

\* Promise.allSettled(inFlight)
Disposed ==
  /\ disposal.state = "waiting"
  /\ \A o \in disposal.inFlight : Over(o)
  /\ disposal' = [disposal EXCEPT !.state = "done"]
  /\ UNCHANGED <<active, queue, closed, op, controller>>

GateNext ==
  \/ \E o \in Ops : \/ Refuse(o) \/ Admit(o) \/ Enqueue(o) \/ Release(o)
                    \/ BeginRun(o) \/ RecordingFails(o) \/ FinishRun(o)
  \/ \E r \in Runs : Deadline(r)
  \/ Dispose \/ GraceOver \/ Disposed

\* Timers fire, promise reactions run, and an aborted operation rejects
\* (withAbort).  Nothing else makes an operation end.
GateFairness ==
  /\ \A o \in Ops : /\ WF_gateVars(BeginRun(o))
                    /\ WF_gateVars(Release(o))
                    /\ WF_gateVars(FinishRun(o) /\ controller[RunOf[o]] = "aborted")
  /\ \A r \in Runs : WF_gateVars(Deadline(r))
  /\ WF_gateVars(Disposed)

GateSpec == GateInit /\ [][GateNext]_gateVars /\ GateFairness

(* -------------------------------- properties ---------------------------- *)

\* Once dispose() has resolved no admitted operation still runs, although it
\* waits only for those in flight when it began (run-coordinator.ts 117-135).
DisposedIdle ==
  disposal.state = "done" =>
    \A o \in Ops : op[o] \notin {"queued", "started", "executing"}

\* No freed slot is lost: every waiter is started or rejected in the end,
\* whatever runs settle, fail to record or meet their deadline
\* (execution-budget.ts 38-63).
WaitersServed == \A o \in Ops : (op[o] = "queued") ~> Over(o)
=============================================================================
