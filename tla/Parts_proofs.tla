---------------------------- MODULE Parts_proofs ----------------------------
(* What the components next to the execution core keep, for any number of    *)
(* operations, runs, sockets, files, people and messages: each component has *)
(* an inductive invariant (GateInv, InboxInv, ...), the lemmas that show     *)
(* every action keeps it, and the theorems it yields.                        *)
EXTENDS Gate, Inbox, Tasks, Transport, Host, Maintenance, Capabilities, Records, Intake, Saving,
        FiniteSetTheorems, SequenceTheorems, WellFoundedInduction, TLAPS

(* --------------------------------- the gate ------------------------------- *)

\* operations that hold a slot
Holding == {o \in Ops : op[o] \in {"started", "executing", "settled"}}

\* the slots taken are counted, and none is idle while an operation waits
SlotsCounted ==
  /\ IsFiniteSet(Holding) /\ active = Cardinality(Holding)
  /\ queue # <<>> => active = Concurrency

\* the queue holds the waiting operations, each once
LineOfWaiters ==
  /\ \A k \in 1..Len(queue) : op[queue[k]] = "queued"
  /\ \A j, k \in 1..Len(queue) : queue[j] = queue[k] => j = k
  /\ \A o \in Ops : op[o] = "queued" => \E k \in 1..Len(queue) : queue[k] = o

\* what still runs when the gate has been closed is waited for by dispose()
WaitedFor ==
  /\ closed = (disposal.state # "no")
  /\ closed => /\ queue = <<>>
               /\ \A o \in Ops : op[o] \in {"started", "executing"} => o \in disposal.inFlight
  /\ disposal.state = "done" => \A o \in disposal.inFlight : Over(o)

GateInv == GateTypeOK /\ SlotsCounted /\ LineOfWaiters /\ WaitedFor

\* The gate opens with its invariant.
LEMMA GateInitInv == GateInit => GateInv
<1> SUFFICES ASSUME GateInit PROVE GateInv
    OBVIOUS
<1> USE GateAssumption DEF GateInit
<1>1. GateTypeOK
  <2>1. active \in 0..Concurrency
    OBVIOUS
  <2>2. op \in [Ops -> OpStates] /\ controller \in [Runs -> {"none", "live", "aborted"}]
    BY DEF OpStates
  <2>3. queue \in Seq(Ops) /\ Len(queue) <= MaxQueued
    OBVIOUS
  <2>4. disposal \in [state : {"no", "waiting", "done"}, inFlight : SUBSET Ops]
    OBVIOUS
  <2> QED BY <2>1, <2>2, <2>3, <2>4 DEF GateTypeOK
<1>2. SlotsCounted
  <2>1. Holding = {}
    BY DEF Holding
  <2> QED BY <2>1, FS_EmptySet DEF SlotsCounted
<1>3. LineOfWaiters
  BY DEF LineOfWaiters
<1>4. WaitedFor
  BY DEF WaitedFor
<1> QED BY <1>1, <1>2, <1>3, <1>4 DEF GateInv

\* What a step that moves one operation between states that hold a slot, or
\* none, leaves of the count and of the line.
LEMMA GateKeepsSlots ==
  ASSUME GateInv, NEW o \in Ops, NEW next \in OpStates \ {"queued"},
         op[o] \in {"started", "executing", "settled"},
         next \in {"started", "executing", "settled"},
         op' = [op EXCEPT ![o] = next],
         UNCHANGED <<active, queue>>
  PROVE  SlotsCounted' /\ LineOfWaiters'
<1> USE DEF GateInv, GateTypeOK
<1>1. Holding' = Holding
  BY DEF Holding
<1>2. SlotsCounted'
  BY <1>1 DEF SlotsCounted
<1>3. LineOfWaiters'
  BY DEF LineOfWaiters
<1> QED BY <1>2, <1>3

\* Every step of the gate and of the coordinator keeps the invariant.
LEMMA GateStepInv == GateInv /\ [GateNext]_gateVars => GateInv'
<1> SUFFICES ASSUME GateInv, [GateNext]_gateVars PROVE GateInv'
    OBVIOUS
<1>t. GateTypeOK /\ SlotsCounted /\ LineOfWaiters /\ WaitedFor
  BY DEF GateInv
<1>c. /\ Concurrency \in Nat \ {0} /\ MaxQueued \in Nat /\ RunOf \in [Ops -> Runs]
  BY GateAssumption
<1>1. ASSUME NEW o \in Ops, Refuse(o) PROVE GateInv'
  <2>1. GateTypeOK'
    BY <1>1, <1>t DEF GateTypeOK, OpStates, Refuse
  <2>2. Holding' = Holding
    BY <1>1, <1>t DEF GateTypeOK, Holding, Refuse
  <2>3. SlotsCounted'
    BY <1>1, <1>t, <2>2 DEF SlotsCounted, Refuse
  <2>4. LineOfWaiters'
    BY <1>1, <1>t DEF GateTypeOK, LineOfWaiters, Refuse
  <2>5. WaitedFor'
    BY <1>1, <1>t DEF GateTypeOK, WaitedFor, Refuse, Over
  <2> QED BY <2>1, <2>3, <2>4, <2>5 DEF GateInv
<1>2. ASSUME NEW o \in Ops, Admit(o) PROVE GateInv'
  <2>1. GateTypeOK'
    BY <1>2, <1>t, <1>c DEF GateTypeOK, OpStates, Admit
  <2>2. Holding' = Holding \cup {o} /\ o \notin Holding
    BY <1>2, <1>t DEF GateTypeOK, Holding, Admit
  <2>3. IsFiniteSet(Holding') /\ Cardinality(Holding') = Cardinality(Holding) + 1
    BY <1>t, <2>2, FS_AddElement DEF SlotsCounted
  <2>4. queue = <<>>
    BY <1>2, <1>t, <1>c DEF SlotsCounted, Admit, GateTypeOK
  <2>5. SlotsCounted'
    BY <1>2, <1>t, <2>3, <2>4 DEF SlotsCounted, Admit
  <2>6. LineOfWaiters'
    BY <1>2, <1>t DEF GateTypeOK, LineOfWaiters, Admit
  <2>7. WaitedFor'
    BY <1>2, <1>t DEF GateTypeOK, WaitedFor, Admit, Full, Over
  <2> QED BY <2>1, <2>5, <2>6, <2>7 DEF GateInv
<1>3. ASSUME NEW o \in Ops, Enqueue(o) PROVE GateInv'
  <2>1. queue' \in Seq(Ops) /\ Len(queue') = Len(queue) + 1 /\ Len(queue) \in Nat
    BY <1>3, <1>t DEF GateTypeOK, Enqueue
  <2>2. \A k \in 1..Len(queue) : queue'[k] = queue[k] /\ queue[k] \in Ops
    BY <1>3, <1>t DEF GateTypeOK, Enqueue
  <2>3. queue'[Len(queue) + 1] = o
    BY <1>3, <1>t DEF GateTypeOK, Enqueue
  <2>4. Len(queue) < MaxQueued /\ ~closed /\ active = Concurrency
    BY <1>3, <1>t, <1>c DEF GateTypeOK, Enqueue, Full
  <2>5. GateTypeOK'
    BY <1>3, <1>t, <1>c, <2>1, <2>4 DEF GateTypeOK, OpStates, Enqueue
  <2>6. Holding' = Holding
    BY <1>3, <1>t DEF GateTypeOK, Holding, Enqueue
  <2>7. SlotsCounted'
    BY <1>3, <1>t, <2>4, <2>6 DEF SlotsCounted, Enqueue
  <2>8. op' = [op EXCEPT ![o] = "queued"] /\ op[o] = "new" /\ op \in [Ops -> OpStates]
    BY <1>3, <1>t DEF Enqueue, GateTypeOK
  <2>9. LineOfWaiters'
    <3>1. \A k \in 1..Len(queue) : op[queue[k]] = "queued"
      BY <1>t DEF LineOfWaiters
    <3>2. \A k \in 1..Len(queue') : op'[queue'[k]] = "queued"
      BY <2>1, <2>2, <2>3, <2>8, <3>1
    <3>3. \A j, k \in 1..Len(queue') : queue'[j] = queue'[k] => j = k
      <4> SUFFICES ASSUME NEW j \in 1..Len(queue'), NEW k \in 1..Len(queue'),
                          queue'[j] = queue'[k]
                   PROVE  j = k
          OBVIOUS
      <4>1. CASE j \in 1..Len(queue) /\ k \in 1..Len(queue)
        BY <4>1, <1>t, <2>2 DEF LineOfWaiters
      <4>2. CASE j \in 1..Len(queue) /\ k = Len(queue) + 1
        BY <4>2, <2>2, <2>3, <2>8, <3>1
      <4>3. CASE j = Len(queue) + 1 /\ k \in 1..Len(queue)
        BY <4>3, <2>2, <2>3, <2>8, <3>1
      <4>4. CASE j = Len(queue) + 1 /\ k = Len(queue) + 1
        BY <4>4
      <4> QED BY <2>1, <4>1, <4>2, <4>3, <4>4
    <3>4. ASSUME NEW p \in Ops, op'[p] = "queued"
          PROVE  \E k \in 1..Len(queue') : queue'[k] = p
      <4>1. CASE p = o
        BY <4>1, <2>1, <2>3
      <4>2. CASE p # o
        <5>1. PICK k \in 1..Len(queue) : queue[k] = p
          BY <4>2, <3>4, <2>8, <1>t DEF LineOfWaiters
        <5> QED BY <5>1, <2>1, <2>2
      <4> QED BY <4>1, <4>2
    <3> QED BY <3>2, <3>3, <3>4 DEF LineOfWaiters
  <2>10. WaitedFor'
    BY <1>3, <1>t, <2>4 DEF GateTypeOK, WaitedFor, Enqueue, Over
  <2> QED BY <2>5, <2>7, <2>9, <2>10 DEF GateInv
<1>4. ASSUME NEW o \in Ops, Release(o) PROVE GateInv'
  <2>0. op[o] = "settled" /\ op \in [Ops -> OpStates] /\ UNCHANGED <<closed, controller, disposal>>
    BY <1>4, <1>t DEF Release, GateTypeOK
  <2>1. CASE queue = <<>>
    <3>1. active' = active - 1 /\ op' = [op EXCEPT ![o] = "ended"] /\ queue' = queue
      BY <2>1, <1>4 DEF Release
    <3>2. Holding' = Holding \ {o} /\ o \in Holding
      BY <2>0, <3>1 DEF Holding
    <3>3. IsFiniteSet(Holding') /\ Cardinality(Holding') = Cardinality(Holding) - 1
      BY <1>t, <3>2, FS_RemoveElement DEF SlotsCounted
    <3>4. SlotsCounted'
      BY <1>t, <2>1, <3>1, <3>3 DEF SlotsCounted
    <3>5. Cardinality(Holding') \in Nat
      BY <3>3, FS_CardinalityType
    <3>6. GateTypeOK'
      BY <1>t, <1>c, <2>0, <3>1, <3>4, <3>5 DEF GateTypeOK, OpStates, SlotsCounted
    <3>7. LineOfWaiters'
      BY <1>t, <2>0, <3>1 DEF LineOfWaiters, GateTypeOK
    <3>8. WaitedFor'
      BY <1>t, <2>0, <3>1 DEF WaitedFor, Over
    <3> QED BY <3>4, <3>6, <3>7, <3>8 DEF GateInv
  <2>2. CASE queue # <<>>
    <3> DEFINE h == Head(queue)
    <3>1. op' = [op EXCEPT ![o] = "ended", ![h] = "started"] /\ queue' = Tail(queue)
          /\ active' = active
      BY <2>2, <1>4 DEF Release
    <3>2. /\ Len(queue) \in Nat \ {0} /\ h = queue[1] /\ h \in Ops
          /\ queue' \in Seq(Ops) /\ Len(queue') = Len(queue) - 1
          /\ \A k \in 1..Len(queue') : queue'[k] = queue[k + 1] /\ k + 1 \in 1..Len(queue)
      BY <2>2, <3>1, <1>t DEF GateTypeOK
    <3>3. op[h] = "queued" /\ h # o
      BY <3>2, <2>0, <1>t DEF LineOfWaiters
    <3> HIDE DEF h
    <3>4. \A p \in Ops : op'[p] = IF p = h THEN "started" ELSE IF p = o THEN "ended" ELSE op[p]
      BY <2>0, <3>1, <3>2
    <3>5. op' \in [Ops -> OpStates]
      BY <2>0, <3>1 DEF OpStates
    <3>6. Holding' = (Holding \ {o}) \cup {h} /\ o \in Holding /\ h \notin Holding
      BY <2>0, <3>2, <3>3, <3>4 DEF Holding
    <3>7. IsFiniteSet(Holding \ {o}) /\ Cardinality(Holding \ {o}) = Cardinality(Holding) - 1
      BY <1>t, <3>6, FS_RemoveElement DEF SlotsCounted
    <3>8. IsFiniteSet(Holding') /\ Cardinality(Holding') = Cardinality(Holding \ {o}) + 1
      BY <3>6, <3>7, FS_AddElement
    <3>9. Cardinality(Holding) \in Nat
      BY <1>t, FS_CardinalityType DEF SlotsCounted
    <3>10. SlotsCounted'
      BY <1>t, <2>2, <3>1, <3>7, <3>8, <3>9 DEF SlotsCounted
    <3>11. GateTypeOK'
      <4>1. Len(queue') <= MaxQueued
        <5>1. Len(queue) <= MaxQueued
          BY <1>t DEF GateTypeOK
        <5> QED BY <1>c, <3>2, <5>1
      <4> QED BY <1>t, <2>0, <3>1, <3>2, <3>5, <4>1 DEF GateTypeOK
    <3>12. LineOfWaiters'
      <4>1. \A j, k \in 1..Len(queue') : queue'[j] = queue'[k] => j = k
        <5> SUFFICES ASSUME NEW j \in 1..Len(queue'), NEW k \in 1..Len(queue'), queue'[j] = queue'[k]
                     PROVE  j = k
            OBVIOUS
        <5>1. /\ queue[j + 1] = queue[k + 1] /\ j + 1 \in 1..Len(queue) /\ k + 1 \in 1..Len(queue)
          BY <3>2
        <5>2. j + 1 = k + 1
          BY <1>t, <5>1 DEF LineOfWaiters
        <5> QED BY <5>2
      <4>2. \A k \in 1..Len(queue') : op[queue'[k]] = "queued" /\ queue'[k] # h /\ queue'[k] \in Ops
        <5> SUFFICES ASSUME NEW k \in 1..Len(queue')
                     PROVE  op[queue'[k]] = "queued" /\ queue'[k] # h /\ queue'[k] \in Ops
            OBVIOUS
        <5>1. queue'[k] = queue[k + 1] /\ k + 1 \in 1..Len(queue) /\ k + 1 # 1 /\ 1 \in 1..Len(queue)
          BY <3>2
        <5>2. queue[k + 1] \in Ops /\ op[queue[k + 1]] = "queued"
          BY <1>t, <5>1 DEF LineOfWaiters, GateTypeOK
        <5>3. queue[k + 1] # queue[1]
          BY <1>t, <5>1 DEF LineOfWaiters
        <5> QED BY <3>2, <5>1, <5>2, <5>3
      <4>3. \A k \in 1..Len(queue') : op'[queue'[k]] = "queued"
        BY <4>2, <3>4, <2>0
      <4>4. ASSUME NEW p \in Ops, op'[p] = "queued" PROVE \E k \in 1..Len(queue') : queue'[k] = p
        <5>1. op[p] = "queued" /\ p # h
          BY <4>4, <3>4
        <5>2. PICK k \in 1..Len(queue) : queue[k] = p
          BY <5>1, <1>t DEF LineOfWaiters
        <5>3. k - 1 \in 1..Len(queue') /\ (k - 1) + 1 = k
          BY <5>1, <5>2, <3>2
        <5> QED BY <5>2, <5>3, <3>2
      <4> QED BY <4>1, <4>3, <4>4 DEF LineOfWaiters
    <3>13. ~closed /\ disposal.state = "no"
      BY <1>t, <2>2 DEF WaitedFor
    <3>14. WaitedFor'
      BY <1>t, <2>0, <3>13 DEF WaitedFor
    <3> QED BY <3>10, <3>11, <3>12, <3>14 DEF GateInv
  <2> QED BY <2>1, <2>2
<1>5. ASSUME NEW o \in Ops, BeginRun(o) \/ RecordingFails(o) \/ FinishRun(o) PROVE GateInv'
  <2>1. PICK next \in {"executing", "settled"} :
          /\ op[o] \in {"started", "executing"} /\ op' = [op EXCEPT ![o] = next]
          /\ next = "executing" => op[o] = "started"
    BY <1>5 DEF BeginRun, RecordingFails, FinishRun, Settled
  <2>2. UNCHANGED <<active, queue, closed, disposal>>
    BY <1>5 DEF BeginRun, RecordingFails, FinishRun
  <2>3. controller' \in [Runs -> {"none", "live", "aborted"}]
    BY <1>5, <1>t, <1>c DEF BeginRun, RecordingFails, FinishRun, GateTypeOK
  <2>4. GateTypeOK'
    BY <1>t, <2>1, <2>2, <2>3 DEF GateTypeOK, OpStates
  <2>5. SlotsCounted' /\ LineOfWaiters'
    BY <2>1, <2>2, GateKeepsSlots DEF OpStates
  <2>6. WaitedFor'
    BY <1>t, <2>1, <2>2 DEF WaitedFor, Over, GateTypeOK
  <2> QED BY <2>4, <2>5, <2>6 DEF GateInv
<1>6. CASE Dispose
  <2>1. op' \in [Ops -> OpStates]
    BY <1>6, <1>t DEF Dispose, GateTypeOK, OpStates
  <2>2. GateTypeOK'
    BY <1>6, <1>t, <1>c, <2>1 DEF Dispose, GateTypeOK
  <2>3. Holding' = Holding
    BY <1>6, <1>t DEF Dispose, Holding, GateTypeOK
  <2>4. SlotsCounted'
    BY <1>6, <1>t, <2>3 DEF Dispose, SlotsCounted
  <2>5. LineOfWaiters'
    BY <1>6, <1>t DEF Dispose, LineOfWaiters, GateTypeOK
  <2>6. WaitedFor'
    BY <1>6, <1>t DEF Dispose, WaitedFor, GateTypeOK
  <2> QED BY <2>2, <2>4, <2>5, <2>6 DEF GateInv
<1>7. ASSUME (\E r \in Runs : Deadline(r)) \/ GraceOver PROVE GateInv'
  <2>1. UNCHANGED <<active, queue, closed, op, disposal>>
    BY <1>7 DEF Deadline, GraceOver
  <2>2. controller' \in [Runs -> {"none", "live", "aborted"}]
    BY <1>7, <1>t DEF Deadline, GraceOver, GateTypeOK
  <2>3. Holding' = Holding
    BY <2>1 DEF Holding
  <2> QED BY <1>t, <2>1, <2>2, <2>3
          DEF GateInv, GateTypeOK, SlotsCounted, LineOfWaiters, WaitedFor, Over
<1>8. CASE Disposed
  <2>1. UNCHANGED <<active, queue, closed, op, controller>>
    BY <1>8 DEF Disposed
  <2>2. /\ disposal.state = "waiting" /\ \A o \in disposal.inFlight : Over(o)
        /\ disposal'.state = "done" /\ disposal'.inFlight = disposal.inFlight
        /\ disposal' \in [state : {"no", "waiting", "done"}, inFlight : SUBSET Ops]
    BY <1>8, <1>t DEF Disposed, GateTypeOK
  <2>3. Holding' = Holding
    BY <2>1 DEF Holding
  <2>4. WaitedFor'
    BY <1>t, <2>1, <2>2 DEF WaitedFor, Over
  <2> QED BY <1>t, <2>1, <2>2, <2>3, <2>4 DEF GateInv, GateTypeOK, SlotsCounted, LineOfWaiters
<1>9. CASE UNCHANGED gateVars
  <2>1. UNCHANGED <<active, queue, closed, op, controller, disposal>>
    BY <1>9 DEF gateVars
  <2>2. Holding' = Holding
    BY <2>1 DEF Holding
  <2> QED BY <1>t, <2>1, <2>2
          DEF GateInv, GateTypeOK, SlotsCounted, LineOfWaiters, WaitedFor, Over
<1> QED BY <1>1, <1>2, <1>3, <1>4, <1>5, <1>6, <1>7, <1>8, <1>9 DEF GateNext

\* The gate never runs more than its limit, counts its slots exactly, never
\* leaves one idle while an operation waits, and keeps every waiter in its line
\* once (execution-budget.ts 12-63), for any limits and operations.
THEOREM SlotsCountedHolds == GateSpec => [](SlotsCounted /\ LineOfWaiters)
<1>1. GateInv => SlotsCounted /\ LineOfWaiters
  BY DEF GateInv
<1> QED BY GateInitInv, GateStepInv, <1>1, PTL DEF GateSpec

\* Once dispose() has resolved nothing admitted still runs, for any number of
\* operations, runs and slots.
THEOREM DisposedIdleHolds == GateSpec => []DisposedIdle
<1>1. GateInv => DisposedIdle
  <2> SUFFICES ASSUME GateInv, disposal.state = "done", NEW o \in Ops
               PROVE  op[o] \notin {"queued", "started", "executing"}
      BY DEF DisposedIdle
  <2>1. closed /\ queue = <<>> /\ \A p \in disposal.inFlight : Over(p)
    BY DEF GateInv, WaitedFor
  <2>2. op[o] # "queued"
    BY <2>1 DEF GateInv, LineOfWaiters
  <2>3. op[o] \in {"started", "executing"} => o \in disposal.inFlight
    BY <2>1 DEF GateInv, WaitedFor
  <2> QED BY <2>1, <2>2, <2>3 DEF Over
<1> QED BY GateInitInv, GateStepInv, <1>1, PTL DEF GateSpec

(* -------------------------------- the inbox ------------------------------- *)

Loops == [at : {"idle", "boundary", "built", "recorded", "generating", "answered", "calling", "acting"},
          first : BOOLEAN, messages : SUBSET Accepted, incoming : SUBSET Accepted,
          asked : SUBSET Accepted, calls : 0..MaxCalls]

\* what the loop holds: all inputs up to the last one it has, and after its
\* first look at the inbox every input that counts as consumed
LoopComplete ==
  /\ \A i \in loop.messages : \A j \in 1..i : j \in loop.messages
  /\ loop.first => loop.at \in {"idle", "boundary"}
  /\ ~loop.first => consumed \subseteq loop.messages
  /\ loop.at \in {"built", "recorded"} => loop.incoming \subseteq loop.messages
  /\ loop.at = "recorded" => loop.asked = loop.messages
  /\ loop.at \in {"calling", "acting"} => loop.calls # 0

InboxInv == InboxTypeOK /\ LoopComplete /\ InputsHeard

\* The page is never too small: a read returns all that it looks for.
LEMMA InputsComplete ==
  ASSUME InboxTypeOK, NEW all \in BOOLEAN
  PROVE  Inputs(all) = IF all THEN Accepted ELSE Accepted \ consumed
<1> DEFINE found == IF all THEN Accepted ELSE Accepted \ consumed
<1>1. /\ received \in Nat /\ received <= Page /\ Page \in Nat
  BY InboxAssumption DEF InboxTypeOK
<1>2. IsFiniteSet(Accepted) /\ Cardinality(Accepted) = received
  BY <1>1, FS_Interval DEF Accepted
<1>3. ASSUME NEW i \in found PROVE Cardinality(found \cap 1..i) <= Page
  <2>1. found \cap 1..i \in SUBSET Accepted
    OBVIOUS
  <2>2. IsFiniteSet(found \cap 1..i) /\ Cardinality(found \cap 1..i) <= received
    BY <1>2, <2>1, FS_Subset
  <2>3. Cardinality(found \cap 1..i) \in Nat
    BY <2>2, FS_CardinalityType
  <2> QED BY <1>1, <2>2, <2>3
<1> QED BY <1>3 DEF Inputs

\* What the model adopts up to an input it holds is what it holds.
LEMMA ThroughHeld ==
  ASSUME InboxTypeOK, LoopComplete, loop.incoming \subseteq loop.messages
  PROVE  Through(loop.incoming) \subseteq loop.messages
<1> SUFFICES ASSUME NEW i \in Accepted, NEW last \in loop.incoming, i <= last
             PROVE  i \in loop.messages
    BY DEF Through
<1>1. last \in loop.messages /\ last \in Nat /\ i \in Nat /\ i >= 1
  BY InboxAssumption DEF InboxTypeOK, Accepted
<1> QED BY <1>1 DEF LoopComplete

\* A run that was queued has its invariant.
LEMMA InboxInitInv == InboxInit => InboxInv
<1> SUFFICES ASSUME InboxInit PROVE InboxInv
    OBVIOUS
<1>1. /\ intent = "queued" /\ received = 0 /\ consumed = {} /\ steps = 0 /\ uninformed = FALSE
      /\ loop = [at |-> "idle", first |-> TRUE, messages |-> {}, incoming |-> {},
                 asked |-> {}, calls |-> 0]
  BY DEF InboxInit, NoLoop
<1>2. loop \in Loops
  BY <1>1, InboxAssumption DEF Loops
<1>3. 0 \in 0..Quota /\ 0 \in 0..MaxSteps
  BY InboxAssumption
<1>4. InboxTypeOK
  BY <1>1, <1>2, <1>3 DEF InboxTypeOK, Loops
<1> QED BY <1>1, <1>4 DEF InboxInv, LoopComplete, InputsHeard, ActsInformed, ConsumedIsKnown

\* A loop that is given up or begins says nothing wrong about the inbox.
LEMMA LoopBegins ==
  ASSUME InboxInv, NEW at \in {"idle", "boundary"},
         loop' = [at |-> at, first |-> TRUE, messages |-> {}, incoming |-> {},
                  asked |-> {}, calls |-> 0],
         UNCHANGED <<received, consumed, steps, uninformed>>,
         intent' \in {"queued", "claimed", "done"}
  PROVE  InboxInv'
<1>1. loop' = [at |-> at, first |-> TRUE, messages |-> {}, incoming |-> {},
               asked |-> {}, calls |-> 0]
  OBVIOUS
<1>2. loop' \in Loops' /\ Accepted' = Accepted
  <2>1. Accepted' = Accepted
    BY DEF Accepted
  <2>2. 0 \in 0..MaxCalls
    BY InboxAssumption
  <2>3. loop' \in Loops
    <3>1. {} \in SUBSET Accepted /\ TRUE \in BOOLEAN
          /\ at \in {"idle", "boundary", "built", "recorded", "generating", "answered", "calling", "acting"}
      OBVIOUS
    <3> HIDE DEF Accepted
    <3> QED BY <1>1, <2>2, <3>1 DEF Loops
  <2>4. Loops' = Loops
    BY <2>1 DEF Loops
  <2> QED BY <2>1, <2>3, <2>4
<1>3. InboxTypeOK'
  BY <1>2 DEF InboxInv, InboxTypeOK, Loops
<1>4. LoopComplete'
  BY <1>1 DEF LoopComplete
<1>5. InputsHeard'
  BY <1>1 DEF InboxInv, InputsHeard, ActsInformed, ConsumedIsKnown
<1> QED BY <1>3, <1>4, <1>5 DEF InboxInv

\* A loop that looks at the inbox holds everything accepted so far.
LEMMA LooksAll ==
  ASSUME InboxInv, loop.at \in {"boundary", "answered"}
  PROVE  loop.messages \union Inputs(loop.first) = Accepted
<1>1. loop.first \in BOOLEAN /\ loop.messages \subseteq Accepted /\ consumed \subseteq Accepted
  BY DEF InboxInv, InboxTypeOK
<1>2. Inputs(loop.first) = IF loop.first THEN Accepted ELSE Accepted \ consumed
  BY <1>1, InputsComplete DEF InboxInv
<1>3. ~loop.first => consumed \subseteq loop.messages
  BY DEF InboxInv, LoopComplete
<1> QED BY <1>1, <1>2, <1>3

\* Every step of the run, its inbox and its loop keeps the invariant.
LEMMA InboxStepInv == InboxInv /\ [InboxNext]_inboxVars => InboxInv'
<1> SUFFICES ASSUME InboxInv, [InboxNext]_inboxVars PROVE InboxInv'
    OBVIOUS
<1>t. InboxTypeOK /\ LoopComplete /\ InputsHeard
  BY DEF InboxInv
<1>l. /\ received \in Nat /\ consumed \subseteq Accepted
      /\ loop \in Loops
  BY <1>t, InboxAssumption DEF InboxTypeOK, Loops
<1>1. CASE ClaimRun \/ Conclude \/ Interrupt \/ GiveUp
  <2>1. UNCHANGED <<received, consumed, steps, uninformed>>
        /\ intent' \in {"queued", "claimed", "done"}
    BY <1>1 DEF ClaimRun, Conclude, Interrupt, GiveUp
  <2>2. CASE ClaimRun
    <3>1. loop' = [at |-> "boundary", first |-> TRUE, messages |-> {}, incoming |-> {},
                   asked |-> {}, calls |-> 0]
      BY <2>2 DEF ClaimRun, NoLoop
    <3> QED BY <2>1, <3>1, LoopBegins
  <2>3. CASE Conclude \/ Interrupt \/ GiveUp
    <3>1. loop' = [at |-> "idle", first |-> TRUE, messages |-> {}, incoming |-> {},
                   asked |-> {}, calls |-> 0]
      BY <2>3 DEF Conclude, Interrupt, GiveUp, NoLoop
    <3> QED BY <2>1, <3>1, LoopBegins
  <2> QED BY <1>1, <2>2, <2>3
<1>2. CASE Supplement
  <2>1. /\ received' = received + 1 /\ received' \in 0..Quota /\ Accepted \subseteq Accepted'
        /\ UNCHANGED <<intent, consumed, loop, steps, uninformed>>
    BY <1>2, <1>t, InboxAssumption DEF Supplement, InboxTypeOK, Accepted
  <2>2. /\ SUBSET Accepted \subseteq SUBSET Accepted'
        /\ consumed' \subseteq Accepted'
    BY <2>1, <1>l
  <2>3. loop' \in Loops'
    BY <2>1, <2>2, <1>l DEF Loops
  <2>4. InboxTypeOK'
    BY <1>t, <2>1, <2>2, <2>3 DEF InboxTypeOK, Loops
  <2>5. LoopComplete' /\ InputsHeard'
    BY <1>t, <2>1 DEF LoopComplete, InputsHeard, ActsInformed, ConsumedIsKnown
  <2> QED BY <2>4, <2>5 DEF InboxInv
<1>3. CASE ModelBoundary
  <2> DEFINE incoming == Inputs(loop.first)
  <2>1. /\ loop.at = "boundary" /\ steps < MaxSteps /\ steps' = steps + 1
        /\ loop' = [loop EXCEPT !.at = "built", !.first = FALSE, !.incoming = incoming,
                                !.messages = @ \union incoming]
        /\ UNCHANGED <<intent, received, consumed, uninformed>>
    BY <1>3 DEF ModelBoundary
  <2>2. incoming \subseteq Accepted /\ loop.messages \union incoming = Accepted
    BY <2>1, LooksAll
  <2>3. loop' = [at |-> "built", first |-> FALSE, messages |-> Accepted, incoming |-> incoming,
                 asked |-> loop.asked, calls |-> loop.calls]
    BY <1>l, <2>1, <2>2 DEF Loops
  <2> HIDE DEF incoming
  <2>4. Accepted' = Accepted
    BY <2>1 DEF Accepted
  <2>a. loop' \in Loops /\ steps' \in 0..MaxSteps
    <3>1. loop' \in Loops
      BY <1>l, <2>2, <2>3 DEF Loops
    <3>2. steps' \in 0..MaxSteps
      BY <1>t, <2>1, InboxAssumption DEF InboxTypeOK
    <3> QED BY <3>1, <3>2
  <2>5. InboxTypeOK'
    BY <1>t, <1>l, <2>1, <2>4, <2>a DEF InboxTypeOK, Loops
  <2>6. LoopComplete'
    BY <1>l, <2>1, <2>2, <2>3, <2>4 DEF LoopComplete, Accepted
  <2>7. InputsHeard'
    BY <1>t, <2>1, <2>3 DEF InputsHeard, ActsInformed, ConsumedIsKnown
  <2> QED BY <2>5, <2>6, <2>7 DEF InboxInv
<1>4. CASE RecordRequest
  <2>1. /\ loop.at = "built" /\ UNCHANGED <<intent, received, consumed, steps, uninformed>>
        /\ loop' = [loop EXCEPT !.at = "recorded", !.asked = loop.messages]
    BY <1>4 DEF RecordRequest
  <2>2. loop' = [at |-> "recorded", first |-> loop.first, messages |-> loop.messages,
                 incoming |-> loop.incoming, asked |-> loop.messages, calls |-> loop.calls]
    BY <1>l, <2>1 DEF Loops
  <2>3. Accepted' = Accepted
    BY <2>1 DEF Accepted
  <2>4. InboxTypeOK'
    BY <1>t, <1>l, <2>1, <2>2, <2>3 DEF InboxTypeOK, Loops
  <2>5. LoopComplete' /\ InputsHeard'
    BY <1>t, <2>1, <2>2 DEF LoopComplete, InputsHeard, ActsInformed, ConsumedIsKnown
  <2> QED BY <2>4, <2>5 DEF InboxInv
<1>5. CASE Generate
  <2>1. /\ loop.at = "recorded" /\ UNCHANGED <<intent, received, steps, uninformed>>
        /\ loop' = [loop EXCEPT !.at = "generating"]
        /\ consumed' = consumed \union Through(loop.incoming)
    BY <1>5 DEF Generate
  <2>2. loop' = [at |-> "generating", first |-> loop.first, messages |-> loop.messages,
                 incoming |-> loop.incoming, asked |-> loop.asked, calls |-> loop.calls]
    BY <1>l, <2>1 DEF Loops
  <2>3. /\ Through(loop.incoming) \subseteq loop.messages /\ loop.asked = loop.messages
        /\ consumed \subseteq loop.messages /\ ~loop.first
    BY <1>t, <1>l, <2>1, ThroughHeld DEF LoopComplete
  <2>4. Accepted' = Accepted /\ consumed' \subseteq loop.messages
    BY <2>1, <2>3 DEF Accepted
  <2>5. InboxTypeOK'
    BY <1>t, <1>l, <2>1, <2>2, <2>4 DEF InboxTypeOK, Loops
  <2>6. LoopComplete' /\ InputsHeard'
    BY <1>t, <2>1, <2>2, <2>3, <2>4 DEF LoopComplete, InputsHeard, ActsInformed, ConsumedIsKnown
  <2> QED BY <2>5, <2>6 DEF InboxInv
<1>6. ASSUME NEW n \in 1..MaxCalls, Propose(n) PROVE InboxInv'
  <2>1. /\ loop.at = "generating" /\ UNCHANGED <<intent, received, consumed, steps, uninformed>>
        /\ loop' = [loop EXCEPT !.at = "answered", !.calls = n]
    BY <1>6 DEF Propose
  <2>2. loop' = [at |-> "answered", first |-> loop.first, messages |-> loop.messages,
                 incoming |-> loop.incoming, asked |-> loop.asked, calls |-> n]
    BY <1>l, <2>1 DEF Loops
  <2>3. Accepted' = Accepted /\ n \in 0..MaxCalls
    BY <2>1, InboxAssumption DEF Accepted
  <2>4. InboxTypeOK'
    BY <1>t, <1>l, <2>1, <2>2, <2>3 DEF InboxTypeOK, Loops
  <2>5. LoopComplete' /\ InputsHeard'
    BY <1>t, <2>1, <2>2 DEF LoopComplete, InputsHeard, ActsInformed, ConsumedIsKnown
  <2> QED BY <2>4, <2>5 DEF InboxInv
<1>7. CASE ToolBoundary
  <2>1. loop.at = "answered" /\ UNCHANGED <<intent, received, consumed, steps, uninformed>>
    BY <1>7 DEF ToolBoundary
  <2>2. /\ loop.first \in BOOLEAN /\ loop.calls \in 0..MaxCalls /\ 0 \in 0..MaxCalls
        /\ loop.messages \union Inputs(loop.first) = Accepted
    BY <1>l, <2>1, LooksAll, InboxAssumption DEF Loops
  <2>3. \E at \in {"boundary", "calling"}, messages \in {loop.messages, Accepted}, calls \in 0..MaxCalls :
          /\ loop' = [at |-> at, first |-> loop.first, messages |-> messages,
                      incoming |-> loop.incoming, asked |-> loop.asked, calls |-> calls]
          /\ at = "calling" => calls # 0
    <3>1. CASE loop.calls = 0
      <4>1. loop' = [loop EXCEPT !.at = "boundary"]
        BY <1>7, <3>1 DEF ToolBoundary
      <4>2. loop' = [at |-> "boundary", first |-> loop.first, messages |-> loop.messages,
                     incoming |-> loop.incoming, asked |-> loop.asked, calls |-> loop.calls]
        BY <4>1, <1>l DEF Loops
      <4> QED BY <2>2, <4>2
    <3>2. CASE loop.calls # 0 /\ Inputs(loop.first) # {}
      <4>1. loop' = [loop EXCEPT !.at = "boundary", !.calls = 0,
                                 !.messages = loop.messages \union Inputs(loop.first)]
        BY <1>7, <3>2, <1>l DEF ToolBoundary, Loops
      <4>2. loop' = [at |-> "boundary", first |-> loop.first, messages |-> Accepted,
                     incoming |-> loop.incoming, asked |-> loop.asked, calls |-> 0]
        BY <4>1, <2>2, <1>l DEF Loops
      <4> QED BY <2>2, <4>2
    <3>3. CASE loop.calls # 0 /\ Inputs(loop.first) = {}
      <4>1. loop' = [loop EXCEPT !.at = "calling"]
        BY <1>7, <3>3 DEF ToolBoundary
      <4>2. loop' = [at |-> "calling", first |-> loop.first, messages |-> loop.messages,
                     incoming |-> loop.incoming, asked |-> loop.asked, calls |-> loop.calls]
        BY <4>1, <1>l DEF Loops
      <4> QED BY <2>2, <3>3, <4>2
    <3> QED BY <3>1, <3>2, <3>3
  <2>4. PICK at \in {"boundary", "calling"}, messages \in {loop.messages, Accepted}, calls \in 0..MaxCalls :
          /\ loop' = [at |-> at, first |-> loop.first, messages |-> messages,
                      incoming |-> loop.incoming, asked |-> loop.asked, calls |-> calls]
          /\ at = "calling" => calls # 0
    BY <2>3
  <2>5. Accepted' = Accepted /\ messages \subseteq Accepted
    BY <2>1, <1>l DEF Accepted, Loops
  <2>6. loop' \in Loops
    BY <1>l, <2>4, <2>5 DEF Loops
  <2>7. InboxTypeOK'
    BY <1>t, <2>1, <2>5, <2>6 DEF InboxTypeOK, Loops
  <2>8. \A i \in messages : \A j \in 1..i : j \in messages
    BY <1>t, <1>l DEF LoopComplete, Accepted
  <2>9. ~loop.first /\ consumed \subseteq messages
    BY <1>t, <1>l, <2>1, <2>2 DEF LoopComplete
  <2>10. LoopComplete'
    BY <2>1, <2>4, <2>8, <2>9 DEF LoopComplete
  <2>11. InputsHeard'
    BY <1>t, <2>1, <2>4 DEF InputsHeard, ActsInformed, ConsumedIsKnown
  <2> QED BY <2>7, <2>10, <2>11 DEF InboxInv
<1>8. CASE StartAction \/ EndAction
  <2>1. loop.at \in {"calling", "acting"} /\ UNCHANGED <<intent, received, consumed, steps>>
    BY <1>8 DEF StartAction, EndAction
  <2>2. loop.calls # 0 /\ loop.calls \in 0..MaxCalls /\ loop.calls - 1 \in 0..MaxCalls
    BY <1>t, <1>l, <2>1, InboxAssumption DEF LoopComplete, Loops
  <2>3. \E at \in {"answered", "acting"}, calls \in 0..MaxCalls :
          /\ loop' = [at |-> at, first |-> loop.first, messages |-> loop.messages,
                      incoming |-> loop.incoming, asked |-> loop.asked, calls |-> calls]
          /\ at = "acting" => calls # 0
    <3>1. CASE loop' = [loop EXCEPT !.at = "answered", !.calls = @ - 1]
      <4>1. loop' = [at |-> "answered", first |-> loop.first, messages |-> loop.messages,
                     incoming |-> loop.incoming, asked |-> loop.asked, calls |-> loop.calls - 1]
        BY <3>1, <1>l DEF Loops
      <4> QED BY <2>2, <4>1
    <3>2. CASE loop' = [loop EXCEPT !.at = "acting"]
      <4>1. loop' = [at |-> "acting", first |-> loop.first, messages |-> loop.messages,
                     incoming |-> loop.incoming, asked |-> loop.asked, calls |-> loop.calls]
        BY <3>2, <1>l DEF Loops
      <4> QED BY <2>2, <4>1
    <3> QED BY <1>8, <3>1, <3>2 DEF StartAction, EndAction
  <2>4. PICK at \in {"answered", "acting"}, calls \in 0..MaxCalls :
          /\ loop' = [at |-> at, first |-> loop.first, messages |-> loop.messages,
                      incoming |-> loop.incoming, asked |-> loop.asked, calls |-> calls]
          /\ at = "acting" => calls # 0
    BY <2>3
  <2>5. uninformed' = FALSE
    <3>1. uninformed = FALSE /\ consumed \subseteq loop.asked
      BY <1>t, <2>1 DEF InputsHeard, ActsInformed, ConsumedIsKnown, InboxTypeOK
    <3>2. CASE Inputs(FALSE) = {}
      <4>1. Accepted \ consumed = {}
        BY <3>2, <1>t, InputsComplete
      <4>2. Accepted \subseteq loop.asked
        BY <3>1, <4>1
      <4> QED BY <1>8, <3>1, <4>2 DEF StartAction, EndAction
    <3>3. CASE Inputs(FALSE) # {}
      BY <1>8, <3>1, <3>3 DEF StartAction, EndAction
    <3> QED BY <3>2, <3>3
  <2>6. Accepted' = Accepted
    BY <2>1 DEF Accepted
  <2>7. loop' \in Loops
    BY <1>l, <2>4 DEF Loops
  <2>8. InboxTypeOK'
    BY <1>t, <2>1, <2>5, <2>6, <2>7 DEF InboxTypeOK, Loops
  <2>9. LoopComplete' /\ InputsHeard'
    BY <1>t, <2>1, <2>4, <2>5 DEF LoopComplete, InputsHeard, ActsInformed, ConsumedIsKnown
  <2> QED BY <2>8, <2>9 DEF InboxInv
<1>9. CASE UNCHANGED inboxVars
  BY <1>t, <1>9
     DEF inboxVars, InboxInv, InboxTypeOK, LoopComplete, InputsHeard, ActsInformed,
         ConsumedIsKnown, Accepted
<1> QED BY <1>1, <1>2, <1>3, <1>4, <1>5, <1>6, <1>7, <1>8, <1>9 DEF InboxNext

\* A run acts on nothing older than what it was told and has read what it counts
\* as consumed, for any quota that one page holds, any number of calls, steps
\* and attempts.
THEOREM InputsHeardHolds == InboxSpec => []InputsHeard
<1>1. InboxInv => InputsHeard
  BY DEF InboxInv
<1> QED BY InboxInitInv, InboxStepInv, <1>1, PTL DEF InboxSpec

(* -------------------------------- the tasks ------------------------------- *)

\* the goal of the revisions to come is that of the present one until it is
\* revised, and no run has adopted a revision that does not exist yet
GoalsKept ==
  /\ \A v \in task.revision..MaxRevision : goals[v] = goals[task.revision]
  /\ \A r \in TaskRuns : advance[r].revision <= task.revision

\* whoever completed the task is one of its runs
CompletedByRun == task.status = "completed" => task.by \in TaskRuns

TasksInv == TasksTypeOK /\ GoalsKept /\ CompletedByRun /\ CompletedOnGoal

\* A task that is created has its invariant.
LEMMA TasksInitInv == TasksInit => TasksInv
<1> SUFFICES ASSUME TasksInit PROVE TasksInv
    OBVIOUS
<1> USE TasksAssumption DEF TasksInit
<1>1. 1 \in 1..MaxRevision
  OBVIOUS
<1>2. TasksTypeOK
  BY <1>1 DEF TasksTypeOK, TaskStatuses
<1>3. GoalsKept
  BY <1>1 DEF GoalsKept
<1> QED BY <1>2, <1>3 DEF TasksInv, CompletedByRun, CompletedOnGoal

\* The runs' side: a claim or a read adopts the revision of an open task only,
\* so what a completed task was completed on stays.
LEMMA AdoptionInv ==
  ASSUME TasksInv, NEW r \in TaskRuns, NEW row,
         row \in {advance[r], Adopt(r)}, NEW next \in {"queued", "claimed", "done"},
         advance' = [advance EXCEPT ![r] = [row EXCEPT !.state = next]],
         UNCHANGED <<task, goals>>, expects' \in [TaskActors -> 1..MaxRevision]
  PROVE  TasksInv'
<1>1. /\ task.revision \in 1..MaxRevision
      /\ \A q \in TaskRuns : /\ advance[q].revision \in 1..MaxRevision
                             /\ advance[q].state \in {"queued", "claimed", "done"}
                             /\ advance[q].revision <= task.revision
  BY DEF TasksInv, TasksTypeOK, GoalsKept
<1>2. /\ row \in [state : {"queued", "claimed", "done"}, revision : 1..MaxRevision]
      /\ row.revision \in {advance[r].revision, task.revision}
      /\ task.status # "open" => row.revision = advance[r].revision
  BY DEF TasksInv, TasksTypeOK, Adopt
<1>3. /\ advance' \in [TaskRuns -> [state : {"queued", "claimed", "done"}, revision : 1..MaxRevision]]
      /\ advance'[r].revision = row.revision
      /\ \A q \in TaskRuns \ {r} : advance'[q] = advance[q]
  BY <1>2 DEF TasksInv, TasksTypeOK
<1>4. \A q \in TaskRuns : /\ advance'[q].revision <= task.revision
                          /\ task.status # "open" => advance'[q].revision = advance[q].revision
  BY <1>1, <1>2, <1>3
<1>5. TasksTypeOK'
  BY <1>3 DEF TasksInv, TasksTypeOK
<1>6. GoalsKept'
  BY <1>4 DEF TasksInv, GoalsKept
<1>7. CompletedByRun' /\ CompletedOnGoal'
  BY <1>4 DEF TasksInv, CompletedByRun, CompletedOnGoal
<1> QED BY <1>5, <1>6, <1>7 DEF TasksInv

\* The task's side: a step to the next revision carries the goal along, or
\* sets it for the revisions to come.
LEMMA RevisionInv ==
  ASSUME TasksInv, NEW next, NEW revised \in BOOLEAN, Advance(next, revised),
         next.revision = task.revision + 1, next.status \in TaskStatuses,
         next \in [status : TaskStatuses, revision : Nat, by : TaskRuns \union {"none"}],
         next.status = "completed" =>
           next.by \in TaskRuns /\ ~revised /\ advance[next.by].revision = task.revision,
         UNCHANGED <<advance, expects>>
  PROVE  TasksInv'
<1>0. /\ task.revision \in 1..MaxRevision /\ task.revision < MaxRevision
      /\ goals \in [1..MaxRevision -> 1..MaxRevision]
      /\ task' = next
  BY DEF TasksInv, TasksTypeOK, Advance
<1>1. /\ task.revision \in 1..MaxRevision /\ task.revision + 1 \in 1..MaxRevision
      /\ goals \in [1..MaxRevision -> 1..MaxRevision]
      /\ task' = next /\ task'.revision = task.revision + 1
  <2> DEFINE v == task.revision
  <2>0. v \in 1..MaxRevision /\ v < MaxRevision /\ MaxRevision \in Nat
    BY <1>0, TasksAssumption
  <2> HIDE DEF v
  <2>a. v + 1 \in 1..MaxRevision
    BY <2>0
  <2>1. task.revision + 1 \in 1..MaxRevision
    BY <2>a DEF v
  <2>2. task'.revision = task.revision + 1
    BY <1>0
  <2> QED BY <1>0, <2>1, <2>2
<1>2. goals' \in [1..MaxRevision -> 1..MaxRevision]
  BY <1>1 DEF Advance
<1>3. TasksTypeOK'
  BY <1>1, <1>2 DEF TasksInv, TasksTypeOK
<1>4. \A v \in 1..MaxRevision :
        goals'[v] = IF revised /\ v >= task.revision + 1 THEN task.revision + 1 ELSE goals[v]
  BY <1>1 DEF Advance
<1>5. \A v \in task.revision..MaxRevision : goals[v] = goals[task.revision]
  BY DEF TasksInv, GoalsKept
<1>6. \A v \in (task.revision + 1)..MaxRevision : goals'[v] = goals'[task.revision + 1]
  BY <1>1, <1>4, <1>5
<1>7. \A r \in TaskRuns : advance[r].revision \in 1..MaxRevision /\ advance[r].revision <= task.revision
  BY DEF TasksInv, TasksTypeOK, GoalsKept
<1>8. GoalsKept'
  BY <1>1, <1>6, <1>7 DEF GoalsKept
<1>9. CompletedByRun'
  BY <1>1 DEF CompletedByRun
<1>10. CompletedOnGoal'
  BY <1>1, <1>4, <1>5 DEF CompletedOnGoal
<1> QED BY <1>3, <1>8, <1>9, <1>10 DEF TasksInv

\* Every step of runs, chat and user keeps the invariant.
LEMMA TasksStepInv == TasksInv /\ [TasksNext]_taskVars => TasksInv'
<1> SUFFICES ASSUME TasksInv, [TasksNext]_taskVars PROVE TasksInv'
    OBVIOUS
<1>t. /\ task \in [status : TaskStatuses, revision : 1..MaxRevision, by : TaskRuns \union {"none"}]
      /\ advance \in [TaskRuns -> [state : {"queued", "claimed", "done"}, revision : 1..MaxRevision]]
      /\ expects \in [TaskActors -> 1..MaxRevision]
  BY DEF TasksInv, TasksTypeOK
<1>1. ASSUME NEW r \in TaskRuns, ClaimTask(r) PROVE TasksInv'
  <2>1. advance' = [advance EXCEPT ![r] = [advance[r] EXCEPT !.state = "done"]]
        \/ advance' = [advance EXCEPT ![r] = [Adopt(r) EXCEPT !.state = "claimed"]]
    BY <1>1 DEF ClaimTask
  <2>2. UNCHANGED <<task, expects, goals>>
    BY <1>1 DEF ClaimTask
  <2> QED BY <1>t, <2>1, <2>2, AdoptionInv
<1>2. ASSUME NEW r \in TaskRuns, LeaveTask(r) PROVE TasksInv'
  <2>1. PICK next \in {"queued", "done"} :
          advance' = [advance EXCEPT ![r] = [advance[r] EXCEPT !.state = next]]
    BY <1>2 DEF LeaveTask
  <2>2. UNCHANGED <<task, expects, goals>>
    BY <1>2 DEF LeaveTask
  <2> QED BY <1>t, <2>1, <2>2, AdoptionInv
<1>3. ASSUME NEW r \in TaskRuns, ReadTask(r) PROVE TasksInv'
  <2>1. Adopt(r) = [Adopt(r) EXCEPT !.state = Adopt(r).state]
        /\ Adopt(r).state \in {"queued", "claimed", "done"}
    BY <1>t DEF Adopt
  <2>2. advance' = [advance EXCEPT ![r] = [Adopt(r) EXCEPT !.state = Adopt(r).state]]
    BY <1>3, <2>1 DEF ReadTask
  <2>3. UNCHANGED <<task, goals>> /\ expects' \in [TaskActors -> 1..MaxRevision]
    BY <1>3, <1>t DEF ReadTask
  <2> QED BY <2>1, <2>2, <2>3, AdoptionInv
<1>4. ASSUME NEW a \in TaskActors, ListTasks(a) PROVE TasksInv'
  <2>1. UNCHANGED <<task, advance, goals>> /\ expects' \in [TaskActors -> 1..MaxRevision]
    BY <1>4, <1>t DEF ListTasks
  <2> QED BY <2>1 DEF TasksInv, TasksTypeOK, GoalsKept, CompletedByRun, CompletedOnGoal
<1>5. ASSUME NEW a \in TaskActors, NEW status \in TaskStatuses \union {"same"},
             NEW revised \in BOOLEAN, NEW reports \in BOOLEAN,
             UpdateTask(a, status, revised, reports)
      PROVE  TasksInv'
  <2>1. UNCHANGED <<advance, expects>>
    BY <1>5 DEF UpdateTask
  <2>2. CASE Conflict(a, status, reports)
    <3>1. UNCHANGED <<task, goals>>
      BY <1>5, <2>2 DEF UpdateTask
    <3> QED BY <2>1, <3>1 DEF TasksInv, TasksTypeOK, GoalsKept, CompletedByRun, CompletedOnGoal
  <2>3. CASE ~Conflict(a, status, reports)
    <3> DEFINE next == [task EXCEPT !.revision = @ + 1,
                          !.status = IF status = "same" THEN @ ELSE status,
                          !.by = IF status = "completed" THEN a ELSE @]
    <3>1. ~TaskFinal(task) /\ Advance(next, revised)
      BY <1>5, <2>3 DEF UpdateTask
    <3>2. status = "completed" => a \in TaskRuns /\ ~revised /\ advance[a].revision = task.revision
      BY <1>5, <2>3 DEF UpdateTask, Conflict
    <3>3. next \in [status : TaskStatuses, revision : Nat, by : TaskRuns \union {"none"}]
      <4>1. task.revision + 1 \in Nat
        BY <1>t, TasksAssumption
      <4>2. (IF status = "same" THEN task.status ELSE status) \in TaskStatuses
            /\ (IF status = "completed" THEN a ELSE task.by) \in TaskRuns \union {"none"}
        BY <1>t, <3>2
      <4> QED BY <1>t, <4>1, <4>2
    <3>4. /\ next.revision = task.revision + 1
          /\ next.status = IF status = "same" THEN task.status ELSE status
          /\ next.by = IF status = "completed" THEN a ELSE task.by
      BY DEF TasksInv, TasksTypeOK
    <3> HIDE DEF next
    <3>5. next.status = "completed" =>
            next.by \in TaskRuns /\ ~revised /\ advance[next.by].revision = task.revision
      BY <3>1, <3>2, <3>4 DEF TaskFinal
    <3> QED BY <2>1, <3>1, <3>3, <3>4, <3>5, RevisionInv
  <2> QED BY <2>2, <2>3
<1>6. ASSUME NEW status \in TaskStatuses, ControlTask(status) PROVE TasksInv'
  <2> DEFINE next == [task EXCEPT !.status = status, !.revision = @ + 1]
  <2>1. Advance(next, FALSE) /\ status # "completed" /\ UNCHANGED <<advance, expects>>
    BY <1>6 DEF ControlTask
  <2>2. next \in [status : TaskStatuses, revision : Nat, by : TaskRuns \union {"none"}]
    <3>1. task.revision + 1 \in Nat
      BY <1>t, TasksAssumption
    <3> QED BY <1>t, <3>1
  <2>3. next.revision = task.revision + 1 /\ next.status = status
    BY DEF TasksInv, TasksTypeOK
  <2> HIDE DEF next
  <2> QED BY <2>1, <2>2, <2>3, RevisionInv
<1>7. CASE UNCHANGED taskVars
  BY <1>7 DEF taskVars, TasksInv, TasksTypeOK, GoalsKept, CompletedByRun, CompletedOnGoal
<1> QED BY <1>1, <1>2, <1>3, <1>4, <1>5, <1>6, <1>7 DEF TasksNext

\* A completed task was completed on the goal it has, for any number of runs
\* and revisions and whatever was listed, read or revised in between.
THEOREM CompletedOnGoalHolds == TasksSpec => []CompletedOnGoal
<1>1. TasksInv => CompletedOnGoal
  BY DEF TasksInv
<1> QED BY TasksInitInv, TasksStepInv, <1>1, PTL DEF TasksSpec

(* ------------------------------ the transport ----------------------------- *)

\* the promise that is shared is that of the socket in use, and no other is open
PledgeShared ==
  /\ link.connecting \in {0, link.socket}
  /\ pledged = {link.connecting} \ {0}

TransportInv == TransportTypeOK /\ PledgeShared /\ StatusOfCurrent

\* A transport that was never connected has its invariant.
LEMMA TransportInitInv == TransportInit => TransportInv
BY DEF TransportInit, TransportInv, TransportTypeOK, PledgeShared, StatusOfCurrent

\* Every callback, timer and call keeps the invariant, those of replaced
\* sockets included.
LEMMA TransportStepInv == TransportInv /\ [TransportNext]_transportVars => TransportInv'
<1> SUFFICES ASSUME TransportInv, [TransportNext]_transportVars PROVE TransportInv'
    OBVIOUS
<1>t. /\ TransportTypeOK /\ PledgeShared /\ StatusOfCurrent
      /\ 0 \notin Sockets
  BY TransportAssumption DEF TransportInv
<1>r. Rejected \in [Calls -> [state : {"unmade", "pending", "answered", "failed"},
                              on : Sockets \union {0}]]
  BY <1>t DEF Rejected, TransportTypeOK
<1>1. CASE Connect
  <2>1. link.connecting = 0 /\ pledged = {} /\ UNCHANGED call
    BY <1>1, <1>t DEF Connect, PledgeShared
  <2>2. ASSUME NEW s \in Sockets, wire' = [wire EXCEPT ![s] = "connecting"],
               link' = [socket |-> s, connecting |-> s, status |-> "connecting"],
               pledged' = pledged \union {s}
        PROVE  TransportInv'
    <3>1. TransportTypeOK'
      BY <1>t, <2>1, <2>2 DEF TransportTypeOK
    <3>2. PledgeShared' /\ StatusOfCurrent'
      BY <1>t, <2>1, <2>2 DEF PledgeShared, StatusOfCurrent
    <3> QED BY <3>1, <3>2 DEF TransportInv
  <2>3. CASE link' = [link EXCEPT !.status = "error"] /\ UNCHANGED <<wire, pledged>>
    <3>1. TransportTypeOK'
      BY <1>t, <2>1, <2>3 DEF TransportTypeOK
    <3>2. /\ link'.socket = link.socket /\ link'.connecting = link.connecting
          /\ link'.status = "error"
      BY <1>t, <2>3 DEF TransportTypeOK
    <3>3. PledgeShared' /\ StatusOfCurrent'
      BY <1>t, <2>3, <3>2 DEF PledgeShared, StatusOfCurrent
    <3> QED BY <3>1, <3>3 DEF TransportInv
  <2> QED BY <1>1, <2>2, <2>3 DEF Connect
<1>2. ASSUME NEW s \in Sockets, link.socket = s,
             NEW status \in {"offline", "error"}, NEW end \in {"closing", "closed"},
             link' = [socket |-> 0, connecting |-> Forgotten(s), status |-> status],
             pledged' = pledged \ {s}, call' = Rejected, wire' = [wire EXCEPT ![s] = end]
      PROVE  TransportInv'
  <2>1. Forgotten(s) = 0 /\ pledged' = {}
    BY <1>2, <1>t DEF Forgotten, PledgeShared
  <2>2. TransportTypeOK'
    BY <1>2, <1>t, <1>r, <2>1 DEF TransportTypeOK
  <2>3. PledgeShared' /\ StatusOfCurrent'
    BY <1>2, <2>1 DEF PledgeShared, StatusOfCurrent
  <2> QED BY <2>2, <2>3 DEF TransportInv
<1>3. CASE Disconnect
  <2>1. pledged' = {}
    BY <1>3, <1>t DEF Disconnect, PledgeShared
  <2>2. TransportTypeOK'
    BY <1>3, <1>t, <1>r, <2>1 DEF Disconnect, TransportTypeOK
  <2>3. PledgeShared' /\ StatusOfCurrent'
    BY <1>3, <2>1 DEF Disconnect, PledgeShared, StatusOfCurrent
  <2> QED BY <2>2, <2>3 DEF TransportInv
<1>4. ASSUME NEW s \in Sockets, Opened(s) PROVE TransportInv'
  <2>1. wire[s] = "connecting" /\ wire' = [wire EXCEPT ![s] = "open"] /\ UNCHANGED call
    BY <1>4 DEF Opened
  <2>2. CASE link.socket = s
    <3>1. /\ link' = [link EXCEPT !.status = "online", !.connecting = Forgotten(s)]
          /\ pledged' = pledged \ {s} /\ Forgotten(s) = 0
      BY <1>4, <2>2, <1>t DEF Opened, Settle, Forgotten, PledgeShared
    <3>2. /\ link'.socket = s /\ link'.connecting = 0 /\ link'.status = "online"
          /\ wire'[s] = "open" /\ pledged' = {}
      BY <1>t, <2>1, <2>2, <3>1 DEF TransportTypeOK, PledgeShared
    <3>3. TransportTypeOK'
      BY <1>t, <2>1, <3>1 DEF TransportTypeOK
    <3>4. PledgeShared' /\ StatusOfCurrent'
      BY <1>t, <3>2 DEF PledgeShared, StatusOfCurrent
    <3> QED BY <3>3, <3>4 DEF TransportInv
  <2>3. CASE link.socket # s
    <3>1. UNCHANGED <<link, pledged>>
      BY <1>4, <2>3 DEF Opened
    <3>2. TransportTypeOK'
      BY <1>t, <2>1, <3>1 DEF TransportTypeOK
    <3>3. PledgeShared' /\ StatusOfCurrent'
      BY <1>t, <2>1, <2>3, <3>1 DEF TransportTypeOK, PledgeShared, StatusOfCurrent
    <3> QED BY <3>2, <3>3 DEF TransportInv
  <2> QED BY <2>2, <2>3
<1>5. ASSUME NEW s \in Sockets, NEW next \in {"closing", "closed"},
             wire' = [wire EXCEPT ![s] = next], UNCHANGED <<link, pledged, call>>
      PROVE  TransportInv'
  BY <1>t, <1>5 DEF TransportTypeOK, PledgeShared, StatusOfCurrent, TransportInv
<1>6. ASSUME NEW s \in Sockets,
             PeerCloses(s) \/ Closed(s) \/ Errored(s) \/ ConnectTimeout(s)
      PROVE  TransportInv'
  <2>1. CASE PeerCloses(s)
    BY <2>1, <1>5 DEF PeerCloses
  <2>2. CASE Closed(s) /\ link.socket = s
    BY <2>2, <1>2 DEF Closed, Owned, Settle
  <2>3. CASE Closed(s) /\ link.socket # s
    BY <2>3, <1>5 DEF Closed, Owned
  <2>4. CASE Errored(s) \/ ConnectTimeout(s)
    BY <2>4, <1>2 DEF Errored, ConnectTimeout, Retire, Settle
  <2> QED BY <1>6, <2>1, <2>2, <2>3, <2>4
<1>7. ASSUME NEW e \in Calls, Call(e) \/ Respond(e) \/ CallFails(e) PROVE TransportInv'
  <2>1. UNCHANGED <<link, pledged, wire>>
    BY <1>7 DEF Call, Respond, CallFails
  <2>2. call' \in [Calls -> [state : {"unmade", "pending", "answered", "failed"},
                             on : Sockets \union {0}]]
    BY <1>7, <1>t DEF Call, Respond, CallFails, TransportTypeOK
  <2> QED BY <1>t, <2>1, <2>2 DEF TransportTypeOK, PledgeShared, StatusOfCurrent, TransportInv
<1>8. CASE UNCHANGED transportVars
  BY <1>t, <1>8 DEF transportVars, TransportTypeOK, PledgeShared, StatusOfCurrent, TransportInv
<1> QED BY <1>1, <1>3, <1>4, <1>6, <1>7, <1>8 DEF TransportNext

\* The status tells about the socket in use and a connect() waits for no other,
\* for any number of sockets and calls and any order of their callbacks.
THEOREM StatusOfCurrentHolds == TransportSpec => []StatusOfCurrent
<1>1. TransportInv => StatusOfCurrent
  BY DEF TransportInv
<1> QED BY TransportInitInv, TransportStepInv, <1>1, PTL DEF TransportSpec

(* -------------------------------- the host -------------------------------- *)

StartSteps == {"connect", "listen", "admin", "failed"}
StopSteps == {"gateway", "close", "drain", "quiet", "disconnect", "dispose"}
ReloadSteps == {"r-drain", "r-quiet", "r-disconnect", "r-dispose", "create", "r-connect",
                "f-quiet", "f-disconnect", "f-dispose"}

\* each step belongs to the operation at the head of the queue, and the start
\* is asked for before everything else
StepsInTurn ==
  /\ step \in StartSteps => tail # <<>> /\ Head(tail) = "start"
  /\ step \in StopSteps => tail # <<>> /\ Head(tail) \in {"start", "stop"}
  /\ step \in ReloadSteps => tail # <<>> /\ Head(tail) = "reload"
  /\ \A k \in 1..Len(tail) : tail[k] = "start" => k = 1 /\ server.started
  /\ \A k \in 1..Len(tail) : tail[k] = "stop" => server.asked

\* before the start is over nothing is reloaded, and the admin interface does
\* not listen
StartFirst ==
  /\ ~server.started => server.listening = {} /\ \A k \in 1..Len(tail) : tail[k] # "reload"
  /\ ~server.started /\ ~server.asked => tail = <<>> /\ ~server.stopped
  /\ ~server.started /\ ~server.stopped => assemblies[current] = "open"
  /\ tail # <<>> /\ Head(tail) = "start" =>
       /\ "admin" \notin server.listening
       /\ \A k \in 1..Len(tail) : tail[k] # "reload"
       /\ ~server.stopped => assemblies[current] = "open"

\* what stop() has done at each step, and that nothing begins after it
ShutDown ==
  /\ step \in StartSteps \union ReloadSteps => ~server.stopped
  /\ step \in StopSteps => server.stopped
  /\ server.stopped => hooks.paused
  /\ server.stopped /\ ~server.asked => /\ "admin" \notin server.listening
                                        /\ \A k \in 1..Len(tail) : tail[k] # "reload"
  /\ step \in StopSteps \ {"gateway"} => "gateway" \notin server.listening
  /\ step \in StopSteps \ {"gateway", "close"} => server.listening = {}
  /\ server.over => server.stopped /\ assemblies[current] = "closed" /\ server.listening = {}

\* no webhook gets in while an assembly is replaced or closed
Calm ==
  /\ step \in ReloadSteps \union StopSteps => hooks.paused
  /\ step \in (ReloadSteps \union StopSteps) \ {"gateway", "close", "drain", "r-drain"} =>
       hooks.request = NoAdapter

InService(adapter) == adapter.by = "host" => adapter.of = current /\ assemblies[current] # "closed"

\* what the lifecycle attached belongs to the assembly of the moment
Attached ==
  /\ InService(registered) /\ InService(hooks.request)
  /\ step \in {"dispose", "r-dispose", "create", "f-dispose"} => registered.by # "host"
  /\ ~hooks.paused \/ step = "r-connect" => InService(hooks.route)
  /\ step \in {"r-drain", "r-quiet", "r-disconnect", "r-dispose", "create"} => hooks.route.by # "host"

OneAssembly ==
  /\ \A a \in 1..MaxAssemblies \ {current} : assemblies[a] \in {"unborn", "closed"}
  /\ step = "create" => assemblies[current] = "closed"

HostInv == HostTypeOK /\ StepsInTurn /\ StartFirst /\ ShutDown /\ Calm /\ Attached /\ OneAssembly

\* A call that is queued comes last.
LEMMA AskKeeps ==
  ASSUME HostTypeOK, NEW operation \in {"start", "reload", "stop"}, Ask(operation)
  PROVE  /\ tail' \in Seq({"start", "reload", "stop"}) /\ Len(tail') <= MaxRequests
         /\ tail' # <<>> /\ Len(tail') = Len(tail) + 1 /\ Len(tail) \in Nat
         /\ \A k \in 1..Len(tail') : tail'[k] = IF k = Len(tail) + 1 THEN operation ELSE tail[k]
         /\ Head(tail') = IF tail = <<>> THEN operation ELSE Head(tail)
<1>1. tail \in Seq({"start", "reload", "stop"}) /\ tail' = Append(tail, operation)
      /\ Len(tail) < MaxRequests
  BY DEF HostTypeOK, Ask
<1> QED BY <1>1, HostAssumption

\* An operation that is over makes room for the next one.
LEMMA FinishKeeps ==
  ASSUME HostTypeOK, tail # <<>>, Finish
  PROVE  /\ tail' \in Seq({"start", "reload", "stop"}) /\ Len(tail') <= MaxRequests
         /\ step' = "begin" /\ Len(tail) \in Nat /\ Len(tail') = Len(tail) - 1
         /\ \A k \in 1..Len(tail') : tail'[k] = tail[k + 1] /\ k + 1 \in 1..Len(tail)
         /\ tail' # <<>> => Head(tail') = tail[2] /\ 2 \in 1..Len(tail)
<1>1. tail \in Seq({"start", "reload", "stop"}) /\ tail' = Tail(tail) /\ Len(tail) <= MaxRequests
  BY DEF HostTypeOK, Finish
<1> QED BY <1>1, HostAssumption DEF Finish

\* The head of a queue that is not empty is its first.
LEMMA FirstOne ==
  ASSUME HostTypeOK, tail # <<>>
  PROVE  Head(tail) = tail[1] /\ Len(tail) \in Nat \ {0} /\ 1 \in 1..Len(tail)
<1>1. tail \in Seq({"start", "reload", "stop"})
  BY DEF HostTypeOK
<1> QED BY <1>1

\* A call for "start" waits its turn.
LEMMA AskStartInv ==
  ASSUME HostInv, AskStart
  PROVE  HostInv'
<1>1. HostTypeOK /\ StepsInTurn /\ StartFirst /\ ShutDown /\ Calm /\ Attached /\ OneAssembly
  BY DEF HostInv
<1>2. /\ tail' \in Seq({"start", "reload", "stop"}) /\ Len(tail') <= MaxRequests
      /\ tail' # <<>> /\ Len(tail') = Len(tail) + 1 /\ Len(tail) \in Nat
      /\ \A k \in 1..Len(tail') : tail'[k] = IF k = Len(tail) + 1 THEN "start" ELSE tail[k]
      /\ Head(tail') = IF tail = <<>> THEN "start" ELSE Head(tail)
  BY <1>1, AskKeeps DEF AskStart
<1>3. \A k \in 1..Len(tail') : \/ (k \in 1..Len(tail) /\ tail'[k] = tail[k])
                                \/ (k = Len(tail) + 1 /\ tail'[k] = "start")
  BY <1>2
<1>4. /\ tail = <<>> => Len(tail) = 0 /\ Head(tail') = "start"
      /\ tail # <<>> => Len(tail) > 0 /\ Head(tail') = Head(tail)
  BY <1>2, <1>1 DEF HostTypeOK
<1> USE DEF HostTypeOK, StepsInTurn, StartFirst, ShutDown, Calm, Attached, OneAssembly,
           InService, StartSteps, StopSteps, ReloadSteps, NoAdapter, Adapters, Steps,
           AskStart
<1>5. HostTypeOK' BY <1>1, <1>2
<1>6. StepsInTurn' BY <1>1, <1>2, <1>3, <1>4
<1>7. StartFirst' BY <1>1, <1>2, <1>3, <1>4
<1>8. ShutDown' BY <1>1, <1>2, <1>3, <1>4
<1>9. Calm' BY <1>1, <1>2, <1>3, <1>4
<1>10. Attached' BY <1>1, <1>2, <1>3, <1>4
<1>11. OneAssembly' BY <1>1, <1>2, <1>3, <1>4
<1> QED BY <1>5, <1>6, <1>7, <1>8, <1>9, <1>10, <1>11 DEF HostInv

\* A call for "reload" waits its turn.
LEMMA AskReloadInv ==
  ASSUME HostInv, AskReload
  PROVE  HostInv'
<1>1. HostTypeOK /\ StepsInTurn /\ StartFirst /\ ShutDown /\ Calm /\ Attached /\ OneAssembly
  BY DEF HostInv
<1>2. /\ tail' \in Seq({"start", "reload", "stop"}) /\ Len(tail') <= MaxRequests
      /\ tail' # <<>> /\ Len(tail') = Len(tail) + 1 /\ Len(tail) \in Nat
      /\ \A k \in 1..Len(tail') : tail'[k] = IF k = Len(tail) + 1 THEN "reload" ELSE tail[k]
      /\ Head(tail') = IF tail = <<>> THEN "reload" ELSE Head(tail)
  BY <1>1, AskKeeps DEF AskReload
<1>3. \A k \in 1..Len(tail') : \/ (k \in 1..Len(tail) /\ tail'[k] = tail[k])
                                \/ (k = Len(tail) + 1 /\ tail'[k] = "reload")
  BY <1>2
<1>4. /\ tail = <<>> => Len(tail) = 0 /\ Head(tail') = "reload"
      /\ tail # <<>> => Len(tail) > 0 /\ Head(tail') = Head(tail)
  BY <1>2, <1>1 DEF HostTypeOK
<1> USE DEF HostTypeOK, StepsInTurn, StartFirst, ShutDown, Calm, Attached, OneAssembly,
           InService, StartSteps, StopSteps, ReloadSteps, NoAdapter, Adapters, Steps,
           AskReload
<1>5. HostTypeOK' BY <1>1, <1>2
<1>6. StepsInTurn'
  <2>1. /\ step' \in StartSteps => tail' # <<>> /\ Head(tail') = "start"
        /\ step' \in StopSteps => tail' # <<>> /\ Head(tail') \in {"start", "stop"}
        /\ step' \in ReloadSteps => tail' # <<>> /\ Head(tail') = "reload"
    BY <1>1, <1>2, <1>4 DEF StepsInTurn, AskReload
  <2>2. \A k \in 1..Len(tail') : tail'[k] = "start" => k = 1 /\ server'.started
    BY <1>1, <1>3 DEF StepsInTurn, HostTypeOK, AskReload
  <2>3. \A k \in 1..Len(tail') : tail'[k] = "stop" => server'.asked
    BY <1>1, <1>3 DEF StepsInTurn, HostTypeOK, AskReload
  <2> QED BY <2>1, <2>2, <2>3 DEF StepsInTurn, StartSteps, StopSteps, ReloadSteps
<1>7. StartFirst' BY <1>1, <1>2, <1>3, <1>4
<1>8. ShutDown' BY <1>1, <1>2, <1>3, <1>4
<1>9. Calm' BY <1>1, <1>2, <1>3, <1>4
<1>10. Attached' BY <1>1, <1>2, <1>3, <1>4
<1>11. OneAssembly' BY <1>1, <1>2, <1>3, <1>4
<1> QED BY <1>5, <1>6, <1>7, <1>8, <1>9, <1>10, <1>11 DEF HostInv

\* A call for "stop" waits its turn.
LEMMA AskStopInv ==
  ASSUME HostInv, AskStop
  PROVE  HostInv'
<1>1. HostTypeOK /\ StepsInTurn /\ StartFirst /\ ShutDown /\ Calm /\ Attached /\ OneAssembly
  BY DEF HostInv
<1>2. /\ tail' \in Seq({"start", "reload", "stop"}) /\ Len(tail') <= MaxRequests
      /\ tail' # <<>> /\ Len(tail') = Len(tail) + 1 /\ Len(tail) \in Nat
      /\ \A k \in 1..Len(tail') : tail'[k] = IF k = Len(tail) + 1 THEN "stop" ELSE tail[k]
      /\ Head(tail') = IF tail = <<>> THEN "stop" ELSE Head(tail)
  BY <1>1, AskKeeps DEF AskStop
<1>3. \A k \in 1..Len(tail') : \/ (k \in 1..Len(tail) /\ tail'[k] = tail[k])
                                \/ (k = Len(tail) + 1 /\ tail'[k] = "stop")
  BY <1>2
<1>4. /\ tail = <<>> => Len(tail) = 0 /\ Head(tail') = "stop"
      /\ tail # <<>> => Len(tail) > 0 /\ Head(tail') = Head(tail)
  BY <1>2, <1>1 DEF HostTypeOK
<1> USE DEF HostTypeOK, StepsInTurn, StartFirst, ShutDown, Calm, Attached, OneAssembly,
           InService, StartSteps, StopSteps, ReloadSteps, NoAdapter, Adapters, Steps,
           AskStop
<1>5. HostTypeOK' BY <1>1, <1>2, ZenonT(40)
<1>6. StepsInTurn'
  <2>1. /\ step' \in StartSteps => tail' # <<>> /\ Head(tail') = "start"
        /\ step' \in StopSteps => tail' # <<>> /\ Head(tail') \in {"start", "stop"}
        /\ step' \in ReloadSteps => tail' # <<>> /\ Head(tail') = "reload"
    BY <1>1, <1>2, <1>4 DEF StepsInTurn, AskStop
  <2>2. \A k \in 1..Len(tail') : tail'[k] = "start" => k = 1 /\ server'.started
    BY <1>1, <1>3 DEF StepsInTurn, HostTypeOK, AskStop
  <2>3. \A k \in 1..Len(tail') : tail'[k] = "stop" => server'.asked
    BY <1>1, <1>3 DEF StepsInTurn, HostTypeOK, AskStop
  <2> QED BY <2>1, <2>2, <2>3 DEF StepsInTurn, StartSteps, StopSteps, ReloadSteps
<1>7. StartFirst' BY <1>1, <1>2, <1>3, <1>4, SMTT(40)
<1>8. ShutDown' BY <1>1, <1>2, <1>3, <1>4
<1>9. Calm' BY <1>1, <1>2, <1>3, <1>4
<1>10. Attached' BY <1>1, <1>2, <1>3, <1>4
<1>11. OneAssembly' BY <1>1, <1>2, <1>3, <1>4
<1> QED BY <1>5, <1>6, <1>7, <1>8, <1>9, <1>10, <1>11 DEF HostInv

\* The last run of an assembly that is quiescing ends.
LEMMA QuietedInv ==
  ASSUME HostInv, Quieted
  PROVE  HostInv'
<1>1. HostTypeOK /\ StepsInTurn /\ StartFirst /\ ShutDown /\ Calm /\ Attached /\ OneAssembly
  BY DEF HostInv
<1> USE DEF HostTypeOK, StepsInTurn, StartFirst, ShutDown, Calm, Attached, OneAssembly,
           InService, StartSteps, StopSteps, ReloadSteps, NoAdapter, Adapters, Steps,
           Quieted, Detach, Register
<1>2. HostTypeOK' BY <1>1
<1>3. StepsInTurn' BY <1>1
<1>4. StartFirst' BY <1>1
<1>5. ShutDown' BY <1>1
<1>6. Calm' BY <1>1
<1>7. Attached' BY <1>1
<1>8. OneAssembly' BY <1>1
<1> QED BY <1>2, <1>3, <1>4, <1>5, <1>6, <1>7, <1>8 DEF HostInv

\* A webhook arrives and keeps the route it found.
LEMMA WebhookInv ==
  ASSUME HostInv, Webhook
  PROVE  HostInv'
<1>1. HostTypeOK /\ StepsInTurn /\ StartFirst /\ ShutDown /\ Calm /\ Attached /\ OneAssembly
  BY DEF HostInv
<1> USE DEF HostTypeOK, StepsInTurn, StartFirst, ShutDown, Calm, Attached, OneAssembly,
           InService, StartSteps, StopSteps, ReloadSteps, NoAdapter, Adapters, Steps,
           Webhook, Detach, Register
<1>2. HostTypeOK' BY <1>1
<1>3. StepsInTurn' BY <1>1
<1>4. StartFirst' BY <1>1
<1>5. ShutDown' BY <1>1
<1>6. Calm' BY <1>1
<1>7. Attached' BY <1>1
<1>8. OneAssembly' BY <1>1
<1> QED BY <1>2, <1>3, <1>4, <1>5, <1>6, <1>7, <1>8 DEF HostInv

\* The handler of a webhook ends.
LEMMA WebhookEndsInv ==
  ASSUME HostInv, WebhookEnds
  PROVE  HostInv'
<1>1. HostTypeOK /\ StepsInTurn /\ StartFirst /\ ShutDown /\ Calm /\ Attached /\ OneAssembly
  BY DEF HostInv
<1> USE DEF HostTypeOK, StepsInTurn, StartFirst, ShutDown, Calm, Attached, OneAssembly,
           InService, StartSteps, StopSteps, ReloadSteps, NoAdapter, Adapters, Steps,
           WebhookEnds, Detach, Register
<1>2. HostTypeOK' BY <1>1
<1>3. StepsInTurn' BY <1>1
<1>4. StartFirst' BY <1>1
<1>5. ShutDown' BY <1>1
<1>6. Calm' BY <1>1
<1>7. Attached' BY <1>1
<1>8. OneAssembly' BY <1>1
<1> QED BY <1>2, <1>3, <1>4, <1>5, <1>6, <1>7, <1>8 DEF HostInv

\* The admin interface attaches an adapter to the assembly of the moment.
LEMMA EnableChannelInv ==
  ASSUME HostInv, EnableChannel
  PROVE  HostInv'
<1>1. HostTypeOK /\ StepsInTurn /\ StartFirst /\ ShutDown /\ Calm /\ Attached /\ OneAssembly
  BY DEF HostInv
<1> USE DEF HostTypeOK, StepsInTurn, StartFirst, ShutDown, Calm, Attached, OneAssembly,
           InService, StartSteps, StopSteps, ReloadSteps, NoAdapter, Adapters, Steps,
           EnableChannel, Detach, Register
<1>2. HostTypeOK' BY <1>1
<1>3. StepsInTurn' BY <1>1
<1>4. StartFirst' BY <1>1
<1>5. ShutDown' BY <1>1
<1>6. Calm' BY <1>1
<1>7. Attached' BY <1>1
<1>8. OneAssembly' BY <1>1
<1> QED BY <1>2, <1>3, <1>4, <1>5, <1>6, <1>7, <1>8 DEF HostInv

\* The admin interface takes the adapter away.
LEMMA DisableChannelInv ==
  ASSUME HostInv, DisableChannel
  PROVE  HostInv'
<1>1. HostTypeOK /\ StepsInTurn /\ StartFirst /\ ShutDown /\ Calm /\ Attached /\ OneAssembly
  BY DEF HostInv
<1> USE DEF HostTypeOK, StepsInTurn, StartFirst, ShutDown, Calm, Attached, OneAssembly,
           InService, StartSteps, StopSteps, ReloadSteps, NoAdapter, Adapters, Steps,
           DisableChannel, Detach, Register
<1>2. HostTypeOK' BY <1>1
<1>3. StepsInTurn' BY <1>1
<1>4. StartFirst' BY <1>1
<1>5. ShutDown' BY <1>1
<1>6. Calm' BY <1>1
<1>7. Attached' BY <1>1
<1>8. OneAssembly' BY <1>1
<1> QED BY <1>2, <1>3, <1>4, <1>5, <1>6, <1>7, <1>8 DEF HostInv

\* Disabling ends by removing whatever route the channel has.
LEMMA ChannelDisabledInv ==
  ASSUME HostInv, ChannelDisabled
  PROVE  HostInv'
<1>1. HostTypeOK /\ StepsInTurn /\ StartFirst /\ ShutDown /\ Calm /\ Attached /\ OneAssembly
  BY DEF HostInv
<1> USE DEF HostTypeOK, StepsInTurn, StartFirst, ShutDown, Calm, Attached, OneAssembly,
           InService, StartSteps, StopSteps, ReloadSteps, NoAdapter, Adapters, Steps,
           ChannelDisabled, Detach, Register
<1>2. HostTypeOK' BY <1>1
<1>3. StepsInTurn' BY <1>1
<1>4. StartFirst' BY <1>1
<1>5. ShutDown' BY <1>1
<1>6. Calm' BY <1>1
<1>7. Attached' BY <1>1
<1>8. OneAssembly' BY <1>1
<1> QED BY <1>2, <1>3, <1>4, <1>5, <1>6, <1>7, <1>8 DEF HostInv

\* The start attaches the channels, or ends at once after a stop.
LEMMA StartBeginsInv ==
  ASSUME HostInv, StartBegins
  PROVE  HostInv'
<1>1. HostTypeOK /\ StepsInTurn /\ StartFirst /\ ShutDown /\ Calm /\ Attached /\ OneAssembly
  BY DEF HostInv
<1>2. tail # <<>> /\ Head(tail) = tail[1] /\ Len(tail) \in Nat \ {0} /\ 1 \in 1..Len(tail)
  BY <1>1, FirstOne DEF StartBegins, Running, Stopping
<1>3. Finish =>
       /\ tail' \in Seq({"start", "reload", "stop"}) /\ Len(tail') <= MaxRequests
       /\ step' = "begin" /\ Len(tail) \in Nat /\ Len(tail') = Len(tail) - 1
       /\ \A k \in 1..Len(tail') : tail'[k] = tail[k + 1] /\ k + 1 \in 1..Len(tail)
       /\ tail' # <<>> => Head(tail') = tail[2] /\ 2 \in 1..Len(tail)
  BY <1>1, <1>2, FinishKeeps
<1>4. \/ /\ Finish /\ UNCHANGED <<server, current, assemblies, patch, registered, hooks>>
         /\ server.stopped /\ step = "begin" /\ tail[1] = "start"
      \/ /\ registered' \in {registered, [of |-> current, by |-> "host"]}
         /\ hooks' \in {hooks, [hooks EXCEPT !.route = [of |-> current, by |-> "host"]]}
         /\ step' \in {"connect", "failed"} /\ step = "begin" /\ tail[1] = "start"
         /\ ~server.stopped /\ UNCHANGED <<tail, server, current, assemblies, patch>>
  BY <1>1, <1>2, <1>3 DEF StartBegins, Running, Stopping, Detach, Register, Attach,
     GoOn, Quiesce, Quiet, Drained, DisposeAssembly
<1> USE DEF HostTypeOK, StepsInTurn, StartFirst, ShutDown, Calm, Attached, OneAssembly,
           InService, StartSteps, StopSteps, ReloadSteps, NoAdapter, Adapters, Steps,
           StartBegins, Running, Stopping, Detach, Register, Attach, GoOn, Quiesce,
           Quiet, Drained, DisposeAssembly
<1>5. CASE /\ Finish /\ UNCHANGED <<server, current, assemblies, patch, registered, hooks>>
          /\ server.stopped /\ step = "begin" /\ tail[1] = "start"
  <2>1. HostTypeOK' BY <1>1, <1>2, <1>3, <1>5
  <2>2. StepsInTurn' BY <1>1, <1>2, <1>3, <1>5
  <2>3. StartFirst' BY <1>1, <1>2, <1>3, <1>5
  <2>4. ShutDown' BY <1>1, <1>2, <1>3, <1>5
  <2>5. Calm' BY <1>1, <1>2, <1>3, <1>5
  <2>6. Attached' BY <1>1, <1>2, <1>3, <1>5
  <2>7. OneAssembly' BY <1>1, <1>2, <1>3, <1>5
  <2> QED BY <2>1, <2>2, <2>3, <2>4, <2>5, <2>6, <2>7 DEF HostInv
<1>6. CASE /\ registered' \in {registered, [of |-> current, by |-> "host"]}
          /\ hooks' \in {hooks, [hooks EXCEPT !.route = [of |-> current, by |-> "host"]]}
          /\ step' \in {"connect", "failed"} /\ step = "begin" /\ tail[1] = "start"
          /\ ~server.stopped /\ UNCHANGED <<tail, server, current, assemblies, patch>>
  <2>1. HostTypeOK' BY <1>1, <1>2, <1>3, <1>6
  <2>2. StepsInTurn' BY <1>1, <1>2, <1>3, <1>6
  <2>3. StartFirst' BY <1>1, <1>2, <1>3, <1>6
  <2>4. ShutDown' BY <1>1, <1>2, <1>3, <1>6
  <2>5. Calm' BY <1>1, <1>2, <1>3, <1>6
  <2>6. Attached' BY <1>1, <1>2, <1>3, <1>6
  <2>7. OneAssembly' BY <1>1, <1>2, <1>3, <1>6
  <2> QED BY <2>1, <2>2, <2>3, <2>4, <2>5, <2>6, <2>7 DEF HostInv
<1> QED BY <1>4, <1>5, <1>6

\* The start connects and listens; any of it may fail.
LEMMA StartGoesOnInv ==
  ASSUME HostInv, StartGoesOn
  PROVE  HostInv'
<1>1. HostTypeOK /\ StepsInTurn /\ StartFirst /\ ShutDown /\ Calm /\ Attached /\ OneAssembly
  BY DEF HostInv
<1>2. tail # <<>> /\ Head(tail) = tail[1] /\ Len(tail) \in Nat \ {0} /\ 1 \in 1..Len(tail)
  BY <1>1, FirstOne DEF StartGoesOn, Running, Stopping
<1>3. Finish =>
       /\ tail' \in Seq({"start", "reload", "stop"}) /\ Len(tail') <= MaxRequests
       /\ step' = "begin" /\ Len(tail) \in Nat /\ Len(tail') = Len(tail) - 1
       /\ \A k \in 1..Len(tail') : tail'[k] = tail[k + 1] /\ k + 1 \in 1..Len(tail)
       /\ tail' # <<>> => Head(tail') = tail[2] /\ 2 \in 1..Len(tail)
  BY <1>1, <1>2, FinishKeeps
<1>4. \/ /\ Finish /\ step = "admin" /\ tail[1] = "start"
         /\ server' = [server EXCEPT !.listening = {"gateway", "admin"}]
         /\ UNCHANGED <<current, assemblies, registered, hooks, patch>>
      \/ /\ step' \in {"listen", "admin", "failed"} /\ step \in {"connect", "listen", "admin"}
         /\ tail[1] = "start"
         /\ server' \in {server, [server EXCEPT !.listening = {"gateway"}]}
         /\ UNCHANGED <<tail, current, assemblies, registered, hooks, patch>>
  BY <1>1, <1>2, <1>3 DEF StartGoesOn, Running, Stopping, Detach, Register, Attach,
     GoOn, Quiesce, Quiet, Drained, DisposeAssembly
<1> USE DEF HostTypeOK, StepsInTurn, StartFirst, ShutDown, Calm, Attached, OneAssembly,
           InService, StartSteps, StopSteps, ReloadSteps, NoAdapter, Adapters, Steps,
           StartGoesOn, Running, Stopping, Detach, Register, Attach, GoOn, Quiesce,
           Quiet, Drained, DisposeAssembly
<1>5. CASE /\ Finish /\ step = "admin" /\ tail[1] = "start"
          /\ server' = [server EXCEPT !.listening = {"gateway", "admin"}]
          /\ UNCHANGED <<current, assemblies, registered, hooks, patch>>
  <2>1. HostTypeOK' BY <1>1, <1>2, <1>3, <1>5
  <2>2. StepsInTurn' BY <1>1, <1>2, <1>3, <1>5
  <2>3. StartFirst' BY <1>1, <1>2, <1>3, <1>5
  <2>4. ShutDown' BY <1>1, <1>2, <1>3, <1>5
  <2>5. Calm' BY <1>1, <1>2, <1>3, <1>5
  <2>6. Attached' BY <1>1, <1>2, <1>3, <1>5
  <2>7. OneAssembly' BY <1>1, <1>2, <1>3, <1>5
  <2> QED BY <2>1, <2>2, <2>3, <2>4, <2>5, <2>6, <2>7 DEF HostInv
<1>6. CASE /\ step' \in {"listen", "admin", "failed"} /\ step \in {"connect", "listen", "admin"}
          /\ tail[1] = "start"
          /\ server' \in {server, [server EXCEPT !.listening = {"gateway"}]}
          /\ UNCHANGED <<tail, current, assemblies, registered, hooks, patch>>
  <2>1. HostTypeOK' BY <1>1, <1>2, <1>3, <1>6
  <2>2. StepsInTurn' BY <1>1, <1>2, <1>3, <1>6
  <2>3. StartFirst' BY <1>1, <1>2, <1>3, <1>6
  <2>4. ShutDown' BY <1>1, <1>2, <1>3, <1>6
  <2>5. Calm' BY <1>1, <1>2, <1>3, <1>6
  <2>6. Attached' BY <1>1, <1>2, <1>3, <1>6
  <2>7. OneAssembly' BY <1>1, <1>2, <1>3, <1>6
  <2> QED BY <2>1, <2>2, <2>3, <2>4, <2>5, <2>6, <2>7 DEF HostInv
<1> QED BY <1>4, <1>5, <1>6

\* The stop begins, by call or because the start failed.
LEMMA StopBeginsInv ==
  ASSUME HostInv, StopBegins
  PROVE  HostInv'
<1>1. HostTypeOK /\ StepsInTurn /\ StartFirst /\ ShutDown /\ Calm /\ Attached /\ OneAssembly
  BY DEF HostInv
<1>2. tail # <<>> /\ Head(tail) = tail[1] /\ Len(tail) \in Nat \ {0} /\ 1 \in 1..Len(tail)
  BY <1>1, FirstOne DEF StopBegins, Running, Stopping
<1>3. Finish =>
       /\ tail' \in Seq({"start", "reload", "stop"}) /\ Len(tail') <= MaxRequests
       /\ step' = "begin" /\ Len(tail) \in Nat /\ Len(tail') = Len(tail) - 1
       /\ \A k \in 1..Len(tail') : tail'[k] = tail[k + 1] /\ k + 1 \in 1..Len(tail)
       /\ tail' # <<>> => Head(tail') = tail[2] /\ 2 \in 1..Len(tail)
  BY <1>1, <1>2, FinishKeeps
<1>4. \/ /\ Finish /\ server.stopped /\ UNCHANGED <<server, assemblies, hooks, current, registered, patch>>
         /\ <<step, tail[1]>> \in {<<"begin", "stop">>, <<"failed", "start">>}
      \/ /\ <<step, tail[1]>> \in {<<"begin", "stop">>, <<"failed", "start">>}
         /\ ~server.stopped /\ server' = [server EXCEPT !.stopped = TRUE]
         /\ hooks' = [hooks EXCEPT !.paused = TRUE]
         /\ assemblies' = [assemblies EXCEPT ![current] = IF @ = "open" THEN "quiescing" ELSE @]
         /\ step' = "gateway" /\ UNCHANGED <<tail, current, registered, patch>>
  BY <1>1, <1>2, <1>3 DEF StopBegins, Running, Stopping, Detach, Register, Attach,
     GoOn, Quiesce, Quiet, Drained, DisposeAssembly
<1> USE DEF HostTypeOK, StepsInTurn, StartFirst, ShutDown, Calm, Attached, OneAssembly,
           InService, StartSteps, StopSteps, ReloadSteps, NoAdapter, Adapters, Steps,
           StopBegins, Running, Stopping, Detach, Register, Attach, GoOn, Quiesce,
           Quiet, Drained, DisposeAssembly
<1>5. CASE /\ Finish /\ server.stopped /\ UNCHANGED <<server, assemblies, hooks, current, registered, patch>>
          /\ <<step, tail[1]>> \in {<<"begin", "stop">>, <<"failed", "start">>}
  <2>1. HostTypeOK' BY <1>1, <1>2, <1>3, <1>5
  <2>2. StepsInTurn' BY <1>1, <1>2, <1>3, <1>5
  <2>3. StartFirst' BY <1>1, <1>2, <1>3, <1>5
  <2>4. ShutDown' BY <1>1, <1>2, <1>3, <1>5
  <2>5. Calm' BY <1>1, <1>2, <1>3, <1>5
  <2>6. Attached' BY <1>1, <1>2, <1>3, <1>5
  <2>7. OneAssembly' BY <1>1, <1>2, <1>3, <1>5
  <2> QED BY <2>1, <2>2, <2>3, <2>4, <2>5, <2>6, <2>7 DEF HostInv
<1>6. CASE /\ <<step, tail[1]>> \in {<<"begin", "stop">>, <<"failed", "start">>}
          /\ ~server.stopped /\ server' = [server EXCEPT !.stopped = TRUE]
          /\ hooks' = [hooks EXCEPT !.paused = TRUE]
          /\ assemblies' = [assemblies EXCEPT ![current] = IF @ = "open" THEN "quiescing" ELSE @]
          /\ step' = "gateway" /\ UNCHANGED <<tail, current, registered, patch>>
  <2>1. HostTypeOK' BY <1>1, <1>2, <1>3, <1>6, ZenonT(40)
  <2>2. StepsInTurn' BY <1>1, <1>2, <1>3, <1>6
  <2>3. StartFirst' BY <1>1, <1>2, <1>3, <1>6
  <2>4. ShutDown' BY <1>1, <1>2, <1>3, <1>6
  <2>5. Calm' BY <1>1, <1>2, <1>3, <1>6
  <2>6. Attached' BY <1>1, <1>2, <1>3, <1>6
  <2>7. OneAssembly' BY <1>1, <1>2, <1>3, <1>6
  <2> QED BY <2>1, <2>2, <2>3, <2>4, <2>5, <2>6, <2>7 DEF HostInv
<1> QED BY <1>4, <1>5, <1>6

\* The gateway stops listening.
LEMMA CloseGatewayInv ==
  ASSUME HostInv, CloseGateway
  PROVE  HostInv'
<1>1. HostTypeOK /\ StepsInTurn /\ StartFirst /\ ShutDown /\ Calm /\ Attached /\ OneAssembly
  BY DEF HostInv
<1>2. tail # <<>> /\ Head(tail) = tail[1] /\ Len(tail) \in Nat \ {0} /\ 1 \in 1..Len(tail)
  BY <1>1, FirstOne DEF CloseGateway, Running, Stopping
<1>3. Finish =>
       /\ tail' \in Seq({"start", "reload", "stop"}) /\ Len(tail') <= MaxRequests
       /\ step' = "begin" /\ Len(tail) \in Nat /\ Len(tail') = Len(tail) - 1
       /\ \A k \in 1..Len(tail') : tail'[k] = tail[k + 1] /\ k + 1 \in 1..Len(tail)
       /\ tail' # <<>> => Head(tail') = tail[2] /\ 2 \in 1..Len(tail)
  BY <1>1, <1>2, FinishKeeps
<1> USE DEF HostTypeOK, StepsInTurn, StartFirst, ShutDown, Calm, Attached, OneAssembly,
           InService, StartSteps, StopSteps, ReloadSteps, NoAdapter, Adapters, Steps,
           CloseGateway, Running, Stopping, Detach, Register, Attach, GoOn, Quiesce,
           Quiet, Drained, DisposeAssembly
<1>4. HostTypeOK' BY <1>1, <1>2, <1>3
<1>5. StepsInTurn' BY <1>1, <1>2, <1>3
<1>6. StartFirst' BY <1>1, <1>2, <1>3
<1>7. ShutDown' BY <1>1, <1>2, <1>3
<1>8. Calm' BY <1>1, <1>2, <1>3
<1>9. Attached' BY <1>1, <1>2, <1>3
<1>10. OneAssembly' BY <1>1, <1>2, <1>3
<1> QED BY <1>4, <1>5, <1>6, <1>7, <1>8, <1>9, <1>10 DEF HostInv

\* The admin interface stops listening.
LEMMA CloseAdminInv ==
  ASSUME HostInv, CloseAdmin
  PROVE  HostInv'
<1>1. HostTypeOK /\ StepsInTurn /\ StartFirst /\ ShutDown /\ Calm /\ Attached /\ OneAssembly
  BY DEF HostInv
<1>2. tail # <<>> /\ Head(tail) = tail[1] /\ Len(tail) \in Nat \ {0} /\ 1 \in 1..Len(tail)
  BY <1>1, FirstOne DEF CloseAdmin, Running, Stopping
<1>3. Finish =>
       /\ tail' \in Seq({"start", "reload", "stop"}) /\ Len(tail') <= MaxRequests
       /\ step' = "begin" /\ Len(tail) \in Nat /\ Len(tail') = Len(tail) - 1
       /\ \A k \in 1..Len(tail') : tail'[k] = tail[k + 1] /\ k + 1 \in 1..Len(tail)
       /\ tail' # <<>> => Head(tail') = tail[2] /\ 2 \in 1..Len(tail)
  BY <1>1, <1>2, FinishKeeps
<1> USE DEF HostTypeOK, StepsInTurn, StartFirst, ShutDown, Calm, Attached, OneAssembly,
           InService, StartSteps, StopSteps, ReloadSteps, NoAdapter, Adapters, Steps,
           CloseAdmin, Running, Stopping, Detach, Register, Attach, GoOn, Quiesce,
           Quiet, Drained, DisposeAssembly
<1>4. HostTypeOK' BY <1>1, <1>2, <1>3
<1>5. StepsInTurn' BY <1>1, <1>2, <1>3
<1>6. StartFirst' BY <1>1, <1>2, <1>3
<1>7. ShutDown' BY <1>1, <1>2, <1>3
<1>8. Calm' BY <1>1, <1>2, <1>3
<1>9. Attached' BY <1>1, <1>2, <1>3
<1>10. OneAssembly' BY <1>1, <1>2, <1>3
<1> QED BY <1>4, <1>5, <1>6, <1>7, <1>8, <1>9, <1>10 DEF HostInv

\* The rest of the stop.
LEMMA StopGoesOnInv ==
  ASSUME HostInv, StopGoesOn
  PROVE  HostInv'
<1>1. HostTypeOK /\ StepsInTurn /\ StartFirst /\ ShutDown /\ Calm /\ Attached /\ OneAssembly
  BY DEF HostInv
<1>2. tail # <<>> /\ Head(tail) = tail[1] /\ Len(tail) \in Nat \ {0} /\ 1 \in 1..Len(tail)
  BY <1>1, FirstOne DEF StopGoesOn, Running, Stopping
<1>3. Finish =>
       /\ tail' \in Seq({"start", "reload", "stop"}) /\ Len(tail') <= MaxRequests
       /\ step' = "begin" /\ Len(tail) \in Nat /\ Len(tail') = Len(tail) - 1
       /\ \A k \in 1..Len(tail') : tail'[k] = tail[k + 1] /\ k + 1 \in 1..Len(tail)
       /\ tail' # <<>> => Head(tail') = tail[2] /\ 2 \in 1..Len(tail)
  BY <1>1, <1>2, FinishKeeps
<1>4. \/ /\ <<step, step'>> \in {<<"drain", "quiet">>, <<"quiet", "disconnect">>}
         /\ tail[1] \in {"start", "stop"} /\ (step = "drain" => hooks.request = NoAdapter)
         /\ UNCHANGED <<tail, registered, assemblies, server, current, hooks, patch>>
      \/ /\ step = "disconnect" /\ registered' = NoAdapter /\ step' = "dispose"
         /\ tail[1] \in {"start", "stop"}
         /\ UNCHANGED <<tail, assemblies, server, current, hooks, patch>>
      \/ /\ step = "dispose" /\ assemblies' = [assemblies EXCEPT ![current] = "closed"] /\ Finish
         /\ tail[1] \in {"start", "stop"}
         /\ server' = [server EXCEPT !.over = TRUE] /\ UNCHANGED <<registered, current, hooks, patch>>
  BY <1>1, <1>2, <1>3 DEF StopGoesOn, Running, Stopping, Detach, Register, Attach,
     GoOn, Quiesce, Quiet, Drained, DisposeAssembly
<1> USE DEF HostTypeOK, StepsInTurn, StartFirst, ShutDown, Calm, Attached, OneAssembly,
           InService, StartSteps, StopSteps, ReloadSteps, NoAdapter, Adapters, Steps,
           StopGoesOn, Running, Stopping, Detach, Register, Attach, GoOn, Quiesce,
           Quiet, Drained, DisposeAssembly
<1>5. CASE /\ <<step, step'>> \in {<<"drain", "quiet">>, <<"quiet", "disconnect">>}
          /\ tail[1] \in {"start", "stop"} /\ (step = "drain" => hooks.request = NoAdapter)
          /\ UNCHANGED <<tail, registered, assemblies, server, current, hooks, patch>>
  <2>1. HostTypeOK' BY <1>1, <1>2, <1>3, <1>5
  <2>2. StepsInTurn' BY <1>1, <1>2, <1>3, <1>5
  <2>3. StartFirst' BY <1>1, <1>2, <1>3, <1>5
  <2>4. ShutDown' BY <1>1, <1>2, <1>3, <1>5
  <2>5. Calm' BY <1>1, <1>2, <1>3, <1>5
  <2>6. Attached' BY <1>1, <1>2, <1>3, <1>5
  <2>7. OneAssembly' BY <1>1, <1>2, <1>3, <1>5
  <2> QED BY <2>1, <2>2, <2>3, <2>4, <2>5, <2>6, <2>7 DEF HostInv
<1>6. CASE /\ step = "disconnect" /\ registered' = NoAdapter /\ step' = "dispose"
          /\ tail[1] \in {"start", "stop"}
          /\ UNCHANGED <<tail, assemblies, server, current, hooks, patch>>
  <2>1. HostTypeOK' BY <1>1, <1>2, <1>3, <1>6
  <2>2. StepsInTurn' BY <1>1, <1>2, <1>3, <1>6
  <2>3. StartFirst' BY <1>1, <1>2, <1>3, <1>6
  <2>4. ShutDown' BY <1>1, <1>2, <1>3, <1>6
  <2>5. Calm' BY <1>1, <1>2, <1>3, <1>6
  <2>6. Attached' BY <1>1, <1>2, <1>3, <1>6
  <2>7. OneAssembly' BY <1>1, <1>2, <1>3, <1>6
  <2> QED BY <2>1, <2>2, <2>3, <2>4, <2>5, <2>6, <2>7 DEF HostInv
<1>7. CASE /\ step = "dispose" /\ assemblies' = [assemblies EXCEPT ![current] = "closed"] /\ Finish
          /\ tail[1] \in {"start", "stop"}
          /\ server' = [server EXCEPT !.over = TRUE] /\ UNCHANGED <<registered, current, hooks, patch>>
  <2>1. HostTypeOK' BY <1>1, <1>2, <1>3, <1>7, ZenonT(40)
  <2>2. StepsInTurn' BY <1>1, <1>2, <1>3, <1>7
  <2>3. StartFirst' BY <1>1, <1>2, <1>3, <1>7
  <2>4. ShutDown' BY <1>1, <1>2, <1>3, <1>7
  <2>5. Calm' BY <1>1, <1>2, <1>3, <1>7
  <2>6. Attached' BY <1>1, <1>2, <1>3, <1>7
  <2>7. OneAssembly' BY <1>1, <1>2, <1>3, <1>7
  <2> QED BY <2>1, <2>2, <2>3, <2>4, <2>5, <2>6, <2>7 DEF HostInv
<1> QED BY <1>4, <1>5, <1>6, <1>7

\* A reload begins, or is refused.
LEMMA ReloadBeginsInv ==
  ASSUME HostInv, ReloadBegins
  PROVE  HostInv'
<1>1. HostTypeOK /\ StepsInTurn /\ StartFirst /\ ShutDown /\ Calm /\ Attached /\ OneAssembly
  BY DEF HostInv
<1>2. tail # <<>> /\ Head(tail) = tail[1] /\ Len(tail) \in Nat \ {0} /\ 1 \in 1..Len(tail)
  BY <1>1, FirstOne DEF ReloadBegins, Running, Stopping
<1>3. Finish =>
       /\ tail' \in Seq({"start", "reload", "stop"}) /\ Len(tail') <= MaxRequests
       /\ step' = "begin" /\ Len(tail) \in Nat /\ Len(tail') = Len(tail) - 1
       /\ \A k \in 1..Len(tail') : tail'[k] = tail[k + 1] /\ k + 1 \in 1..Len(tail)
       /\ tail' # <<>> => Head(tail') = tail[2] /\ 2 \in 1..Len(tail)
  BY <1>1, <1>2, FinishKeeps
<1>4. \/ /\ Finish /\ step = "begin" /\ tail[1] = "reload"
         /\ UNCHANGED <<assemblies, hooks, server, current, registered, patch>>
      \/ /\ ~server.asked /\ hooks' = [hooks EXCEPT !.paused = TRUE, !.route = NoAdapter]
         /\ step' = "r-drain" /\ step = "begin" /\ tail[1] = "reload"
         /\ assemblies' = [assemblies EXCEPT ![current] = IF @ = "open" THEN "quiescing" ELSE @]
         /\ UNCHANGED <<tail, server, current, registered, patch>>
  BY <1>1, <1>2, <1>3 DEF ReloadBegins, Running, Stopping, Detach, Register, Attach,
     GoOn, Quiesce, Quiet, Drained, DisposeAssembly
<1> USE DEF HostTypeOK, StepsInTurn, StartFirst, ShutDown, Calm, Attached, OneAssembly,
           InService, StartSteps, StopSteps, ReloadSteps, NoAdapter, Adapters, Steps,
           ReloadBegins, Running, Stopping, Detach, Register, Attach, GoOn, Quiesce,
           Quiet, Drained, DisposeAssembly
<1>5. CASE /\ Finish /\ step = "begin" /\ tail[1] = "reload"
          /\ UNCHANGED <<assemblies, hooks, server, current, registered, patch>>
  <2>1. HostTypeOK' BY <1>1, <1>2, <1>3, <1>5
  <2>2. StepsInTurn' BY <1>1, <1>2, <1>3, <1>5
  <2>3. StartFirst' BY <1>1, <1>2, <1>3, <1>5
  <2>4. ShutDown' BY <1>1, <1>2, <1>3, <1>5
  <2>5. Calm' BY <1>1, <1>2, <1>3, <1>5
  <2>6. Attached' BY <1>1, <1>2, <1>3, <1>5
  <2>7. OneAssembly' BY <1>1, <1>2, <1>3, <1>5
  <2> QED BY <2>1, <2>2, <2>3, <2>4, <2>5, <2>6, <2>7 DEF HostInv
<1>6. CASE /\ ~server.asked /\ hooks' = [hooks EXCEPT !.paused = TRUE, !.route = NoAdapter]
          /\ step' = "r-drain" /\ step = "begin" /\ tail[1] = "reload"
          /\ assemblies' = [assemblies EXCEPT ![current] = IF @ = "open" THEN "quiescing" ELSE @]
          /\ UNCHANGED <<tail, server, current, registered, patch>>
  <2>1. HostTypeOK' BY <1>1, <1>2, <1>3, <1>6, ZenonT(40)
  <2>2. StepsInTurn' BY <1>1, <1>2, <1>3, <1>6
  <2>3. StartFirst' BY <1>1, <1>2, <1>3, <1>6
  <2>4. ShutDown' BY <1>1, <1>2, <1>3, <1>6
  <2>5. Calm' BY <1>1, <1>2, <1>3, <1>6
  <2>6. Attached' BY <1>1, <1>2, <1>3, <1>6
  <2>7. OneAssembly' BY <1>1, <1>2, <1>3, <1>6
  <2> QED BY <2>1, <2>2, <2>3, <2>4, <2>5, <2>6, <2>7 DEF HostInv
<1> QED BY <1>4, <1>5, <1>6

\* The old assembly is drained and closed.
LEMMA QuiesceCurrentInv ==
  ASSUME HostInv, QuiesceCurrent
  PROVE  HostInv'
<1>1. HostTypeOK /\ StepsInTurn /\ StartFirst /\ ShutDown /\ Calm /\ Attached /\ OneAssembly
  BY DEF HostInv
<1>2. tail # <<>> /\ Head(tail) = tail[1] /\ Len(tail) \in Nat \ {0} /\ 1 \in 1..Len(tail)
  BY <1>1, FirstOne DEF QuiesceCurrent, Running, Stopping
<1>3. Finish =>
       /\ tail' \in Seq({"start", "reload", "stop"}) /\ Len(tail') <= MaxRequests
       /\ step' = "begin" /\ Len(tail) \in Nat /\ Len(tail') = Len(tail) - 1
       /\ \A k \in 1..Len(tail') : tail'[k] = tail[k + 1] /\ k + 1 \in 1..Len(tail)
       /\ tail' # <<>> => Head(tail') = tail[2] /\ 2 \in 1..Len(tail)
  BY <1>1, <1>2, FinishKeeps
<1>4. \/ /\ <<step, step'>> \in {<<"r-drain", "r-quiet">>, <<"r-quiet", "r-disconnect">>}
         /\ tail[1] = "reload" /\ UNCHANGED <<tail, registered, assemblies, server, current, hooks, patch>>
      \/ /\ step = "r-disconnect" /\ tail[1] = "reload" /\ registered' = NoAdapter
         /\ Finish /\ UNCHANGED <<assemblies, server, current, hooks, patch>>
      \/ /\ step = "r-disconnect" /\ tail[1] = "reload" /\ registered' = NoAdapter
         /\ step' = "r-dispose" /\ UNCHANGED <<tail, assemblies, server, current, hooks, patch>>
      \/ /\ step = "r-dispose" /\ tail[1] = "reload" /\ step' = "create"
         /\ assemblies' = [assemblies EXCEPT ![current] = "closed"]
         /\ UNCHANGED <<tail, registered, server, current, hooks, patch>>
  BY <1>1, <1>2, <1>3 DEF QuiesceCurrent, Running, Stopping, Detach, Register, Attach,
     GoOn, Quiesce, Quiet, Drained, DisposeAssembly
<1> USE DEF HostTypeOK, StepsInTurn, StartFirst, ShutDown, Calm, Attached, OneAssembly,
           InService, StartSteps, StopSteps, ReloadSteps, NoAdapter, Adapters, Steps,
           QuiesceCurrent, Running, Stopping, Detach, Register, Attach, GoOn, Quiesce,
           Quiet, Drained, DisposeAssembly
<1>5. CASE /\ <<step, step'>> \in {<<"r-drain", "r-quiet">>, <<"r-quiet", "r-disconnect">>}
          /\ tail[1] = "reload" /\ UNCHANGED <<tail, registered, assemblies, server, current, hooks, patch>>
  <2>1. HostTypeOK' BY <1>1, <1>2, <1>3, <1>5
  <2>2. StepsInTurn' BY <1>1, <1>2, <1>3, <1>5
  <2>3. StartFirst' BY <1>1, <1>2, <1>3, <1>5
  <2>4. ShutDown' BY <1>1, <1>2, <1>3, <1>5
  <2>5. Calm' BY <1>1, <1>2, <1>3, <1>5
  <2>6. Attached' BY <1>1, <1>2, <1>3, <1>5
  <2>7. OneAssembly' BY <1>1, <1>2, <1>3, <1>5
  <2> QED BY <2>1, <2>2, <2>3, <2>4, <2>5, <2>6, <2>7 DEF HostInv
<1>6. CASE /\ step = "r-disconnect" /\ tail[1] = "reload" /\ registered' = NoAdapter
          /\ Finish /\ UNCHANGED <<assemblies, server, current, hooks, patch>>
  <2>1. HostTypeOK' BY <1>1, <1>2, <1>3, <1>6
  <2>2. StepsInTurn' BY <1>1, <1>2, <1>3, <1>6
  <2>3. StartFirst' BY <1>1, <1>2, <1>3, <1>6
  <2>4. ShutDown' BY <1>1, <1>2, <1>3, <1>6
  <2>5. Calm' BY <1>1, <1>2, <1>3, <1>6
  <2>6. Attached' BY <1>1, <1>2, <1>3, <1>6
  <2>7. OneAssembly' BY <1>1, <1>2, <1>3, <1>6
  <2> QED BY <2>1, <2>2, <2>3, <2>4, <2>5, <2>6, <2>7 DEF HostInv
<1>7. CASE /\ step = "r-disconnect" /\ tail[1] = "reload" /\ registered' = NoAdapter
          /\ step' = "r-dispose" /\ UNCHANGED <<tail, assemblies, server, current, hooks, patch>>
  <2>1. HostTypeOK' BY <1>1, <1>2, <1>3, <1>7
  <2>2. StepsInTurn' BY <1>1, <1>2, <1>3, <1>7
  <2>3. StartFirst' BY <1>1, <1>2, <1>3, <1>7
  <2>4. ShutDown' BY <1>1, <1>2, <1>3, <1>7
  <2>5. Calm' BY <1>1, <1>2, <1>3, <1>7
  <2>6. Attached' BY <1>1, <1>2, <1>3, <1>7
  <2>7. OneAssembly' BY <1>1, <1>2, <1>3, <1>7
  <2> QED BY <2>1, <2>2, <2>3, <2>4, <2>5, <2>6, <2>7 DEF HostInv
<1>8. CASE /\ step = "r-dispose" /\ tail[1] = "reload" /\ step' = "create"
          /\ assemblies' = [assemblies EXCEPT ![current] = "closed"]
          /\ UNCHANGED <<tail, registered, server, current, hooks, patch>>
  <2>1. HostTypeOK' BY <1>1, <1>2, <1>3, <1>8
  <2>2. StepsInTurn' BY <1>1, <1>2, <1>3, <1>8
  <2>3. StartFirst' BY <1>1, <1>2, <1>3, <1>8
  <2>4. ShutDown' BY <1>1, <1>2, <1>3, <1>8
  <2>5. Calm' BY <1>1, <1>2, <1>3, <1>8
  <2>6. Attached' BY <1>1, <1>2, <1>3, <1>8
  <2>7. OneAssembly' BY <1>1, <1>2, <1>3, <1>8
  <2> QED BY <2>1, <2>2, <2>3, <2>4, <2>5, <2>6, <2>7 DEF HostInv
<1> QED BY <1>4, <1>5, <1>6, <1>7, <1>8

\* The new assembly is created and its channels attached.
LEMMA CreateInv ==
  ASSUME HostInv, Create
  PROVE  HostInv'
<1>1. HostTypeOK /\ StepsInTurn /\ StartFirst /\ ShutDown /\ Calm /\ Attached /\ OneAssembly
  BY DEF HostInv
<1>2. tail # <<>> /\ Head(tail) = tail[1] /\ Len(tail) \in Nat \ {0} /\ 1 \in 1..Len(tail)
  BY <1>1, FirstOne DEF Create, Running, Stopping
<1>3. MaxAssemblies \in Nat /\ current \in 1..MaxAssemblies
  BY <1>1, HostAssumption DEF HostTypeOK
<1>4. current < MaxAssemblies => [of |-> current + 1, by |-> "host"] \in Adapters
  BY <1>3 DEF Adapters
<1>5. Finish =>
       /\ tail' \in Seq({"start", "reload", "stop"}) /\ Len(tail') <= MaxRequests
       /\ step' = "begin" /\ Len(tail) \in Nat /\ Len(tail') = Len(tail) - 1
       /\ \A k \in 1..Len(tail') : tail'[k] = tail[k + 1] /\ k + 1 \in 1..Len(tail)
       /\ tail' # <<>> => Head(tail') = tail[2] /\ 2 \in 1..Len(tail)
  BY <1>1, <1>2, FinishKeeps
<1>6. \/ /\ step = "create" /\ tail[1] = "reload" /\ current < MaxAssemblies /\ current' = current + 1
         /\ assemblies' = [assemblies EXCEPT ![current + 1] = "open"] /\ step' = "r-connect"
         /\ registered' = [of |-> current + 1, by |-> "host"]
         /\ hooks' = [hooks EXCEPT !.route = [of |-> current + 1, by |-> "host"]] /\ UNCHANGED <<tail, server, patch>>
      \/ /\ step = "create" /\ tail[1] = "reload" /\ current < MaxAssemblies /\ current' = current + 1
         /\ assemblies' = [assemblies EXCEPT ![current + 1] = "open"] /\ step' \in {"r-connect", "f-quiet"}
         /\ UNCHANGED <<tail, registered, hooks, server, patch>>
      \/ /\ step = "create" /\ tail[1] = "reload" /\ step' = "f-quiet"
         /\ UNCHANGED <<tail, current, assemblies, registered, hooks, server, patch>>
  BY <1>1, <1>2, <1>3, <1>4, <1>5 DEF Create, Running, Stopping, Detach, Register, Attach,
     GoOn, Quiesce, Quiet, Drained, DisposeAssembly
<1> USE DEF HostTypeOK, StepsInTurn, StartFirst, ShutDown, Calm, Attached, OneAssembly,
           InService, StartSteps, StopSteps, ReloadSteps, NoAdapter, Adapters, Steps,
           Create, Running, Stopping, Detach, Register, Attach, GoOn, Quiesce, Quiet,
           Drained, DisposeAssembly
<1>7. CASE /\ step = "create" /\ tail[1] = "reload" /\ current < MaxAssemblies /\ current' = current + 1
          /\ assemblies' = [assemblies EXCEPT ![current + 1] = "open"] /\ step' = "r-connect"
          /\ registered' = [of |-> current + 1, by |-> "host"]
          /\ hooks' = [hooks EXCEPT !.route = [of |-> current + 1, by |-> "host"]] /\ UNCHANGED <<tail, server, patch>>
  <2>1. HostTypeOK' BY <1>1, <1>2, <1>3, <1>4, <1>5, <1>7
  <2>2. StepsInTurn' BY <1>1, <1>2, <1>3, <1>4, <1>5, <1>7
  <2>3. StartFirst' BY <1>1, <1>2, <1>3, <1>4, <1>5, <1>7
  <2>4. ShutDown' BY <1>1, <1>2, <1>3, <1>4, <1>5, <1>7
  <2>5. Calm' BY <1>1, <1>2, <1>3, <1>4, <1>5, <1>7
  <2>6. Attached' BY <1>1, <1>2, <1>3, <1>4, <1>5, <1>7
  <2>7. OneAssembly' BY <1>1, <1>2, <1>3, <1>4, <1>5, <1>7
  <2> QED BY <2>1, <2>2, <2>3, <2>4, <2>5, <2>6, <2>7 DEF HostInv
<1>8. CASE /\ step = "create" /\ tail[1] = "reload" /\ current < MaxAssemblies /\ current' = current + 1
          /\ assemblies' = [assemblies EXCEPT ![current + 1] = "open"] /\ step' \in {"r-connect", "f-quiet"}
          /\ UNCHANGED <<tail, registered, hooks, server, patch>>
  <2>1. HostTypeOK' BY <1>1, <1>2, <1>3, <1>4, <1>5, <1>8
  <2>2. StepsInTurn' BY <1>1, <1>2, <1>3, <1>4, <1>5, <1>8
  <2>3. StartFirst' BY <1>1, <1>2, <1>3, <1>4, <1>5, <1>8
  <2>4. ShutDown' BY <1>1, <1>2, <1>3, <1>4, <1>5, <1>8
  <2>5. Calm' BY <1>1, <1>2, <1>3, <1>4, <1>5, <1>8
  <2>6. Attached' BY <1>1, <1>2, <1>3, <1>4, <1>5, <1>8
  <2>7. OneAssembly' BY <1>1, <1>2, <1>3, <1>4, <1>5, <1>8
  <2> QED BY <2>1, <2>2, <2>3, <2>4, <2>5, <2>6, <2>7 DEF HostInv
<1>9. CASE /\ step = "create" /\ tail[1] = "reload" /\ step' = "f-quiet"
          /\ UNCHANGED <<tail, current, assemblies, registered, hooks, server, patch>>
  <2>1. HostTypeOK' BY <1>1, <1>2, <1>3, <1>4, <1>5, <1>9
  <2>2. StepsInTurn' BY <1>1, <1>2, <1>3, <1>4, <1>5, <1>9
  <2>3. StartFirst' BY <1>1, <1>2, <1>3, <1>4, <1>5, <1>9
  <2>4. ShutDown' BY <1>1, <1>2, <1>3, <1>4, <1>5, <1>9
  <2>5. Calm' BY <1>1, <1>2, <1>3, <1>4, <1>5, <1>9
  <2>6. Attached' BY <1>1, <1>2, <1>3, <1>4, <1>5, <1>9
  <2>7. OneAssembly' BY <1>1, <1>2, <1>3, <1>4, <1>5, <1>9
  <2> QED BY <2>1, <2>2, <2>3, <2>4, <2>5, <2>6, <2>7 DEF HostInv
<1> QED BY <1>6, <1>7, <1>8, <1>9

\* The new channels connect, and webhooks are let in again.
LEMMA ReconnectInv ==
  ASSUME HostInv, Reconnect
  PROVE  HostInv'
<1>1. HostTypeOK /\ StepsInTurn /\ StartFirst /\ ShutDown /\ Calm /\ Attached /\ OneAssembly
  BY DEF HostInv
<1>2. tail # <<>> /\ Head(tail) = tail[1] /\ Len(tail) \in Nat \ {0} /\ 1 \in 1..Len(tail)
  BY <1>1, FirstOne DEF Reconnect, Running, Stopping
<1>3. Finish =>
       /\ tail' \in Seq({"start", "reload", "stop"}) /\ Len(tail') <= MaxRequests
       /\ step' = "begin" /\ Len(tail) \in Nat /\ Len(tail') = Len(tail) - 1
       /\ \A k \in 1..Len(tail') : tail'[k] = tail[k + 1] /\ k + 1 \in 1..Len(tail)
       /\ tail' # <<>> => Head(tail') = tail[2] /\ 2 \in 1..Len(tail)
  BY <1>1, <1>2, FinishKeeps
<1>4. \/ /\ Finish /\ hooks' = [hooks EXCEPT !.paused = FALSE] /\ step = "r-connect" /\ tail[1] = "reload"
         /\ UNCHANGED <<server, current, assemblies, registered, patch>>
      \/ /\ step = "r-connect" /\ tail[1] = "reload" /\ step' = "f-quiet"
         /\ UNCHANGED <<tail, hooks, server, current, assemblies, registered, patch>>
  BY <1>1, <1>2, <1>3 DEF Reconnect, Running, Stopping, Detach, Register, Attach,
     GoOn, Quiesce, Quiet, Drained, DisposeAssembly
<1> USE DEF HostTypeOK, StepsInTurn, StartFirst, ShutDown, Calm, Attached, OneAssembly,
           InService, StartSteps, StopSteps, ReloadSteps, NoAdapter, Adapters, Steps,
           Reconnect, Running, Stopping, Detach, Register, Attach, GoOn, Quiesce,
           Quiet, Drained, DisposeAssembly
<1>5. CASE /\ Finish /\ hooks' = [hooks EXCEPT !.paused = FALSE] /\ step = "r-connect" /\ tail[1] = "reload"
          /\ UNCHANGED <<server, current, assemblies, registered, patch>>
  <2>1. HostTypeOK' BY <1>1, <1>2, <1>3, <1>5, ZenonT(40)
  <2>2. StepsInTurn' BY <1>1, <1>2, <1>3, <1>5
  <2>3. StartFirst' BY <1>1, <1>2, <1>3, <1>5
  <2>4. ShutDown' BY <1>1, <1>2, <1>3, <1>5
  <2>5. Calm' BY <1>1, <1>2, <1>3, <1>5
  <2>6. Attached' BY <1>1, <1>2, <1>3, <1>5
  <2>7. OneAssembly' BY <1>1, <1>2, <1>3, <1>5
  <2> QED BY <2>1, <2>2, <2>3, <2>4, <2>5, <2>6, <2>7 DEF HostInv
<1>6. CASE /\ step = "r-connect" /\ tail[1] = "reload" /\ step' = "f-quiet"
          /\ UNCHANGED <<tail, hooks, server, current, assemblies, registered, patch>>
  <2>1. HostTypeOK' BY <1>1, <1>2, <1>3, <1>6
  <2>2. StepsInTurn' BY <1>1, <1>2, <1>3, <1>6
  <2>3. StartFirst' BY <1>1, <1>2, <1>3, <1>6
  <2>4. ShutDown' BY <1>1, <1>2, <1>3, <1>6
  <2>5. Calm' BY <1>1, <1>2, <1>3, <1>6
  <2>6. Attached' BY <1>1, <1>2, <1>3, <1>6
  <2>7. OneAssembly' BY <1>1, <1>2, <1>3, <1>6
  <2> QED BY <2>1, <2>2, <2>3, <2>4, <2>5, <2>6, <2>7 DEF HostInv
<1> QED BY <1>4, <1>5, <1>6

\* A reload that failed closes the new assembly.
LEMMA GiveUpReloadInv ==
  ASSUME HostInv, GiveUpReload
  PROVE  HostInv'
<1>1. HostTypeOK /\ StepsInTurn /\ StartFirst /\ ShutDown /\ Calm /\ Attached /\ OneAssembly
  BY DEF HostInv
<1>2. tail # <<>> /\ Head(tail) = tail[1] /\ Len(tail) \in Nat \ {0} /\ 1 \in 1..Len(tail)
  BY <1>1, FirstOne DEF GiveUpReload, Running, Stopping
<1>3. Finish =>
       /\ tail' \in Seq({"start", "reload", "stop"}) /\ Len(tail') <= MaxRequests
       /\ step' = "begin" /\ Len(tail) \in Nat /\ Len(tail') = Len(tail) - 1
       /\ \A k \in 1..Len(tail') : tail'[k] = tail[k + 1] /\ k + 1 \in 1..Len(tail)
       /\ tail' # <<>> => Head(tail') = tail[2] /\ 2 \in 1..Len(tail)
  BY <1>1, <1>2, FinishKeeps
<1>4. \/ /\ step = "f-quiet" /\ tail[1] = "reload" /\ step' \in {"f-quiet", "f-disconnect"}
         /\ assemblies' = [assemblies EXCEPT ![current] = IF @ = "open" THEN "quiescing" ELSE @]
         /\ UNCHANGED <<tail, registered, server, current, hooks, patch>>
      \/ /\ step = "f-disconnect" /\ tail[1] = "reload" /\ step' = "f-dispose" /\ registered' = NoAdapter
         /\ UNCHANGED <<tail, assemblies, server, current, hooks, patch>>
      \/ /\ step = "f-dispose" /\ tail[1] = "reload" /\ Finish
         /\ assemblies' = [assemblies EXCEPT ![current] = "closed"]
         /\ UNCHANGED <<registered, server, current, hooks, patch>>
  BY <1>1, <1>2, <1>3 DEF GiveUpReload, Running, Stopping, Detach, Register, Attach,
     GoOn, Quiesce, Quiet, Drained, DisposeAssembly
<1> USE DEF HostTypeOK, StepsInTurn, StartFirst, ShutDown, Calm, Attached, OneAssembly,
           InService, StartSteps, StopSteps, ReloadSteps, NoAdapter, Adapters, Steps,
           GiveUpReload, Running, Stopping, Detach, Register, Attach, GoOn, Quiesce,
           Quiet, Drained, DisposeAssembly
<1>5. CASE /\ step = "f-quiet" /\ tail[1] = "reload" /\ step' \in {"f-quiet", "f-disconnect"}
          /\ assemblies' = [assemblies EXCEPT ![current] = IF @ = "open" THEN "quiescing" ELSE @]
          /\ UNCHANGED <<tail, registered, server, current, hooks, patch>>
  <2>1. HostTypeOK' BY <1>1, <1>2, <1>3, <1>5
  <2>2. StepsInTurn' BY <1>1, <1>2, <1>3, <1>5
  <2>3. StartFirst' BY <1>1, <1>2, <1>3, <1>5
  <2>4. ShutDown' BY <1>1, <1>2, <1>3, <1>5
  <2>5. Calm' BY <1>1, <1>2, <1>3, <1>5
  <2>6. Attached' BY <1>1, <1>2, <1>3, <1>5
  <2>7. OneAssembly' BY <1>1, <1>2, <1>3, <1>5
  <2> QED BY <2>1, <2>2, <2>3, <2>4, <2>5, <2>6, <2>7 DEF HostInv
<1>6. CASE /\ step = "f-disconnect" /\ tail[1] = "reload" /\ step' = "f-dispose" /\ registered' = NoAdapter
          /\ UNCHANGED <<tail, assemblies, server, current, hooks, patch>>
  <2>1. HostTypeOK' BY <1>1, <1>2, <1>3, <1>6
  <2>2. StepsInTurn' BY <1>1, <1>2, <1>3, <1>6
  <2>3. StartFirst' BY <1>1, <1>2, <1>3, <1>6
  <2>4. ShutDown' BY <1>1, <1>2, <1>3, <1>6
  <2>5. Calm' BY <1>1, <1>2, <1>3, <1>6
  <2>6. Attached' BY <1>1, <1>2, <1>3, <1>6
  <2>7. OneAssembly' BY <1>1, <1>2, <1>3, <1>6
  <2> QED BY <2>1, <2>2, <2>3, <2>4, <2>5, <2>6, <2>7 DEF HostInv
<1>7. CASE /\ step = "f-dispose" /\ tail[1] = "reload" /\ Finish
          /\ assemblies' = [assemblies EXCEPT ![current] = "closed"]
          /\ UNCHANGED <<registered, server, current, hooks, patch>>
  <2>1. HostTypeOK' BY <1>1, <1>2, <1>3, <1>7
  <2>2. StepsInTurn' BY <1>1, <1>2, <1>3, <1>7
  <2>3. StartFirst' BY <1>1, <1>2, <1>3, <1>7
  <2>4. ShutDown' BY <1>1, <1>2, <1>3, <1>7
  <2>5. Calm' BY <1>1, <1>2, <1>3, <1>7
  <2>6. Attached' BY <1>1, <1>2, <1>3, <1>7
  <2>7. OneAssembly' BY <1>1, <1>2, <1>3, <1>7
  <2> QED BY <2>1, <2>2, <2>3, <2>4, <2>5, <2>6, <2>7 DEF HostInv
<1> QED BY <1>4, <1>5, <1>6, <1>7

\* The runtime that is built but not started has the invariant.
LEMMA HostInitInv == HostInit => HostInv
BY HostAssumption
   DEF HostInit, HostInv, HostTypeOK, StepsInTurn, StartFirst, ShutDown, Calm, Attached, OneAssembly,
       InService, StartSteps, StopSteps, ReloadSteps, NoAdapter, Adapters, Steps

\* Every step of the host keeps it.
LEMMA HostStepInv == HostInv /\ [HostNext]_hostVars => HostInv'
<1> SUFFICES ASSUME HostInv, [HostNext]_hostVars PROVE HostInv'
    OBVIOUS
<1>1. CASE UNCHANGED hostVars
  BY <1>1
     DEF hostVars, HostInv, HostTypeOK, StepsInTurn, StartFirst, ShutDown, Calm, Attached, OneAssembly,
         InService, StartSteps, StopSteps, ReloadSteps, NoAdapter, Adapters, Steps
<1>2. CASE HostNext
  BY <1>2, AskStartInv, AskReloadInv, AskStopInv, StartBeginsInv, StartGoesOnInv, StopBeginsInv,
     CloseGatewayInv, CloseAdminInv, StopGoesOnInv, ReloadBeginsInv, QuiesceCurrentInv, CreateInv,
     ReconnectInv, GiveUpReloadInv, QuietedInv, WebhookInv, WebhookEndsInv, EnableChannelInv,
     DisableChannelInv, ChannelDisabledInv
     DEF HostNext
<1> QED BY <1>1, <1>2

\* An assembly is closed only when neither a webhook nor an adapter of the
\* lifecycle uses it, there is one at a time, and nothing is left after stop().
THEOREM ClosedUnusedHolds == HostSpec => []ClosedUnused
<1>1. HostInv => ClosedUnused
  BY DEF HostInv, HostTypeOK, ShutDown, Attached, OneAssembly, InService, ClosedUnused
<1> QED BY HostInitInv, HostStepInv, <1>1, PTL DEF HostSpec

(* ----------------------------- the maintenance ---------------------------- *)

\* a manifest tells what the backup held; it is written last and only of a
\* sound copy
ManifestTrue ==
  /\ backup.manifest => /\ backup.made /\ backup.listed = taken.files /\ Sound(taken)
                        /\ backup.data.rows = taken.rows
  /\ work.at \in {"made", "validate", "database", "copy"} => backup.made /\ ~backup.manifest
  /\ work.at \in {"validate", "database", "copy", "manifest"} => backup.marked

\* a directory is restored from a complete backup, which is kept, and bears a
\* marker unless it is empty or whole
MarkedUntilWhole ==
  /\ restored.made => backup.manifest /\ ~backup.marked
  /\ restored.made /\ restored.marked = {} => restored.data \in {Blank, taken}
  /\ work.at \in {"back made", "back skills", "back copy", "back unmark", "back last"} => restored.made
  /\ work.at \in {"back made", "back skills"} => restored.data = Blank
  /\ work.at \in {"back copy", "back unmark"} => restored.marked = {"data", "skills"}
  /\ work.at = "back last" => restored.marked = {"data"}
  /\ work.at \in {"back unmark", "back last"} => restored.data = taken

\* what is not left to copy has been copied
CopiedSoFar ==
  work.at = "back copy" =>
    /\ \A f \in All \ work.left : restored.data.files[f] = taken.files[f]
    /\ Database \notin work.left => restored.data.rows = taken.rows

MaintenanceInv == MaintenanceTypeOK /\ ManifestTrue /\ MarkedUntilWhole /\ CopiedSoFar

\* The initial deployment has its invariant.
LEMMA MaintenanceInitInv == MaintenanceInit => MaintenanceInv
<1> SUFFICES ASSUME MaintenanceInit PROVE MaintenanceInv
    OBVIOUS
<1>1. Blank \in Deployment
  BY DEF Blank, Deployment, Bytes
<1>2. [Blank EXCEPT !.files[Database] = "good"] \in Deployment
  BY DEF Blank, Deployment, Bytes, All
<1>3. NoBackup.listed \in [All -> Bytes]
  BY DEF NoBackup, Blank, Bytes
<1>4. MaintenanceTypeOK
  BY <1>1, <1>2, <1>3
     DEF MaintenanceInit, MaintenanceTypeOK, Idle, Phases, NoBackup, NotRestored
<1>5. ManifestTrue /\ MarkedUntilWhole /\ CopiedSoFar
  BY DEF MaintenanceInit, ManifestTrue, MarkedUntilWhole, CopiedSoFar, Idle, NoBackup, NotRestored
<1> QED BY <1>4, <1>5 DEF MaintenanceInv

\* What concerns neither maintenance nor a destination.
LEMMA MaintenanceElsewhere ==
  ASSUME MaintenanceInv, MaintenanceTypeOK', UNCHANGED <<backup, restored, taken>>,
         work' \in {work, Idle}
  PROVE  MaintenanceInv'
<1>0. work'.at = "idle" \/ work' = work
  BY DEF Idle
<1>1. ManifestTrue'
  BY <1>0 DEF MaintenanceInv, ManifestTrue, Sound
<1>2. MarkedUntilWhole'
  BY <1>0 DEF MaintenanceInv, MarkedUntilWhole
<1>3. CopiedSoFar'
  BY <1>0 DEF MaintenanceInv, CopiedSoFar
<1> QED BY <1>1, <1>2, <1>3 DEF MaintenanceInv

\* A directory restored so far stays what it is while a backup is made.
LEMMA NoneRestored ==
  ASSUME MaintenanceInv, ~backup.manifest \/ backup.marked
  PROVE  /\ ~restored.made
         /\ work.at \notin {"back made", "back skills", "back copy", "back unmark", "back last"}
BY DEF MaintenanceInv, MarkedUntilWhole

\* Every step of backup, restore, runtime and world keeps the invariant.
LEMMA MaintenanceStepInv == MaintenanceInv /\ [MaintenanceNext]_maintenanceVars => MaintenanceInv'
<1> SUFFICES ASSUME MaintenanceInv, [MaintenanceNext]_maintenanceVars PROVE MaintenanceInv'
    OBVIOUS
<1>t. MaintenanceTypeOK /\ ManifestTrue /\ MarkedUntilWhole /\ CopiedSoFar
  BY DEF MaintenanceInv
<1>i. Idle \in [at : Phases, left : SUBSET All] /\ Idle.at = "idle"
  BY DEF Idle, Phases
<1>b. Blank \in Deployment /\ Blank.files \in [All -> Bytes]
  BY DEF Blank, Deployment, Bytes
<1>p. \A at \in Phases : [work EXCEPT !.at = at] \in [at : Phases, left : SUBSET All]
                          /\ [work EXCEPT !.at = at].at = at
                          /\ [work EXCEPT !.at = at].left = work.left
  BY <1>t DEF MaintenanceTypeOK
<1>1. CASE StartSource \/ StartRestored \/ StopRuntime \/ Die
  <2>1. UNCHANGED <<source, backup, restored, taken>> /\ work' \in {work, Idle}
        /\ runtime' \in {"none", "source", "restored"}
    BY <1>1, <1>t DEF StartSource, StartRestored, StopRuntime, Die, MaintenanceTypeOK
  <2>2. MaintenanceTypeOK'
    BY <1>t, <1>i, <2>1 DEF MaintenanceTypeOK
  <2> QED BY <2>1, <2>2, MaintenanceElsewhere
<1>2. ASSUME NEW f \in All, WriteFile(f) \/ Tamper(f) \/ (f \in Referred /\ CommitRow(f))
      PROVE  MaintenanceInv'
  <2>1. UNCHANGED <<runtime, work, backup, restored, taken>>
    BY <1>2 DEF WriteFile, Tamper, CommitRow
  <2>2. source' \in Deployment
    <3>1. source.rows \subseteq Referred /\ source.files \in [All -> Bytes] /\ source \in Deployment
      BY <1>t DEF MaintenanceTypeOK, Deployment
    <3>2. CASE WriteFile(f)
      BY <3>1, <3>2 DEF WriteFile, Deployment, Bytes
    <3>3. CASE Tamper(f)
      BY <3>1, <3>3 DEF Tamper, Deployment, Bytes
    <3>4. CASE f \in Referred /\ CommitRow(f)
      BY <3>1, <3>4 DEF CommitRow, Deployment
    <3> QED BY <1>2, <3>2, <3>3, <3>4
  <2>3. MaintenanceTypeOK'
    BY <1>t, <2>1, <2>2 DEF MaintenanceTypeOK
  <2> QED BY <2>1, <2>3, MaintenanceElsewhere
<1>3. CASE BackupBegins
  <2>1. /\ work = Idle /\ ~backup.made
        /\ backup' = [NoBackup EXCEPT !.made = TRUE] /\ work' = [work EXCEPT !.at = "made"]
        /\ UNCHANGED <<source, runtime, restored, taken>>
    BY <1>3 DEF BackupBegins, Proceed
  <2>2. backup' = [made |-> TRUE, marked |-> FALSE, manifest |-> FALSE, data |-> Blank,
                   listed |-> Blank.files]
    BY <2>1 DEF NoBackup
  <2>3. work'.at = "made" /\ work' \in [at : Phases, left : SUBSET All]
    BY <1>p, <2>1 DEF Phases
  <2>4. ~restored.made
    BY <1>t, <2>1, NoneRestored DEF ManifestTrue, MaintenanceInv
  <2>a. backup' \in [made : BOOLEAN, marked : BOOLEAN, manifest : BOOLEAN, data : Deployment,
                     listed : [All -> Bytes]]
    BY <1>b, <2>2
  <2>5. MaintenanceTypeOK'
    BY <1>t, <2>1, <2>3, <2>a DEF MaintenanceTypeOK
  <2>6. ManifestTrue' /\ MarkedUntilWhole' /\ CopiedSoFar'
    BY <2>1, <2>2, <2>3, <2>4 DEF ManifestTrue, MarkedUntilWhole, CopiedSoFar
  <2> QED BY <2>5, <2>6 DEF MaintenanceInv
<1>4. CASE MarkBackup
  <2>1. /\ work.at = "made" /\ work' = [work EXCEPT !.at = "validate"]
        /\ backup' = [backup EXCEPT !.marked = TRUE]
        /\ UNCHANGED <<source, runtime, restored, taken>>
    BY <1>4 DEF MarkBackup, Proceed
  <2>2. work'.at = "validate" /\ work' \in [at : Phases, left : SUBSET All]
    BY <1>p, <2>1 DEF Phases
  <2>3. backup.made /\ ~backup.manifest /\ ~restored.made
    BY <1>t, <2>1, NoneRestored DEF ManifestTrue
  <2>4. MaintenanceTypeOK'
    BY <1>t, <2>1, <2>2 DEF MaintenanceTypeOK
  <2>5. backup'.made /\ ~backup'.manifest /\ backup'.marked
    BY <1>t, <2>1, <2>3 DEF MaintenanceTypeOK
  <2>6. ManifestTrue' /\ MarkedUntilWhole' /\ CopiedSoFar'
    BY <2>1, <2>2, <2>3, <2>5 DEF ManifestTrue, MarkedUntilWhole, CopiedSoFar
  <2> QED BY <2>4, <2>6 DEF MaintenanceInv
<1>5. CASE ValidateSource
  <2>1. /\ work.at = "validate" /\ UNCHANGED <<source, runtime, backup, restored, taken>>
        /\ (work' = Idle \/ work' = [work EXCEPT !.at = "database"])
    BY <1>5 DEF ValidateSource, Proceed
  <2>2. work' \in [at : Phases, left : SUBSET All] /\ work'.at \in {"idle", "database"}
    BY <1>i, <1>p, <2>1 DEF Phases
  <2>3. MaintenanceTypeOK'
    BY <1>t, <2>1, <2>2 DEF MaintenanceTypeOK
  <2>4. ManifestTrue' /\ MarkedUntilWhole' /\ CopiedSoFar'
    BY <1>t, <2>1, <2>2 DEF ManifestTrue, MarkedUntilWhole, CopiedSoFar, Sound
  <2> QED BY <2>3, <2>4 DEF MaintenanceInv
<1>6. CASE CopyDatabase \/ \E f \in Files : CopyFile(f)
  <2>1. /\ work.at \in {"database", "copy"} /\ UNCHANGED <<source, runtime, restored, taken>>
        /\ backup.made /\ ~backup.manifest /\ backup.marked /\ ~restored.made
    BY <1>6, <1>t, NoneRestored DEF CopyDatabase, CopyFile, ManifestTrue
  <2>2. source.rows \subseteq Referred /\ source.files \in [All -> Bytes]
        /\ backup.data.rows \subseteq Referred /\ backup.data.files \in [All -> Bytes]
        /\ Files \subseteq All /\ Database \in All
    BY <1>t DEF MaintenanceTypeOK, Deployment, All
  <2>3. work'.at = "copy" /\ work' \in [at : Phases, left : SUBSET All]
    <3>1. CASE CopyDatabase
      BY <3>1 DEF CopyDatabase, Phases, All
    <3>2. CASE \E f \in Files : CopyFile(f)
      BY <3>2, <1>t DEF CopyFile, MaintenanceTypeOK
    <3> QED BY <1>6, <3>1, <3>2
  <2>4. /\ backup' \in [made : BOOLEAN, marked : BOOLEAN, manifest : BOOLEAN, data : Deployment,
                        listed : [All -> Bytes]]
        /\ backup'.made /\ ~backup'.manifest /\ backup'.marked
    <3>1. CASE CopyDatabase
      <4>1. backup' = [backup EXCEPT !.data.rows = source.rows, !.data.files[Database] = "good"]
        BY <3>1 DEF CopyDatabase
      <4> QED BY <4>1, <1>t, <2>1, <2>2 DEF MaintenanceTypeOK, Deployment, Bytes
    <3>2. ASSUME NEW f \in Files, CopyFile(f)
          PROVE  /\ backup' \in [made : BOOLEAN, marked : BOOLEAN, manifest : BOOLEAN,
                                 data : Deployment, listed : [All -> Bytes]]
                 /\ backup'.made /\ ~backup'.manifest /\ backup'.marked
      <4>1. backup' = [backup EXCEPT !.data.files[f] = source.files[f]]
        BY <3>2 DEF CopyFile
      <4> QED BY <4>1, <1>t, <2>1, <2>2 DEF MaintenanceTypeOK, Deployment
    <3> QED BY <1>6, <3>1, <3>2
  <2>5. MaintenanceTypeOK'
    BY <1>t, <2>1, <2>3, <2>4 DEF MaintenanceTypeOK
  <2>6. ManifestTrue' /\ MarkedUntilWhole' /\ CopiedSoFar'
    BY <2>1, <2>3, <2>4 DEF ManifestTrue, MarkedUntilWhole, CopiedSoFar
  <2> QED BY <2>5, <2>6 DEF MaintenanceInv
<1>7. CASE VerifyCopies
  <2>1. work.at = "copy" /\ UNCHANGED <<source, runtime, restored>>
        /\ backup.made /\ ~backup.manifest /\ backup.marked /\ ~restored.made
    BY <1>7, <1>t, NoneRestored DEF VerifyCopies, ManifestTrue
  <2>2. CASE ~Sound(backup.data)
    <3>1. work' = Idle /\ UNCHANGED <<backup, taken>>
      BY <1>7, <2>2 DEF VerifyCopies
    <3>2. MaintenanceTypeOK'
      BY <1>t, <1>i, <2>1, <3>1 DEF MaintenanceTypeOK
    <3> QED BY <2>1, <3>1, <3>2, MaintenanceElsewhere
  <2>3. CASE Sound(backup.data)
    <3>1. /\ backup' = [backup EXCEPT !.manifest = TRUE, !.listed = backup.data.files]
          /\ taken' = backup.data /\ work' = [work EXCEPT !.at = "manifest"]
      BY <1>7, <2>3 DEF VerifyCopies, Proceed
    <3>2. work'.at = "manifest" /\ work' \in [at : Phases, left : SUBSET All]
      BY <1>p, <3>1 DEF Phases
    <3>3. backup.data.files \in [All -> Bytes] /\ backup.data \in Deployment
      BY <1>t DEF MaintenanceTypeOK, Deployment
    <3>4. backup' = [made |-> TRUE, marked |-> TRUE, manifest |-> TRUE, data |-> backup.data,
                     listed |-> backup.data.files]
      BY <1>t, <2>1, <3>1 DEF MaintenanceTypeOK
    <3>5. MaintenanceTypeOK'
      BY <1>t, <2>1, <3>1, <3>2, <3>3, <3>4 DEF MaintenanceTypeOK
    <3>6. Sound(taken)'
      BY <2>3, <3>1 DEF Sound
    <3>7. ManifestTrue' /\ MarkedUntilWhole' /\ CopiedSoFar'
      BY <2>1, <3>1, <3>2, <3>4, <3>6 DEF ManifestTrue, MarkedUntilWhole, CopiedSoFar
    <3> QED BY <3>5, <3>7 DEF MaintenanceInv
  <2> QED BY <2>2, <2>3
<1>8. CASE UnmarkBackup
  <2>1. /\ work.at = "manifest" /\ work' = Idle
        /\ backup' = [backup EXCEPT !.marked = FALSE]
        /\ UNCHANGED <<source, runtime, restored, taken>>
        /\ ~restored.made
    BY <1>8, <1>t, NoneRestored DEF UnmarkBackup, ManifestTrue
  <2>2. backup' \in [made : BOOLEAN, marked : BOOLEAN, manifest : BOOLEAN, data : Deployment,
                     listed : [All -> Bytes]]
        /\ backup'.made = backup.made /\ backup'.manifest = backup.manifest
        /\ backup'.data = backup.data /\ backup'.listed = backup.listed
    BY <1>t, <2>1 DEF MaintenanceTypeOK
  <2>3. MaintenanceTypeOK'
    BY <1>t, <1>i, <2>1, <2>2 DEF MaintenanceTypeOK
  <2>4. ManifestTrue' /\ MarkedUntilWhole' /\ CopiedSoFar'
    BY <1>t, <1>i, <2>1, <2>2 DEF ManifestTrue, MarkedUntilWhole, CopiedSoFar, Sound
  <2> QED BY <2>3, <2>4 DEF MaintenanceInv
<1>9. CASE RestoreBegins
  <2>1. /\ backup.manifest /\ ~backup.marked /\ work' = [work EXCEPT !.at = "back made"]
        /\ UNCHANGED <<source, runtime, backup, taken>>
        /\ restored' = [NotRestored EXCEPT !.made = TRUE]
    BY <1>9 DEF RestoreBegins, Proceed
  <2>2. restored' = [made |-> TRUE, marked |-> {}, data |-> Blank]
    BY <2>1 DEF NotRestored
  <2>3. work'.at = "back made" /\ work' \in [at : Phases, left : SUBSET All]
    BY <1>p, <2>1 DEF Phases
  <2>4. restored' \in [made : BOOLEAN, marked : SUBSET {"data", "skills"}, data : Deployment]
    BY <1>b, <2>2
  <2>5. MaintenanceTypeOK'
    BY <1>t, <2>1, <2>3, <2>4 DEF MaintenanceTypeOK
  <2>6. ManifestTrue' /\ CopiedSoFar'
    BY <1>t, <2>1, <2>3 DEF ManifestTrue, CopiedSoFar, Sound
  <2>7. MarkedUntilWhole'
    <3>1. restored'.made /\ restored'.marked = {} /\ restored'.data = Blank
      BY <2>2
    <3>2. backup'.manifest /\ ~backup'.marked
      BY <2>1
    <3>3. Blank' = Blank
      BY DEF Blank
    <3> QED BY <2>3, <3>1, <3>2, <3>3 DEF MarkedUntilWhole
  <2> QED BY <2>5, <2>6, <2>7 DEF MaintenanceInv
<1>10. CASE MarkData
  <2>1. /\ work.at = "back made" /\ work' = [work EXCEPT !.at = "back skills"]
        /\ UNCHANGED <<source, runtime, backup, taken>>
        /\ restored' = [restored EXCEPT !.marked = {"data"}]
    BY <1>10 DEF MarkData, Proceed
  <2>2. restored' = [made |-> restored.made, marked |-> {"data"}, data |-> restored.data]
    BY <1>t, <2>1 DEF MaintenanceTypeOK
  <2>3. work'.at = "back skills" /\ work' \in [at : Phases, left : SUBSET All]
    BY <1>p, <2>1 DEF Phases
  <2>4. MaintenanceTypeOK'
    BY <1>t, <2>1, <2>2, <2>3, ZenonT(40) DEF MaintenanceTypeOK
  <2>5. ManifestTrue' /\ MarkedUntilWhole' /\ CopiedSoFar'
    BY <1>t, <2>1, <2>2, <2>3 DEF ManifestTrue, MarkedUntilWhole, CopiedSoFar, Sound
  <2> QED BY <2>4, <2>5 DEF MaintenanceInv
<1>11. CASE MarkSkills
  <2> DEFINE left == {f \in All : backup.listed[f] # "absent"}
  <2>1. /\ work.at = "back skills" /\ work' = [at |-> "back copy", left |-> left]
        /\ UNCHANGED <<source, runtime, backup, taken>>
        /\ restored' = [restored EXCEPT !.marked = {"data", "skills"}]
    BY <1>11 DEF MarkSkills
  <2>2. restored' = [made |-> restored.made, marked |-> {"data", "skills"}, data |-> restored.data]
    BY <1>t, <2>1 DEF MaintenanceTypeOK
  <2>3. work'.at = "back copy" /\ work'.left = left /\ work' \in [at : Phases, left : SUBSET All]
    BY <2>1 DEF Phases
  <2>4. MaintenanceTypeOK'
    BY <1>t, <2>1, <2>2, <2>3 DEF MaintenanceTypeOK
  <2>5. /\ backup.listed = taken.files /\ taken.files[Database] = "good"
        /\ restored.data = Blank /\ restored.made
    BY <1>t, <2>1 DEF ManifestTrue, MarkedUntilWhole, Sound
  <2>6. Database \in left /\ \A f \in All \ left : restored.data.files[f] = taken.files[f]
    BY <2>5 DEF Blank, All
  <2>7. CopiedSoFar'
    BY <2>1, <2>2, <2>3, <2>6 DEF CopiedSoFar
  <2>8. ManifestTrue' /\ MarkedUntilWhole'
    BY <1>t, <2>1, <2>2, <2>3, <2>5 DEF ManifestTrue, MarkedUntilWhole, Sound
  <2> QED BY <2>4, <2>7, <2>8 DEF MaintenanceInv
<1>12. ASSUME NEW f \in All, CopyBack(f) PROVE MaintenanceInv'
  <2>1. /\ work.at = "back copy" /\ f \in work.left
        /\ UNCHANGED <<source, runtime, backup, taken>>
        /\ restored' = [restored EXCEPT !.data.files[f] = backup.data.files[f],
                          !.data.rows = IF f = Database THEN backup.data.rows ELSE @]
        /\ work' = IF Matches(f) THEN [work EXCEPT !.left = @ \ {f}] ELSE Idle
    BY <1>12 DEF CopyBack
  <2>2. /\ restored.made /\ restored.marked = {"data", "skills"}
        /\ backup.listed = taken.files /\ backup.data.rows = taken.rows
    BY <1>t, <2>1 DEF ManifestTrue, MarkedUntilWhole
  <2>3. /\ restored.data.files \in [All -> Bytes] /\ restored.data.rows \subseteq Referred
        /\ backup.data.files \in [All -> Bytes] /\ backup.data.rows \subseteq Referred
        /\ restored.data \in Deployment
    BY <1>t DEF MaintenanceTypeOK, Deployment
  <2> DEFINE files == [restored.data.files EXCEPT ![f] = backup.data.files[f]]
             rows == IF f = Database THEN backup.data.rows ELSE restored.data.rows
  <2>a. files \in [All -> Bytes] /\ rows \subseteq Referred
    BY <2>3
  <2>b. restored' = [made |-> restored.made, marked |-> restored.marked,
                     data |-> [rows |-> rows, files |-> files]]
    BY <1>t, <2>1, <2>3 DEF MaintenanceTypeOK, Deployment
  <2>c. \A g \in All : files[g] = IF g = f THEN backup.data.files[f] ELSE restored.data.files[g]
    BY <2>3
  <2>d. rows = IF f = Database THEN backup.data.rows ELSE restored.data.rows
    OBVIOUS
  <2> HIDE DEF files, rows
  <2>e. [rows |-> rows, files |-> files] \in Deployment
    BY <2>a DEF Deployment
  <2>4. /\ restored'.made = restored.made /\ restored'.marked = restored.marked
        /\ restored'.data.files = files /\ restored'.data.rows = rows
        /\ restored' \in [made : BOOLEAN, marked : SUBSET {"data", "skills"}, data : Deployment]
    BY <1>t, <2>b, <2>e DEF MaintenanceTypeOK
  <2>5. work' \in [at : Phases, left : SUBSET All]
        /\ \/ work' = Idle
           \/ (Matches(f) /\ work'.at = "back copy" /\ work'.left = work.left \ {f})
    BY <1>t, <1>i, <2>1 DEF MaintenanceTypeOK
  <2>6. MaintenanceTypeOK'
    BY <1>t, <2>1, <2>4, <2>5 DEF MaintenanceTypeOK
  <2>7. CopiedSoFar'
    <3>1. CASE work' = Idle
      BY <1>i, <3>1 DEF CopiedSoFar
    <3>2. CASE Matches(f) /\ work'.at = "back copy" /\ work'.left = work.left \ {f}
      <4>1. backup.data.files[f] = taken.files[f]
        BY <2>2, <3>2 DEF Matches
      <4>2. \A g \in All \ work'.left : restored'.data.files[g] = taken'.files[g]
        <5>1. \A g \in All \ work.left : restored.data.files[g] = taken.files[g]
          BY <1>t, <2>1 DEF CopiedSoFar
        <5>2. \A g \in All : files[g] = taken.files[g] \/ g \in work.left \ {f}
          BY <2>c, <4>1, <5>1
        <5> QED BY <2>1, <2>4, <3>2, <5>2
      <4>3. Database \notin work'.left => restored'.data.rows = taken'.rows
        BY <1>t, <2>1, <2>2, <2>4, <2>d, <3>2 DEF CopiedSoFar
      <4> QED BY <4>2, <4>3 DEF CopiedSoFar
    <3> QED BY <2>5, <3>1, <3>2
  <2>8. ManifestTrue' /\ MarkedUntilWhole'
    BY <1>t, <1>i, <2>1, <2>2, <2>4, <2>5 DEF ManifestTrue, MarkedUntilWhole, Sound
  <2> QED BY <2>6, <2>7, <2>8 DEF MaintenanceInv
<1>13. CASE VerifyRestored
  <2>1. /\ work.at = "back copy" /\ work.left = {}
        /\ UNCHANGED <<source, runtime, backup, restored, taken>>
        /\ (work' = Idle \/ work' = [work EXCEPT !.at = "back unmark"])
    BY <1>13 DEF VerifyRestored, Proceed
  <2>2. work' \in [at : Phases, left : SUBSET All] /\ work'.at \in {"idle", "back unmark"}
    BY <1>i, <1>p, <2>1 DEF Phases
  <2>3. restored.data = taken
    <3>1. /\ restored.data \in [rows : SUBSET Referred, files : [All -> Bytes]]
          /\ taken \in [rows : SUBSET Referred, files : [All -> Bytes]]
      BY <1>t DEF MaintenanceTypeOK, Deployment
    <3>2. \A f \in All : restored.data.files[f] = taken.files[f]
      BY <1>t, <2>1 DEF CopiedSoFar
    <3>3. restored.data.rows = taken.rows
      BY <1>t, <2>1 DEF CopiedSoFar
    <3>4. restored.data.files = taken.files
      BY <3>1, <3>2
    <3> QED BY <3>1, <3>3, <3>4
  <2>4. MaintenanceTypeOK'
    BY <1>t, <2>1, <2>2 DEF MaintenanceTypeOK
  <2>5. ManifestTrue' /\ MarkedUntilWhole' /\ CopiedSoFar'
    BY <1>t, <2>1, <2>2, <2>3 DEF ManifestTrue, MarkedUntilWhole, CopiedSoFar, Sound
  <2> QED BY <2>4, <2>5 DEF MaintenanceInv
<1>14. CASE Unmark
  <2>1. /\ work.at \in {"back unmark", "back last"} /\ restored.made /\ restored.data = taken
        /\ UNCHANGED <<source, runtime, backup, taken>>
        /\ work.at = "back unmark" => restored.marked = {"data", "skills"}
        /\ work.at = "back last" => restored.marked = {"data"}
    BY <1>14, <1>t DEF Unmark, MarkedUntilWhole
  <2>2. CASE work.at = "back unmark"
    <3>1. /\ work' = [work EXCEPT !.at = "back last"]
          /\ restored' = [restored EXCEPT !.marked = @ \ {"skills"}]
      BY <1>14, <2>2 DEF Unmark, Proceed
    <3>2. restored' = [made |-> TRUE, marked |-> {"data"}, data |-> taken]
      BY <1>t, <2>1, <2>2, <3>1 DEF MaintenanceTypeOK
    <3>3. work'.at = "back last" /\ work' \in [at : Phases, left : SUBSET All]
      BY <1>p, <3>1 DEF Phases
    <3>4. MaintenanceTypeOK'
      BY <1>t, <2>1, <3>2, <3>3 DEF MaintenanceTypeOK
    <3>5. ManifestTrue' /\ MarkedUntilWhole' /\ CopiedSoFar'
      BY <1>t, <2>1, <3>2, <3>3 DEF ManifestTrue, MarkedUntilWhole, CopiedSoFar, Sound
    <3> QED BY <3>4, <3>5 DEF MaintenanceInv
  <2>3. CASE work.at = "back last"
    <3>1. work' = Idle /\ restored' = [restored EXCEPT !.marked = @ \ {"data"}]
      BY <1>14, <2>3 DEF Unmark
    <3>2. restored' = [made |-> TRUE, marked |-> {}, data |-> taken]
      BY <1>t, <2>1, <2>3, <3>1 DEF MaintenanceTypeOK
    <3>3. MaintenanceTypeOK'
      BY <1>t, <1>i, <2>1, <3>1, <3>2, ZenonT(40) DEF MaintenanceTypeOK
    <3>4. ManifestTrue' /\ MarkedUntilWhole' /\ CopiedSoFar'
      BY <1>t, <1>i, <2>1, <3>1, <3>2 DEF ManifestTrue, MarkedUntilWhole, CopiedSoFar, Sound
    <3> QED BY <3>3, <3>4 DEF MaintenanceInv
  <2> QED BY <2>1, <2>2, <2>3
<1>15. CASE Discard
  <2>1. work = Idle /\ UNCHANGED <<source, runtime, work, taken>>
    BY <1>15 DEF Discard
  <2>2. CASE backup.marked \/ ~backup.manifest
    <3>1. ~restored.made
      BY <2>2, NoneRestored
    <3>2. \/ (backup' = NoBackup /\ UNCHANGED restored)
          \/ (restored' = NotRestored /\ UNCHANGED backup)
      BY <1>15 DEF Discard
    <3>3. ~restored'.made /\ ~NoBackup.manifest /\ ~NoBackup.made
      BY <3>1, <3>2 DEF NotRestored, NoBackup
    <3>8. /\ NoBackup \in [made : BOOLEAN, marked : BOOLEAN, manifest : BOOLEAN, data : Deployment,
                           listed : [All -> Bytes]]
          /\ NotRestored \in [made : BOOLEAN, marked : SUBSET {"data", "skills"}, data : Deployment]
      BY <1>b DEF NoBackup, NotRestored
    <3>4. MaintenanceTypeOK'
      BY <1>t, <2>1, <3>2, <3>8 DEF MaintenanceTypeOK
    <3>5. backup' = NoBackup \/ backup' = backup
      BY <3>2
    <3>6. ManifestTrue'
      BY <1>t, <1>i, <2>1, <3>3, <3>5 DEF ManifestTrue, Sound
    <3>7. MarkedUntilWhole' /\ CopiedSoFar'
      BY <1>i, <2>1, <3>3 DEF MarkedUntilWhole, CopiedSoFar
    <3> QED BY <3>4, <3>6, <3>7 DEF MaintenanceInv
  <2>3. CASE ~backup.marked /\ backup.manifest
    <3>1. restored' = NotRestored /\ UNCHANGED backup
      BY <1>15, <2>3 DEF Discard
    <3>2. MaintenanceTypeOK'
      BY <1>t, <1>b, <2>1, <3>1 DEF MaintenanceTypeOK, NotRestored
    <3>3. ManifestTrue' /\ MarkedUntilWhole' /\ CopiedSoFar'
      BY <1>t, <1>i, <2>1, <3>1 DEF ManifestTrue, MarkedUntilWhole, CopiedSoFar, Sound, NotRestored
    <3> QED BY <3>2, <3>3 DEF MaintenanceInv
  <2> QED BY <2>2, <2>3
<1>16. ASSUME NEW f \in All, Rot(f) PROVE MaintenanceInv'
  <2>1. backup' = [backup EXCEPT !.data.files[f] = "bad"]
        /\ UNCHANGED <<source, runtime, work, restored, taken>>
    BY <1>16 DEF Rot
  <2>2. /\ backup' \in [made : BOOLEAN, marked : BOOLEAN, manifest : BOOLEAN, data : Deployment,
                        listed : [All -> Bytes]]
        /\ backup'.made = backup.made /\ backup'.marked = backup.marked
        /\ backup'.manifest = backup.manifest /\ backup'.listed = backup.listed
        /\ backup'.data.rows = backup.data.rows
    <3>1. backup.data \in [rows : SUBSET Referred, files : [All -> Bytes]]
      BY <1>t DEF MaintenanceTypeOK, Deployment
    <3> QED BY <1>t, <2>1, <3>1 DEF MaintenanceTypeOK, Deployment, Bytes
  <2>3. MaintenanceTypeOK'
    BY <1>t, <2>1, <2>2 DEF MaintenanceTypeOK
  <2>4. ManifestTrue' /\ MarkedUntilWhole' /\ CopiedSoFar'
    BY <1>t, <2>1, <2>2 DEF ManifestTrue, MarkedUntilWhole, CopiedSoFar, Sound
  <2> QED BY <2>3, <2>4 DEF MaintenanceInv
<1>17. CASE UNCHANGED maintenanceVars
  <2>1. MaintenanceTypeOK'
    BY <1>t, <1>17 DEF maintenanceVars, MaintenanceTypeOK
  <2> QED BY <1>17, <2>1, MaintenanceElsewhere DEF maintenanceVars
<1>18. Referred \subseteq Files /\ Skills \subseteq Files /\ Files \subseteq All
  BY MaintenanceAssumption DEF All
<1> QED BY <1>1, <1>2, <1>3, <1>4, <1>5, <1>6, <1>7, <1>8, <1>9, <1>10, <1>11, <1>12, <1>13, <1>14,
           <1>15, <1>16, <1>17, <1>18 DEF MaintenanceNext

\* A directory a runtime may open is whole, for any files, rows and skills,
\* wherever a backup or restore died and whatever has rotted.
THEOREM RestoredWholeHolds == MaintenanceSpec => []RestoredWhole
<1>1. MaintenanceInv => RestoredWhole
  BY DEF MaintenanceInv, ManifestTrue, MarkedUntilWhole, RestoredWhole, MayOpen
<1> QED BY MaintenanceInitInv, MaintenanceStepInv, <1>1, PTL DEF MaintenanceSpec

(* ------------------------------- the skills ------------------------------- *)

\* installs one of each package, so that no two are versions of the same one
OneEach(installs) ==
  \A i, j \in installs : PackageOf[i] = PackageOf[j] => i = j

\* a run uses what it pinned, from its first prompt on
UsesPinned ==
  \A r \in SkillRuns :
    /\ OneEach(pinned[r].installs)
    /\ used[r] \subseteq pinned[r].installs
    /\ attempt[r].compiled => pinned[r].pinned
    /\ ~pinned[r].pinned => pinned[r].installs = {}
    /\ attempt[r].reading # "none" => attempt[r].reading \in pinned[r].installs

\* an install is recorded after its snapshot is in place
SnapshotFirst ==
  /\ \A c \in Installers :
       /\ installing[c].at # "idle" => installing[c].install \in Installs
       /\ installing[c].at = "placed" => installing[c].install \in snapshots
  /\ installed \subseteq snapshots

CapabilityInv == CapabilityTypeOK /\ UsesPinned /\ SnapshotFirst

\* A workspace without skills has its invariant.
LEMMA CapabilityInitInv == CapabilityInit => CapabilityInv
<1> SUFFICES ASSUME CapabilityInit PROVE CapabilityInv
    OBVIOUS
<1> USE DEF CapabilityInit, NotInstalling, NotPinned, NoAttempt
<1>1. CapabilityTypeOK
  BY DEF CapabilityTypeOK
<1>2. UsesPinned /\ SnapshotFirst
  BY DEF UsesPinned, SnapshotFirst, OneEach
<1> QED BY <1>1, <1>2 DEF CapabilityInv

\* Steps of the installers: the snapshots grow, and a placed one stays.
LEMMA InstallingInv ==
  ASSUME CapabilityInv, NEW c \in Installers, NEW row,
         row \in [at : {"idle", "staged", "missing", "placed"}, install : Installs \union {"none"}],
         installing' = [installing EXCEPT ![c] = row],
         row.at # "idle" => row.install \in Installs,
         row.at = "placed" => row.install \in snapshots',
         snapshots \subseteq snapshots', snapshots' \subseteq Installs,
         installed' \subseteq snapshots',
         UNCHANGED <<binding, pinned, attempt, used>>
  PROVE  CapabilityInv'
<1>1. CapabilityTypeOK'
  BY DEF CapabilityInv, CapabilityTypeOK
<1>2. SnapshotFirst'
  BY DEF CapabilityInv, CapabilityTypeOK, SnapshotFirst
<1>3. UsesPinned'
  BY DEF CapabilityInv, UsesPinned
<1> QED BY <1>1, <1>2, <1>3 DEF CapabilityInv

\* Every step of installers, workspace and runs keeps the invariant.
LEMMA CapabilityStepInv == CapabilityInv /\ [CapabilityNext]_capabilityVars => CapabilityInv'
<1> SUFFICES ASSUME CapabilityInv, [CapabilityNext]_capabilityVars PROVE CapabilityInv'
    OBVIOUS
<1>t. CapabilityTypeOK /\ UsesPinned /\ SnapshotFirst
  BY DEF CapabilityInv
<1>1. ASSUME NEW c \in Installers,
             (\E i \in Installs : Stage(c, i)) \/ LookForSnapshot(c) \/ PlaceSnapshot(c)
             \/ SaveInstall(c) \/ InstallFails(c)
      PROVE  CapabilityInv'
  <2> DEFINE Rows == [at : {"idle", "staged", "missing", "placed"}, install : Installs \union {"none"}]
             KeptSkill == UNCHANGED <<binding, pinned, attempt, used>>
  <2>1. /\ snapshots \subseteq Installs /\ installed \subseteq snapshots
        /\ NotInstalling \in Rows /\ NotInstalling.at = "idle"
        /\ installing[c] \in Rows
        /\ installing[c].at # "idle" => installing[c].install \in Installs
        /\ installing[c].at = "placed" => installing[c].install \in snapshots
    BY <1>t DEF CapabilityTypeOK, SnapshotFirst, NotInstalling
  <2>2. ASSUME NEW i \in Installs, Stage(c, i) PROVE CapabilityInv'
    <3>1. KeptSkill /\ UNCHANGED <<snapshots, installed>>
          /\ installing' = [installing EXCEPT ![c] = [at |-> "staged", install |-> i]]
      BY <2>2 DEF Stage
    <3>2. [at |-> "staged", install |-> i] \in Rows
      OBVIOUS
    <3> QED BY <2>1, <3>1, <3>2, InstallingInv
  <2>3. CASE InstallFails(c) \/ (PlaceSnapshot(c) /\ UNCHANGED snapshots)
    <3>1. KeptSkill /\ UNCHANGED <<snapshots, installed>>
          /\ installing' = [installing EXCEPT ![c] = NotInstalling]
      BY <2>3 DEF InstallFails, PlaceSnapshot
    <3> QED BY <2>1, <3>1, InstallingInv
  <2>4. CASE SaveInstall(c)
    <3>1. KeptSkill /\ UNCHANGED snapshots /\ installed' \subseteq snapshots
          /\ installing' = [installing EXCEPT ![c] = NotInstalling]
      BY <2>1, <2>4 DEF SaveInstall
    <3> QED BY <2>1, <3>1, InstallingInv
  <2>5. ASSUME NEW at \in {"missing", "placed"},
               installing' = [installing EXCEPT ![c].at = at],
               installing[c].at # "idle",
               snapshots' = snapshots \/ snapshots' = snapshots \union {installing[c].install},
               at = "placed" => installing[c].install \in snapshots',
               UNCHANGED installed, KeptSkill
        PROVE  CapabilityInv'
    <3> DEFINE row == [at |-> at, install |-> installing[c].install]
    <3>1. row \in Rows /\ row.at = at /\ row.install = installing[c].install
      BY <2>1, <2>5
    <3>2. [installing[c] EXCEPT !.at = at] = row
      BY <2>1
    <3>3. installing' = [installing EXCEPT ![c] = row]
      BY <2>5, <3>2, <1>t DEF CapabilityTypeOK
    <3> HIDE DEF row
    <3>4. /\ row.at # "idle" => row.install \in Installs
          /\ row.at = "placed" => row.install \in snapshots'
      BY <2>1, <2>5, <3>1
    <3>5. /\ snapshots \subseteq snapshots' /\ snapshots' \subseteq Installs
          /\ installed' \subseteq snapshots'
      BY <2>1, <2>5
    <3>6. UNCHANGED <<binding, pinned, attempt, used>>
      BY <2>5
    <3> QED BY <3>1, <3>3, <3>4, <3>5, <3>6, InstallingInv
  <2>6. CASE LookForSnapshot(c)
    <3>1. CASE installing[c].install \in snapshots
      BY <2>5, <2>6, <3>1 DEF LookForSnapshot
    <3>2. CASE installing[c].install \notin snapshots
      BY <2>5, <2>6, <3>2 DEF LookForSnapshot
    <3> QED BY <3>1, <3>2
  <2>7. CASE PlaceSnapshot(c)
    <3>1. CASE installing[c].install \in snapshots
      BY <2>3, <2>7, <3>1 DEF PlaceSnapshot
    <3>2. CASE installing[c].install \notin snapshots
      BY <2>5, <2>7, <3>2 DEF PlaceSnapshot
    <3> QED BY <3>1, <3>2
  <2> QED BY <1>1, <2>2, <2>3, <2>4, <2>6, <2>7
<1>2. ASSUME NEW i \in Installs, NEW enabled \in BOOLEAN, BindSkill(i, enabled) PROVE CapabilityInv'
  <2>1. UNCHANGED <<snapshots, installed, installing, pinned, attempt, used>>
    BY <1>2 DEF BindSkill
  <2>2. binding' \in [Packages -> [install : Installs \union {"none"}, enabled : BOOLEAN]]
    BY <1>2, <1>t DEF BindSkill, CapabilityTypeOK, Packages
  <2> QED BY <1>t, <2>1, <2>2
          DEF CapabilityInv, CapabilityTypeOK, UsesPinned, SnapshotFirst
<1>3. ASSUME NEW r \in SkillRuns, NEW requested \in SUBSET Installs, Compile(r, requested)
      PROVE  CapabilityInv'
  <2>1. /\ requested \subseteq Usable(r) /\ Usable(r) \subseteq Installs
        /\ attempt' = [attempt EXCEPT ![r].compiled = TRUE]
        /\ used' = [used EXCEPT ![r] = @ \union requested]
        /\ UNCHANGED <<snapshots, installed, binding, installing>>
    BY <1>3 DEF Compile, Usable
  <2>2. pinned[r].pinned => Usable(r) \subseteq pinned[r].installs
    BY DEF Usable, CanUse
  <2>3. ~pinned[r].pinned => OneEach(Usable(r))
    BY DEF Usable, CanUse, OneEach
  <2>4. /\ pinned' \in [SkillRuns -> [pinned : BOOLEAN, installs : SUBSET Installs]]
        /\ pinned'[r].pinned /\ OneEach(pinned'[r].installs)
        /\ requested \subseteq pinned'[r].installs
        /\ pinned[r].installs \subseteq pinned'[r].installs
        /\ \A q \in SkillRuns \ {r} : pinned'[q] = pinned[q]
    <3>1. CASE pinned[r].pinned
      <4>1. pinned' = pinned
        BY <1>3, <3>1 DEF Compile
      <4> QED BY <1>t, <2>1, <2>2, <3>1, <4>1 DEF CapabilityTypeOK, UsesPinned
    <3>2. CASE ~pinned[r].pinned
      <4>1. pinned' = [pinned EXCEPT ![r] = [pinned |-> TRUE, installs |-> Usable(r)]]
        BY <1>3, <3>2 DEF Compile
      <4>2. pinned[r].installs = {}
        BY <1>t, <3>2 DEF UsesPinned
      <4> QED BY <1>t, <2>1, <2>3, <3>2, <4>1, <4>2 DEF CapabilityTypeOK
    <3> QED BY <3>1, <3>2
  <2>5. /\ attempt' \in [SkillRuns -> [compiled : BOOLEAN, reading : Installs \union {"none"}]]
        /\ attempt'[r].reading = attempt[r].reading
        /\ \A q \in SkillRuns \ {r} : attempt'[q] = attempt[q]
    BY <1>t, <2>1 DEF CapabilityTypeOK
  <2>6. /\ used' \in [SkillRuns -> SUBSET Installs] /\ used'[r] = used[r] \union requested
        /\ \A q \in SkillRuns \ {r} : used'[q] = used[q]
    BY <1>t, <2>1 DEF CapabilityTypeOK
  <2>7. UsesPinned'
    <3> SUFFICES ASSUME NEW q \in SkillRuns
                 PROVE  /\ OneEach(pinned'[q].installs)
                        /\ used'[q] \subseteq pinned'[q].installs
                        /\ attempt'[q].compiled => pinned'[q].pinned
                        /\ ~pinned'[q].pinned => pinned'[q].installs = {}
                        /\ attempt'[q].reading # "none" => attempt'[q].reading \in pinned'[q].installs
        BY DEF UsesPinned, OneEach
    <3>1. CASE q = r
      BY <1>t, <2>4, <2>5, <2>6, <3>1 DEF UsesPinned
    <3>2. CASE q # r
      BY <1>t, <2>4, <2>5, <2>6, <3>2 DEF UsesPinned
    <3> QED BY <3>1, <3>2
  <2>8. CapabilityTypeOK' /\ SnapshotFirst'
    BY <1>t, <2>1, <2>4, <2>5, <2>6 DEF CapabilityTypeOK, SnapshotFirst
  <2> QED BY <2>7, <2>8 DEF CapabilityInv
<1>4. ASSUME NEW r \in SkillRuns, NEW i \in Installs, BeginSkillRead(r, i) PROVE CapabilityInv'
  <2>1. /\ attempt[r].compiled /\ CanUse(r, i)
        /\ attempt' = [attempt EXCEPT ![r].reading = i]
        /\ UNCHANGED <<snapshots, installed, binding, installing, pinned, used>>
    BY <1>4 DEF BeginSkillRead
  <2>2. i \in pinned[r].installs
    BY <1>t, <2>1 DEF UsesPinned, CanUse
  <2>3. CapabilityTypeOK' /\ SnapshotFirst'
    BY <1>t, <2>1 DEF CapabilityTypeOK, SnapshotFirst
  <2>4. UsesPinned'
    BY <1>t, <2>1, <2>2 DEF CapabilityTypeOK, UsesPinned
  <2> QED BY <2>3, <2>4 DEF CapabilityInv
<1>5. ASSUME NEW r \in SkillRuns, EndSkillRead(r) PROVE CapabilityInv'
  <2>1. /\ attempt[r].reading # "none" /\ attempt' = [attempt EXCEPT ![r].reading = "none"]
        /\ used' = [used EXCEPT ![r] = @ \union {attempt[r].reading}]
        /\ UNCHANGED <<snapshots, installed, binding, installing, pinned>>
    BY <1>5 DEF EndSkillRead
  <2>2. CapabilityTypeOK' /\ SnapshotFirst'
    BY <1>t, <2>1 DEF CapabilityTypeOK, SnapshotFirst
  <2>3. UsesPinned'
    BY <1>t, <2>1 DEF CapabilityTypeOK, UsesPinned
  <2> QED BY <2>2, <2>3 DEF CapabilityInv
<1>6. CASE CapabilityCrash \/ \E r \in SkillRuns : NextAttempt(r)
  <2>1. /\ UNCHANGED <<snapshots, installed, binding, pinned, used>>
        /\ installing' \in {installing, [c \in Installers |-> NotInstalling]}
    BY <1>6 DEF NextAttempt, CapabilityCrash
  <2>2. attempt' \in [SkillRuns -> [compiled : BOOLEAN, reading : Installs \union {"none"}]]
        /\ \A r \in SkillRuns : attempt'[r] \in {attempt[r], NoAttempt}
    <3>1. /\ NoAttempt \in [compiled : BOOLEAN, reading : Installs \union {"none"}]
          /\ attempt \in [SkillRuns -> [compiled : BOOLEAN, reading : Installs \union {"none"}]]
      BY <1>t DEF CapabilityTypeOK, NoAttempt
    <3>2. CASE CapabilityCrash
      BY <3>1, <3>2 DEF CapabilityCrash
    <3>3. ASSUME NEW r \in SkillRuns, attempt' = [attempt EXCEPT ![r] = NoAttempt]
          PROVE  /\ attempt' \in [SkillRuns -> [compiled : BOOLEAN, reading : Installs \union {"none"}]]
                 /\ \A q \in SkillRuns : attempt'[q] \in {attempt[q], NoAttempt}
      BY <3>1, <3>3
    <3> QED BY <1>6, <3>2, <3>3 DEF NextAttempt
  <2>3. CapabilityTypeOK'
    BY <1>t, <2>1, <2>2 DEF CapabilityTypeOK, NotInstalling
  <2>4. SnapshotFirst'
    BY <1>t, <2>1 DEF SnapshotFirst, NotInstalling
  <2>5. UsesPinned'
    BY <1>t, <2>1, <2>2 DEF UsesPinned, NoAttempt
  <2> QED BY <2>3, <2>4, <2>5 DEF CapabilityInv
<1>7. CASE UNCHANGED capabilityVars
  BY <1>t, <1>7 DEF capabilityVars, CapabilityInv, CapabilityTypeOK, UsesPinned, SnapshotFirst
<1> QED BY <1>1, <1>2, <1>3, <1>4, <1>5, <1>6, <1>7 DEF CapabilityNext

\* A run works with one version of a package and every recorded install is on
\* disk, for any packages, installers, runs, switches and crashes.
THEOREM OneVersionPerRunHolds == CapabilitySpec => []OneVersionPerRun
<1>1. CapabilityInv => OneVersionPerRun
  BY DEF CapabilityInv, UsesPinned, OneEach, SnapshotFirst, OneVersionPerRun
<1> QED BY CapabilityInitInv, CapabilityStepInv, <1>1, PTL DEF CapabilitySpec

(* ------------------------------- the records ------------------------------ *)

\* the two memories hold the same
SameStores == plain = [records |-> memories, deletions |-> deletions]

\* a message that is not answered has not led to remember anything, and one
\* that has not arrived has no command
OwnRecord ==
  \A m \in Messages : /\ message[m].at # "answered" => memories[m] = NoRecord
                      /\ message[m].at = "new" => message[m] = NoMessage

Remembered(m, by) == \E n \in Messages : memories[n].key = Key(m, by)
Switched(m, x) ==
  \E k \in 1..Len(bindings[message[m].from]) : bindings[message[m].from][k] = <<"project", x>>

\* what an answered command has left in the tables
Carried(m) ==
  /\ \A about \in {"private", "group", "here"} : message[m].command = <<"remember", about>> =>
       IF about = "private" /\ InGroup(m) THEN message[m].answer = "refused"
       ELSE message[m].answer = "remembered" /\ Remembered(m, "command")
  /\ \A n \in Messages : message[m].command = <<"delete", n>> =>
       deletions[m] # "never" /\ message[m].answer = deletions[m]
  /\ \A x \in Projects : message[m].command = <<"use", x>> =>
       IF InGroup(m) THEN message[m].answer = "refused"
       ELSE message[m].answer = "switched" /\ Switched(m, x)
  /\ message[m].command[1] = "say" => message[m].answer = "none" /\ Remembered(m, "promotion")

AnsweredOnce == \A m \in Messages : message[m].at = "answered" => Carried(m)

RecordsInv == RecordsTypeOK /\ SameStores /\ OwnRecord /\ AnsweredOnce

\* Names of different kinds differ.
LEMMA KindsDiffer ==
  /\ \A a, b : <<a, b>> # None
  /\ None \notin Identities /\ None \notin Workspaces
  /\ \A a, b, c, d : <<a, b>> = <<c, d>> => a = c /\ b = d
  /\ \A m, by : Key(m, by) # None
<1>1. None \notin Identities
  BY DEF None, Identities
<1>2. None \notin Workspaces
  BY DEF None, Workspaces
<1>3. \A a, b : <<a, b>> # None
  BY DEF None
<1>4. \A a, b, c, d : <<a, b>> = <<c, d>> => a = c /\ b = d
  OBVIOUS
<1>5. \A m, by : Key(m, by) # None
  BY <1>3 DEF Key
<1> QED BY <1>1, <1>2, <1>3, <1>4, <1>5

\* A store without messages has its invariant.
LEMMA RecordsInitInv == RecordsInit => RecordsInv
<1> SUFFICES ASSUME RecordsInit PROVE RecordsInv
    OBVIOUS
<1>1. NoRecord \in MemoryRow
  BY DEF NoRecord, MemoryRow, Scopes
<1>2. NoMessage \in MessageRow /\ NoMessage.at = "new"
  BY DEF NoMessage, MessageRow
<1>3. NoRecords \in [Messages -> MemoryRow] /\ NotAsked \in [Messages -> {"never", "yes", "no"}]
  BY <1>1 DEF NoRecords, NotAsked
<1>4. RecordsTypeOK
  BY <1>2, <1>3 DEF RecordsInit, RecordsTypeOK
<1>5. SameStores /\ OwnRecord /\ AnsweredOnce
  BY <1>2 DEF RecordsInit, SameStores, OwnRecord, AnsweredOnce, NoRecords
<1> QED BY <1>4, <1>5 DEF RecordsInv

\* What a message has left stays: no key, no deletion and no binding is lost.
LEMMA CarriedStays ==
  ASSUME RecordsInv, NEW m \in Messages, message[m].at = "answered",
         message'[m] = message[m],
         \A n \in Messages : memories'[n].key = memories[n].key \/ memories[n] = NoRecord,
         deletions'[m] = deletions[m] \/ deletions[m] = "never",
         \A i \in Identities :
           /\ Len(bindings'[i]) \in Nat /\ Len(bindings'[i]) >= Len(bindings[i])
           /\ \A k \in 1..Len(bindings[i]) : bindings'[i][k] = bindings[i][k]
  PROVE  Carried(m)'
<1>1. Carried(m) /\ message[m].from \in Identities /\ Len(bindings[message[m].from]) \in Nat
  BY DEF RecordsInv, AnsweredOnce, RecordsTypeOK, MessageRow
<1>2. ASSUME NEW by \in {"command", "promotion"}, Remembered(m, by) PROVE Remembered(m, by)'
  <2>1. PICK n \in Messages : memories[n].key = Key(m, by)
    BY <1>2 DEF Remembered
  <2>2. memories[n] # NoRecord
    BY <2>1, KindsDiffer DEF NoRecord
  <2>3. memories'[n].key = Key(m, by)
    BY <2>1, <2>2
  <2> QED BY <2>3 DEF Remembered, Key
<1>3. ASSUME NEW x \in Projects, Switched(m, x) PROVE Switched(m, x)'
  BY <1>1, <1>3 DEF Switched
<1>4. InGroup(m)' = InGroup(m)
  BY DEF InGroup
<1>5. ASSUME NEW about \in {"private", "group", "here"}, message'[m].command = <<"remember", about>>
      PROVE  IF about = "private" /\ InGroup(m)' THEN message'[m].answer = "refused"
             ELSE message'[m].answer = "remembered" /\ Remembered(m, "command")'
  BY <1>1, <1>2, <1>4, <1>5 DEF Carried
<1>6. ASSUME NEW n \in Messages, message'[m].command = <<"delete", n>>
      PROVE  deletions'[m] # "never" /\ message'[m].answer = deletions'[m]
  BY <1>1, <1>6 DEF Carried
<1>7. ASSUME NEW x \in Projects, message'[m].command = <<"use", x>>
      PROVE  IF InGroup(m)' THEN message'[m].answer = "refused"
             ELSE message'[m].answer = "switched" /\ Switched(m, x)'
  BY <1>1, <1>3, <1>4, <1>7 DEF Carried
<1>8. ASSUME message'[m].command[1] = "say"
      PROVE  message'[m].answer = "none" /\ Remembered(m, "promotion")'
  BY <1>1, <1>2, <1>8 DEF Carried
<1> QED BY <1>5, <1>6, <1>7, <1>8 DEF Carried

\* What remember() does to both memories.
LEMMA RememberKeeps ==
  ASSUME RecordsInv, NEW m \in Messages, NEW scope \in Identities \union Workspaces,
         NEW by \in {"command", "promotion"}, Remember(scope, m, by),
         message[m].at = "answered" => Remembered(m, by)
  PROVE  /\ memories' \in [Messages -> MemoryRow]
         /\ plain' = [records |-> memories', deletions |-> deletions]
         /\ \A n \in Messages : memories'[n].key = memories[n].key \/ memories[n] = NoRecord
         /\ \A n \in Messages \ {m} : memories'[n] = memories[n]
         /\ Remembered(m, by)'
         /\ message[m].at = "answered" => memories' = memories
<1>1. /\ plain = [records |-> memories, deletions |-> deletions]
      /\ memories \in [Messages -> MemoryRow]
  BY DEF RecordsInv, RecordsTypeOK, SameStores
<1>2. Kept(m, by) = Same(m, by)
  BY <1>1 DEF Kept, Same
<1>3. CASE Same(m, by) = {}
  <2>1. message[m].at # "answered" /\ memories[m] = NoRecord
    BY <1>3 DEF Remembered, Same, RecordsInv, OwnRecord
  <2>2. /\ memories' = [memories EXCEPT ![m] = Record(scope, m, by)]
        /\ plain' = [plain EXCEPT !.records[m] = Record(scope, m, by)]
    BY <1>2, <1>3 DEF Remember
  <2>3. Record(scope, m, by) \in MemoryRow /\ Record(scope, m, by).key = Key(m, by)
    BY DEF Record, MemoryRow, Scopes, Key
  <2>4. memories'[m].key = Key(m, by)
    BY <1>1, <2>2, <2>3
  <2>5. Remembered(m, by)'
    BY <2>4 DEF Remembered, Key
  <2>6. plain' = [records |-> memories', deletions |-> deletions]
    BY <1>1, <2>2
  <2> QED BY <1>1, <2>1, <2>2, <2>3, <2>5, <2>6
<1>4. CASE Same(m, by) # {}
  <2>1. memories' = memories /\ plain' = plain
    BY <1>2, <1>4 DEF Remember
  <2>2. Remembered(m, by)
    BY <1>4 DEF Same, Remembered
  <2>3. Remembered(m, by)'
    BY <2>1, <2>2 DEF Remembered, Key
  <2> QED BY <1>1, <2>1, <2>3
<1> QED BY <1>3, <1>4

\* What a new binding does: it comes last, and once.
LEMMA BindingKeeps ==
  ASSUME RecordsInv, NEW i \in Identities, NEW w \in Workspaces, bindings' = Binding(i, w)
  PROVE  /\ bindings' \in [Identities -> Seq(Workspaces)]
         /\ \A j \in Identities :
              /\ Len(bindings'[j]) \in Nat /\ Len(bindings'[j]) >= Len(bindings[j])
              /\ \A k \in 1..Len(bindings[j]) : bindings'[j][k] = bindings[j][k]
         /\ \E k \in 1..Len(bindings'[i]) : bindings'[i][k] = w
         /\ (\E k \in 1..Len(bindings[i]) : bindings[i][k] = w) => bindings' = bindings
<1>1. bindings \in [Identities -> Seq(Workspaces)]
  BY DEF RecordsInv, RecordsTypeOK
<1>2. DOMAIN bindings[i] = 1..Len(bindings[i]) /\ Len(bindings[i]) \in Nat
      /\ bindings[i] \in Seq(Workspaces)
  BY <1>1
<1>3. CASE \E n \in DOMAIN bindings[i] : bindings[i][n] = w
  <2>1. bindings' = bindings
    BY <1>3 DEF Binding
  <2> QED BY <1>1, <1>2, <1>3, <2>1
<1>4. CASE ~\E n \in DOMAIN bindings[i] : bindings[i][n] = w
  <2>1. bindings' = [bindings EXCEPT ![i] = Append(bindings[i], w)]
    BY <1>4 DEF Binding
  <2>2. /\ Append(bindings[i], w) \in Seq(Workspaces)
        /\ Len(Append(bindings[i], w)) = Len(bindings[i]) + 1
        /\ \A k \in 1..Len(bindings[i]) : Append(bindings[i], w)[k] = bindings[i][k]
        /\ Append(bindings[i], w)[Len(bindings[i]) + 1] = w
    BY <1>2
  <2>3. bindings' \in [Identities -> Seq(Workspaces)] /\ bindings'[i] = Append(bindings[i], w)
        /\ \A j \in Identities \ {i} : bindings'[j] = bindings[j]
    BY <1>1, <2>1, <2>2
  <2>4. \A j \in Identities :
              /\ Len(bindings'[j]) \in Nat /\ Len(bindings'[j]) >= Len(bindings[j])
              /\ \A k \in 1..Len(bindings[j]) : bindings'[j][k] = bindings[j][k]
    <3> SUFFICES ASSUME NEW j \in Identities
                 PROVE  /\ Len(bindings'[j]) \in Nat /\ Len(bindings'[j]) >= Len(bindings[j])
                        /\ \A k \in 1..Len(bindings[j]) : bindings'[j][k] = bindings[j][k]
        OBVIOUS
    <3>1. CASE j = i
      <4>1. Len(bindings'[i]) = Len(bindings[i]) + 1
        BY <2>2, <2>3
      <4>2. Len(bindings'[i]) \in Nat /\ Len(bindings'[i]) >= Len(bindings[i])
        BY <1>2, <4>1
      <4> QED BY <2>2, <2>3, <3>1, <4>2
    <3>2. CASE j # i
      <4>1. bindings'[j] = bindings[j] /\ Len(bindings[j]) \in Nat
        BY <1>1, <2>3, <3>2
      <4> QED BY <4>1
    <3> QED BY <3>1, <3>2
  <2>5. Len(bindings[i]) + 1 \in 1..Len(bindings'[i])
    <3> DEFINE n == Len(bindings[i])
    <3>1. n \in Nat /\ Len(bindings'[i]) = n + 1
      BY <1>2, <2>2, <2>3
    <3> HIDE DEF n
    <3>2. n + 1 \in 1..(n + 1)
      BY <3>1
    <3> QED BY <3>1, <3>2 DEF n
  <2> QED BY <1>2, <1>4, <2>2, <2>3, <2>4, <2>5
<1> QED BY <1>3, <1>4

\* A message that is answered keeps what it is and changes nobody else.
LEMMA AnswerKeeps ==
  ASSUME RecordsInv, NEW m \in Messages, NEW text,
         text \in {"none", "refused", "remembered", "switched", "yes", "no"}, Answers(m, text),
         message[m].at # "new"
  PROVE  /\ message' \in [Messages -> MessageRow]
         /\ \A n \in Messages \ {m} : message'[n] = message[n]
         /\ message'[m].at = "answered" /\ message'[m].answer = text
         /\ message'[m].command = message[m].command /\ message'[m].from = message[m].from
         /\ message'[m].workspace = message[m].workspace
         /\ message[m].at = "answered" /\ message[m].answer = text => message' = message
<1>1. message \in [Messages -> MessageRow]
  BY DEF RecordsInv, RecordsTypeOK
<1> QED BY <1>1, ZenonT(40) DEF Answers, MessageRow

\* A command that is carried out keeps the invariant, given what it leaves.
LEMMA CarryKeeps ==
  ASSUME RecordsInv, NEW m \in Messages, NEW text,
         text \in {"none", "refused", "remembered", "switched", "yes", "no"}, Answers(m, text),
         message[m].at # "new", UNCHANGED <<known, fixed>>,
         bindings' \in [Identities -> Seq(Workspaces)],
         \A i \in Identities :
           /\ Len(bindings'[i]) \in Nat /\ Len(bindings'[i]) >= Len(bindings[i])
           /\ \A k \in 1..Len(bindings[i]) : bindings'[i][k] = bindings[i][k],
         memories' \in [Messages -> MemoryRow],
         deletions' \in [Messages -> {"never", "yes", "no"}],
         plain' = [records |-> memories', deletions |-> deletions'],
         \A n \in Messages : memories'[n].key = memories[n].key \/ memories[n] = NoRecord,
         \A n \in Messages \ {m} : memories[n] = NoRecord => memories'[n] = NoRecord,
         \A n \in Messages : deletions'[n] = deletions[n] \/ deletions[n] = "never",
         Carried(m)'
  PROVE  RecordsInv'
<1>1. /\ message' \in [Messages -> MessageRow]
      /\ \A n \in Messages \ {m} : message'[n] = message[n]
      /\ message'[m].at = "answered" /\ message'[m].from = message[m].from
      /\ message'[m].workspace = message[m].workspace
  BY AnswerKeeps
<1>2. RecordsTypeOK'
  <2>1. ASSUME NEW n \in Messages, message'[n].at # "new"
        PROVE  message'[n].from # None /\ message'[n].workspace # None
    <3>1. \A k \in Messages : message[k].at # "new" => message[k].from # None /\ message[k].workspace # None
      BY DEF RecordsInv, RecordsTypeOK
    <3>2. CASE n = m
      BY <1>1, <3>1, <3>2
    <3>3. CASE n # m
      BY <1>1, <2>1, <3>1, <3>3
    <3> QED BY <3>2, <3>3
  <2>2. plain' \in [records : [Messages -> MemoryRow], deletions : [Messages -> {"never", "yes", "no"}]]
    OBVIOUS
  <2> QED BY <1>1, <2>1, <2>2 DEF RecordsInv, RecordsTypeOK
<1>3. SameStores'
  BY DEF SameStores
<1>4. OwnRecord'
  BY <1>1 DEF RecordsInv, OwnRecord
<1>5. AnsweredOnce'
  <2> SUFFICES ASSUME NEW n \in Messages, message'[n].at = "answered" PROVE Carried(n)'
      BY DEF AnsweredOnce
  <2>1. CASE n = m
    BY <2>1
  <2>2. CASE n # m
    <3>1. message[n].at = "answered" /\ message'[n] = message[n]
      BY <1>1, <2>2
    <3> QED BY <3>1, CarriedStays
  <2> QED BY <2>1, <2>2
<1> QED BY <1>2, <1>3, <1>4, <1>5 DEF RecordsInv

\* Nothing is lost by what is left alone.
LEMMA Unlost ==
  ASSUME RecordsInv
  PROVE  /\ bindings \in [Identities -> Seq(Workspaces)] /\ memories \in [Messages -> MemoryRow]
         /\ deletions \in [Messages -> {"never", "yes", "no"}]
         /\ plain = [records |-> memories, deletions |-> deletions]
         /\ \A i \in Identities : Len(bindings[i]) \in Nat /\ Len(bindings[i]) >= Len(bindings[i])
         /\ \A m \in Messages : message[m].at # "new" => /\ message[m].from \in Identities
                                                         /\ message[m].workspace \in Workspaces
         /\ \A m \in Messages : message[m].at = "new" => message[m].command = None
<1>1. \A i \in Identities : Len(bindings[i]) \in Nat
  BY DEF RecordsInv, RecordsTypeOK
<1>2. \A m \in Messages : message[m].at = "new" => message[m].command = None
  BY DEF RecordsInv, OwnRecord, NoMessage
<1> QED BY <1>1, <1>2 DEF RecordsInv, RecordsTypeOK, SameStores, MessageRow

\* /memory remember: kept once, answered the same each time.
LEMMA RememberCommandInv ==
  ASSUME RecordsInv, NEW m \in Messages, NEW about \in {"private", "group", "here"},
         RememberCommand(m, about)
  PROVE  /\ RecordsInv'
         /\ message[m].at = "answered" =>
              UNCHANGED <<memories, deletions, bindings, plain, message>>
<1>1. /\ message[m].command = <<"remember", about>> /\ message[m].at # "new"
      /\ UNCHANGED <<known, bindings, fixed, deletions>>
  BY Unlost, KindsDiffer DEF RememberCommand
<1>2. \A n \in Messages : message[m].command # <<"delete", n>>
  BY <1>1
<1>3. \A x \in Projects : message[m].command # <<"use", x>>
  BY <1>1
<1>4. message[m].command[1] # "say"
  BY <1>1
<1>5. \A other \in {"private", "group", "here"} :
        message[m].command = <<"remember", other>> => other = about
  BY <1>1
<1>6. CASE about = "private" /\ InGroup(m)
  <2>1. Answers(m, "refused") /\ UNCHANGED <<memories, plain>>
    BY <1>6 DEF RememberCommand
  <2>2. /\ message'[m].command = message[m].command /\ message'[m].answer = "refused"
        /\ message'[m].workspace = message[m].workspace
        /\ message[m].at = "answered" /\ message[m].answer = "refused" => message' = message
    BY <1>1, <2>1, AnswerKeeps
  <2>3. Carried(m)'
    BY <1>2, <1>3, <1>4, <1>5, <1>6, <2>2 DEF Carried, InGroup
  <2>4. RecordsInv'
    BY <1>1, <2>1, <2>3, Unlost, CarryKeeps
  <2>5. message[m].at = "answered" => message[m].answer = "refused"
    BY <1>1, <1>6 DEF RecordsInv, AnsweredOnce, Carried
  <2> QED BY <1>1, <2>1, <2>2, <2>4, <2>5
<1>7. CASE ~(about = "private" /\ InGroup(m))
  <2> DEFINE scope == IF about = "private" \/ (about = "here" /\ ~InGroup(m))
                        THEN message[m].from ELSE message[m].workspace
  <2>1. Answers(m, "remembered") /\ Remember(scope, m, "command")
    BY <1>7 DEF RememberCommand
  <2>2. scope \in Identities \union Workspaces
    BY <1>1, Unlost
  <2> HIDE DEF scope
  <2>3. /\ message'[m].command = message[m].command /\ message'[m].answer = "remembered"
        /\ message'[m].workspace = message[m].workspace
        /\ message[m].at = "answered" /\ message[m].answer = "remembered" => message' = message
    BY <1>1, <2>1, AnswerKeeps
  <2>4. message[m].at = "answered" => message[m].answer = "remembered" /\ Remembered(m, "command")
    BY <1>1, <1>7 DEF RecordsInv, AnsweredOnce, Carried
  <2>5. /\ memories' \in [Messages -> MemoryRow]
        /\ plain' = [records |-> memories', deletions |-> deletions]
        /\ \A n \in Messages : memories'[n].key = memories[n].key \/ memories[n] = NoRecord
        /\ \A n \in Messages \ {m} : memories'[n] = memories[n]
        /\ Remembered(m, "command")'
        /\ message[m].at = "answered" => memories' = memories
    BY <2>1, <2>2, <2>4, RememberKeeps
  <2>6. Carried(m)'
    BY <1>1, <1>2, <1>3, <1>4, <1>5, <1>7, <2>3, <2>5 DEF Carried, InGroup
  <2>7. RecordsInv'
    BY <1>1, <2>1, <2>5, <2>6, Unlost, CarryKeeps
  <2> QED BY <1>1, <2>3, <2>4, <2>5, <2>7, Unlost
<1> QED BY <1>6, <1>7

\* Promotion of a sentence: kept once, by the platform's id of the message.
LEMMA PromoteInv ==
  ASSUME RecordsInv, NEW m \in Messages, Promote(m)
  PROVE  /\ RecordsInv'
         /\ message[m].at = "answered" =>
              UNCHANGED <<memories, deletions, bindings, plain, message>>
<1> DEFINE scope == IF message[m].workspace[1] = "personal" THEN message[m].from
                                                            ELSE message[m].workspace
<1>1. /\ message[m].command[1] = "say" /\ Answers(m, "none") /\ Remember(scope, m, "promotion")
      /\ UNCHANGED <<known, bindings, fixed, deletions>>
  BY DEF Promote
<1>2. message[m].at # "new"
  BY <1>1, Unlost DEF None
<1>3. scope \in Identities \union Workspaces
  BY <1>2, Unlost
<1> HIDE DEF scope
<1>4. /\ message'[m].command = message[m].command /\ message'[m].answer = "none"
      /\ message[m].at = "answered" /\ message[m].answer = "none" => message' = message
  BY <1>1, <1>2, AnswerKeeps
<1>5. message[m].at = "answered" => message[m].answer = "none" /\ Remembered(m, "promotion")
  BY <1>1 DEF RecordsInv, AnsweredOnce, Carried
<1>6. /\ memories' \in [Messages -> MemoryRow]
      /\ plain' = [records |-> memories', deletions |-> deletions]
      /\ \A n \in Messages : memories'[n].key = memories[n].key \/ memories[n] = NoRecord
      /\ \A n \in Messages \ {m} : memories'[n] = memories[n]
      /\ Remembered(m, "promotion")'
      /\ message[m].at = "answered" => memories' = memories
  BY <1>1, <1>3, <1>5, RememberKeeps
<1>7. \A a, b : message[m].command = <<a, b>> => a = "say"
  BY <1>1
<1>8. Carried(m)'
  BY <1>4, <1>6, <1>7 DEF Carried
<1>9. RecordsInv'
  BY <1>1, <1>2, <1>6, <1>8, Unlost, CarryKeeps
<1> QED BY <1>1, <1>4, <1>5, <1>6, <1>9, Unlost

\* /workspace use: bound once.
LEMMA UseInv ==
  ASSUME RecordsInv, NEW m \in Messages, NEW x \in Projects, UseCommand(m, x)
  PROVE  /\ RecordsInv'
         /\ message[m].at = "answered" =>
              UNCHANGED <<memories, deletions, bindings, plain, message>>
<1>1. /\ message[m].command = <<"use", x>> /\ message[m].at # "new"
      /\ UNCHANGED <<known, fixed, memories, deletions, plain>>
  BY Unlost, KindsDiffer DEF UseCommand
<1>2. \A a, b : message[m].command = <<a, b>> => a = "use" /\ b = x
  BY <1>1
<1>3. message[m].command[1] # "say"
  BY <1>1
<1>4. CASE InGroup(m)
  <2>1. Answers(m, "refused") /\ UNCHANGED bindings
    BY <1>4 DEF UseCommand
  <2>2. /\ message'[m].command = message[m].command /\ message'[m].answer = "refused"
        /\ message'[m].workspace = message[m].workspace
        /\ message[m].at = "answered" /\ message[m].answer = "refused" => message' = message
    BY <1>1, <2>1, AnswerKeeps
  <2>3. Carried(m)'
    BY <1>2, <1>3, <1>4, <2>2 DEF Carried, InGroup
  <2>4. RecordsInv'
    BY <1>1, <2>1, <2>3, Unlost, CarryKeeps
  <2>5. message[m].at = "answered" => message[m].answer = "refused"
    BY <1>1, <1>4 DEF RecordsInv, AnsweredOnce, Carried
  <2> QED BY <1>1, <2>1, <2>2, <2>4, <2>5
<1>5. CASE ~InGroup(m)
  <2>1. Answers(m, "switched") /\ bindings' = Binding(message[m].from, <<"project", x>>)
    BY <1>5 DEF UseCommand
  <2>2. message[m].from \in Identities /\ <<"project", x>> \in Workspaces
    BY <1>1, Unlost DEF Workspaces
  <2>3. /\ message'[m].command = message[m].command /\ message'[m].answer = "switched"
        /\ message'[m].workspace = message[m].workspace /\ message'[m].from = message[m].from
        /\ message[m].at = "answered" /\ message[m].answer = "switched" => message' = message
    BY <1>1, <2>1, AnswerKeeps
  <2>4. message[m].at = "answered" => message[m].answer = "switched" /\ Switched(m, x)
    BY <1>1, <1>5 DEF RecordsInv, AnsweredOnce, Carried
  <2>5. /\ bindings' \in [Identities -> Seq(Workspaces)]
        /\ \A j \in Identities :
             /\ Len(bindings'[j]) \in Nat /\ Len(bindings'[j]) >= Len(bindings[j])
             /\ \A k \in 1..Len(bindings[j]) : bindings'[j][k] = bindings[j][k]
        /\ \E k \in 1..Len(bindings'[message[m].from]) : bindings'[message[m].from][k] = <<"project", x>>
        /\ Switched(m, x) => bindings' = bindings
    BY <2>1, <2>2, BindingKeeps DEF Switched
  <2>6. Switched(m, x)'
    BY <2>3, <2>5 DEF Switched
  <2>7. Carried(m)'
    BY <1>2, <1>3, <1>5, <2>3, <2>6 DEF Carried, InGroup
  <2>8. RecordsInv'
    BY <1>1, <2>1, <2>5, <2>7, Unlost, CarryKeeps
  <2> QED BY <1>1, <2>3, <2>4, <2>5, <2>8
<1> QED BY <1>4, <1>5

\* delete(): decided once, by both memories alike.
LEMMA DeleteInv ==
  ASSUME RecordsInv, NEW m \in Messages, NEW n \in Messages, DeleteCommand(m, n)
  PROVE  /\ RecordsInv'
         /\ message[m].at = "answered" =>
              UNCHANGED <<memories, deletions, bindings, plain, message>>
<1>1. /\ message[m].command = <<"delete", n>> /\ message[m].at # "new"
      /\ UNCHANGED <<known, fixed, bindings>>
      /\ Delete(n, m) /\ DeletePlain(n, m) /\ Answers(m, deletions'[m])
  BY Unlost, KindsDiffer DEF DeleteCommand
<1>2. \A a, b : message[m].command = <<a, b>> => a = "delete" /\ b = n
  BY <1>1
<1>3. message[m].command[1] # "say"
  BY <1>1
<1>4. /\ memories \in [Messages -> MemoryRow] /\ deletions \in [Messages -> {"never", "yes", "no"}]
      /\ plain = [records |-> memories, deletions |-> deletions]
  BY Unlost
<1>5. message[m].at = "answered" => message[m].answer = deletions[m] /\ deletions[m] # "never"
  BY <1>1 DEF RecordsInv, AnsweredOnce, Carried
<1>6. /\ memories' \in [Messages -> MemoryRow] /\ deletions' \in [Messages -> {"never", "yes", "no"}]
      /\ plain' = [records |-> memories', deletions |-> deletions'] /\ deletions'[m] # "never"
      /\ \A k \in Messages : memories'[k].key = memories[k].key
      /\ \A k \in Messages : memories[k] = NoRecord => memories'[k] = NoRecord
      /\ \A k \in Messages : deletions'[k] = deletions[k] \/ deletions[k] = "never"
      /\ deletions[m] # "never" => memories' = memories /\ deletions' = deletions
  <2>1. CASE deletions[m] # "never"
    <3>1. UNCHANGED <<memories, deletions, plain>>
      BY <1>1, <1>4, <2>1 DEF Delete, DeletePlain, DeletedBefore
    <3> QED BY <1>4, <2>1, <3>1
  <2>2. CASE deletions[m] = "never"
    <3> DEFINE gone == memories[n].deleted \/ Deletable(memories[n], m)
               outcome == Outcome(memories[n], m)
    <3>1. gone \in BOOLEAN /\ outcome \in {"yes", "no"}
      BY <1>4 DEF MemoryRow, Deletable, Outcome
    <3>2. memories[n] = NoRecord => gone = FALSE
      BY DEF NoRecord, Deletable
    <3>3. memories' = [memories EXCEPT ![n].deleted = gone]
      BY <1>1, <2>2 DEF Delete, DeletedBefore
    <3>4. deletions' = [deletions EXCEPT ![m] = outcome]
      BY <1>1, <2>2 DEF Delete, DeletedBefore
    <3>5. plain' = [plain EXCEPT !.records[n].deleted = plain.records[n].deleted \/ Deletable(plain.records[n], m),
                                 !.deletions[m] = Outcome(plain.records[n], m)]
      BY <1>1, <1>4, <2>2 DEF DeletePlain
    <3>6. plain.records[n] = memories[n]
      BY <1>4
    <3>7. plain' = [plain EXCEPT !.records[n].deleted = gone, !.deletions[m] = outcome]
      BY <3>5, <3>6
    <3> HIDE DEF gone, outcome
    <3>8. plain' = [records |-> [memories EXCEPT ![n].deleted = gone],
                    deletions |-> [deletions EXCEPT ![m] = outcome]]
      BY <1>4, <3>7
    <3>9. memories' \in [Messages -> MemoryRow]
          /\ \A k \in Messages : memories'[k].key = memories[k].key
      BY <1>4, <3>1, <3>3 DEF MemoryRow
    <3>10. ASSUME NEW k \in Messages, memories[k] = NoRecord PROVE memories'[k] = NoRecord
      <4>1. CASE k = n
        <5>1. memories'[n] = [memories[n] EXCEPT !.deleted = FALSE]
          BY <1>4, <3>2, <3>3, <3>10, <4>1
        <5>2. memories[n] \in MemoryRow /\ memories[n].deleted = FALSE
          BY <1>4, <3>10, <4>1 DEF NoRecord
        <5>3. ASSUME NEW r \in MemoryRow, r.deleted = FALSE PROVE [r EXCEPT !.deleted = FALSE] = r
          BY <5>3 DEF MemoryRow
        <5> QED BY <3>10, <4>1, <5>1, <5>2, <5>3
      <4>2. CASE k # n
        BY <1>4, <3>3, <3>10, <4>2
      <4> QED BY <4>1, <4>2
    <3>11. deletions' \in [Messages -> {"never", "yes", "no"}] /\ deletions'[m] = outcome
           /\ \A k \in Messages : deletions'[k] = deletions[k] \/ deletions[k] = "never"
      BY <1>4, <2>2, <3>1, <3>4
    <3> QED BY <2>2, <3>1, <3>3, <3>4, <3>8, <3>9, <3>10, <3>11
  <2> QED BY <2>1, <2>2
<1>7. deletions'[m] \in {"none", "refused", "remembered", "switched", "yes", "no"}
  BY <1>6
<1>8. /\ message'[m].command = message[m].command /\ message'[m].answer = deletions'[m]
      /\ message[m].at = "answered" /\ message[m].answer = deletions'[m] => message' = message
  BY <1>1, <1>7, AnswerKeeps
<1>9. Carried(m)'
  BY <1>2, <1>3, <1>6, <1>8 DEF Carried
<1>10. RecordsInv'
  BY <1>1, <1>6, <1>7, <1>9, Unlost, CarryKeeps
<1> QED BY <1>1, <1>4, <1>5, <1>6, <1>8, <1>10

\* A command, carried out for the first time or again.
LEMMA CarryInv ==
  ASSUME RecordsInv, NEW m \in Messages, Carry(m)
  PROVE  /\ RecordsInv'
         /\ message[m].at = "answered" =>
              UNCHANGED <<memories, deletions, bindings, plain, message>>
BY RememberCommandInv, PromoteInv, UseInv, DeleteInv DEF Carry

\* The arrival of a message keeps the invariant.
LEMMA AcceptInv ==
  ASSUME RecordsInv, NEW m \in Messages, NEW p \in People, NEW c \in Conversations,
         NEW owner \in BOOLEAN, NEW command \in Asked, AcceptMessage(m, p, c, owner, command)
  PROVE  RecordsInv'
<1> DEFINE i == Resolved(p, owner)
           w == IF fixed[c] # None THEN fixed[c] ELSE Bound(c, i)
           row == [at |-> "accepted", from |-> i, command |-> command, workspace |-> w,
                   answer |-> "none"]
<1>1. /\ message[m].at = "new" /\ known' = [known EXCEPT ![p] = i] /\ fixed' = [fixed EXCEPT ![c] = w]
      /\ bindings' = IF fixed[c] = None /\ c # <<"group">> THEN Binding(i, w) ELSE bindings
      /\ message' = [message EXCEPT ![m] = row] /\ UNCHANGED <<memories, deletions, plain>>
      /\ c \in {<<"group">>, <<"private", p>>}
  BY DEF AcceptMessage
<1>t. RecordsTypeOK /\ SameStores /\ OwnRecord /\ AnsweredOnce
  BY DEF RecordsInv
<1>2. i \in Identities
  BY <1>t DEF Resolved, Observed, Identities, RecordsTypeOK
<1>3. w \in Workspaces
  <2>1. Default(c, i) \in Workspaces
    BY <1>2 DEF Default, Workspaces
  <2>2. Bound(c, i) \in Workspaces
    <3>1. CASE c = <<"group">> \/ bindings[i] = <<>>
      BY <2>1, <3>1 DEF Bound
    <3>2. CASE ~(c = <<"group">> \/ bindings[i] = <<>>)
      <4>1. bindings[i] \in Seq(Workspaces) /\ bindings[i] # <<>>
        BY <1>2, <1>t, <3>2 DEF RecordsTypeOK
      <4>2. bindings[i][Len(bindings[i])] \in Workspaces
        BY <4>1
      <4> QED BY <3>2, <4>2 DEF Bound
    <3> QED BY <3>1, <3>2
  <2> QED BY <1>t, <2>2 DEF RecordsTypeOK
<1> HIDE DEF i, w
<1>4. row \in MessageRow /\ row.at = "accepted" /\ row.from # None /\ row.workspace # None
  BY <1>2, <1>3, RecordsAssumption, KindsDiffer DEF MessageRow
<1> HIDE DEF row
<1>5. /\ bindings' \in [Identities -> Seq(Workspaces)]
      /\ \A j \in Identities :
           /\ Len(bindings'[j]) \in Nat /\ Len(bindings'[j]) >= Len(bindings[j])
           /\ \A k \in 1..Len(bindings[j]) : bindings'[j][k] = bindings[j][k]
  <2>1. CASE bindings' = Binding(i, w)
    BY <1>2, <1>3, <2>1, BindingKeeps
  <2>2. CASE bindings' = bindings
    BY <2>2, Unlost
  <2> QED BY <1>1, <2>1, <2>2
<1>6. /\ message' \in [Messages -> MessageRow] /\ message'[m] = row
      /\ \A n \in Messages \ {m} : message'[n] = message[n]
  BY <1>1, <1>4, <1>t DEF RecordsTypeOK
<1>7. RecordsTypeOK'
  <2>1. known' \in [People -> Identities \union {None}]
        /\ fixed' \in [Conversations -> Workspaces \union {None}]
    BY <1>1, <1>2, <1>3, <1>t DEF RecordsTypeOK
  <2>2. \A n \in Messages : message'[n].at # "new" => message'[n].from # None /\ message'[n].workspace # None
    BY <1>4, <1>6, <1>t DEF RecordsTypeOK
  <2> QED BY <1>1, <1>5, <1>6, <1>t, <2>1, <2>2 DEF RecordsTypeOK
<1>8. SameStores' /\ OwnRecord'
  BY <1>1, <1>4, <1>6, <1>t DEF SameStores, OwnRecord
<1>9. AnsweredOnce'
  <2> SUFFICES ASSUME NEW n \in Messages, message'[n].at = "answered" PROVE Carried(n)'
      BY DEF AnsweredOnce
  <2>1. n # m /\ message'[n] = message[n]
    BY <1>4, <1>6
  <2> QED BY <1>1, <1>5, <2>1, CarriedStays
<1> QED BY <1>7, <1>8, <1>9 DEF RecordsInv

\* A deletion by the administrator keeps the invariant.
LEMMA AdminInv ==
  ASSUME RecordsInv, NEW n \in Messages, DeleteByAdmin(n)
  PROVE  RecordsInv'
<1>1. /\ memories[n] # NoRecord /\ memories' = [memories EXCEPT ![n].deleted = TRUE]
      /\ plain' = [plain EXCEPT !.records[n].deleted = TRUE]
      /\ UNCHANGED <<known, bindings, fixed, deletions, message>>
  BY DEF DeleteByAdmin
<1>t. RecordsTypeOK /\ SameStores /\ OwnRecord /\ AnsweredOnce
  BY DEF RecordsInv
<1>2. /\ memories' \in [Messages -> MemoryRow]
      /\ \A k \in Messages : memories'[k].key = memories[k].key
      /\ \A k \in Messages \ {n} : memories'[k] = memories[k]
  <2>1. memories \in [Messages -> MemoryRow]
    BY <1>t DEF RecordsTypeOK
  <2>2. memories[n] \in MemoryRow
    BY <2>1
  <2> DEFINE gone == [memories[n] EXCEPT !.deleted = TRUE]
  <2>3. gone \in MemoryRow /\ gone.key = memories[n].key
    BY <2>2 DEF MemoryRow
  <2>4. memories' = [memories EXCEPT ![n] = gone]
    BY <1>1, <2>1
  <2> HIDE DEF gone
  <2>5. memories' \in [Messages -> MemoryRow] /\ memories'[n] = gone
        /\ \A k \in Messages \ {n} : memories'[k] = memories[k]
    BY <2>1, <2>3, <2>4
  <2> QED BY <2>3, <2>5
<1>3. plain' = [records |-> memories', deletions |-> deletions']
  BY <1>1, <1>t DEF SameStores
<1>4. RecordsTypeOK'
  <2>1. plain' \in [records : [Messages -> MemoryRow], deletions : [Messages -> {"never", "yes", "no"}]]
    <3>1. deletions' \in [Messages -> {"never", "yes", "no"}]
      BY <1>1, <1>t DEF RecordsTypeOK
    <3> QED BY <1>2, <1>3, <3>1
  <2> QED BY <1>1, <1>2, <1>t, <2>1 DEF RecordsTypeOK
<1>5. SameStores' /\ OwnRecord'
  BY <1>1, <1>2, <1>3, <1>t DEF SameStores, OwnRecord
<1>6. AnsweredOnce'
  <2> SUFFICES ASSUME NEW m \in Messages, message'[m].at = "answered" PROVE Carried(m)'
      BY DEF AnsweredOnce
  <2> QED BY <1>1, <1>2, Unlost, CarriedStays
<1> QED BY <1>4, <1>5, <1>6 DEF RecordsInv

\* Every step of messages, commands and administrator keeps the invariant.
LEMMA RecordsStepInv == RecordsInv /\ [RecordsNext]_recordVars => RecordsInv'
<1> SUFFICES ASSUME RecordsInv, [RecordsNext]_recordVars PROVE RecordsInv'
    OBVIOUS
<1>1. CASE UNCHANGED recordVars
  <2>1. UNCHANGED <<known, bindings, fixed, memories, deletions, plain, message>>
    BY <1>1 DEF recordVars
  <2>2. RecordsTypeOK' /\ SameStores' /\ OwnRecord'
    BY <2>1 DEF RecordsInv, RecordsTypeOK, SameStores, OwnRecord
  <2>3. AnsweredOnce'
    <3> SUFFICES ASSUME NEW m \in Messages, message'[m].at = "answered" PROVE Carried(m)'
        BY DEF AnsweredOnce
    <3> QED BY <2>1, Unlost, CarriedStays
  <2> QED BY <2>2, <2>3 DEF RecordsInv
<1> QED BY <1>1, AcceptInv, CarryInv, AdminInv DEF RecordsNext

\* SQLite and the memory in memory show the same to everybody everywhere, for
\* any people, projects and messages, deletions and repetitions included.
THEOREM StoresAgreeHolds == RecordsSpec => []StoresAgree
<1>1. RecordsInv => StoresAgree
  <2> SUFFICES ASSUME RecordsInv, NEW i \in Identities, NEW w \in Workspaces
               PROVE  Listed(i, w) = ListedPlain(i, w)
      BY DEF StoresAgree
  <2>1. plain.records = memories
    BY DEF RecordsInv, SameStores
  <2>2. i # None /\ w # None /\ NoRecord.scope = None
    BY KindsDiffer DEF NoRecord
  <2> QED BY <2>1, <2>2 DEF Listed, ListedPlain, Visible
<1> QED BY RecordsInitInv, RecordsStepInv, <1>1, PTL DEF RecordsSpec

\* A command that is carried out again changes nothing and answers as before,
\* whatever was done in between.
THEOREM CommandsRepeatableHolds == RecordsSpec => CommandsRepeatable
<1> DEFINE Repeats == \A m \in Messages :
                        message[m].at = "answered" /\ Carry(m) =>
                          UNCHANGED <<memories, deletions, bindings, plain, message>>
<1>1. RecordsInv => Repeats
  BY CarryInv
<1>2. RecordsInv /\ [RecordsNext]_recordVars => [Repeats]_recordVars
  BY <1>1
<1> QED BY RecordsInitInv, RecordsStepInv, <1>2, PTL DEF RecordsSpec, CommandsRepeatable

(* ------------------------------- the intake ------------------------------- *)

\* what the stores show when a message is attributed
Shown(explicit, replay, reply) ==
  [mainline |-> "main", explicit |-> explicit, replay |-> replay, reply |-> reply,
   branches |-> {[line |-> "side", status |-> "active", terms |-> {"side"}]},
   latest |-> [line |-> Absent, at |-> 0]]

\* A message is attributed to one of the lines of its session.
LEMMA AttributedToLine ==
  ASSUME NEW explicit \in SessionLines \union {Absent}, NEW replay \in SessionLines \union {Absent},
         NEW reply \in {"side", Absent}, NEW text, NEW terms, NEW isReply
  PROVE  Attribute(Shown(explicit, replay, reply), text, terms, isReply, 1, 1).line \in SessionLines
<1> DEFINE seen == Shown(explicit, replay, reply)
           side == [line |-> "side", status |-> "active", terms |-> {"side"}]
           open == {b \in seen.branches : b.status \notin {"merged", "failed", "cancelled", "archived"}}
           recent == IF \E b \in open : b.line = seen.latest.line THEN seen.latest.line ELSE Absent
           ranked == CHOOSE s \in SetToSeqs(open) :
                       \A i, j \in 1..Len(s) :
                          i < j => Score(s[i], terms, recent) >= Score(s[j], terms, recent)
<1>1. open = {side} /\ recent = Absent
  BY DEF Shown, Absent
<1>2. ranked[1].line = "side"
  <2> DEFINE one == [i \in 1..1 |-> side]
  <2> HIDE DEF side, open, recent
  <2>1. Cardinality({side}) = 1
    BY FS_Singleton
  <2>2. SetToSeqs({side}) = {f \in [1..1 -> {side}] : \A i, j \in 1..1 : i # j => f[i] # f[j]}
    BY <2>1 DEF SetToSeqs
  <2>3. one \in SetToSeqs({side}) /\ Len(one) = 1 /\ \A i, j \in 1..1 : ~(i < j)
    BY <2>2
  <2>4. \A s \in SetToSeqs({side}) : s[1] = side
    BY <2>2
  <2> HIDE DEF one
  <2>5. ranked \in SetToSeqs({side})
    BY <1>1, <2>3
  <2> QED BY <2>4, <2>5 DEF side
<1> DEFINE best == Score(ranked[1], terms, recent)
           second == Score(ranked[2], terms, recent)
<1>3. Attribute(seen, text, terms, isReply, 1, 1).line \in
        ({seen.replay, seen.explicit, seen.reply} \ {Absent})
          \union {seen.mainline, ranked[1].line} \union ({recent} \ {Absent})
  <2>1. seen.mainline = "main"
    BY DEF Shown
  <2> DEFINE near == 1 >= seen.latest.at /\ 1 - seen.latest.at <= 1
             continued == recent # Absent /\ near /\ Nature(text, isReply) # "topic_shift"
             weak == best < Threshold
             close == Cardinality(open) > 1 /\ best - second < Margin
  <2>3. Attribute(seen, text, terms, isReply, 1, 1) =
          IF seen.replay # Absent THEN Decision(seen.replay, seen.mainline, "normalized_event_replay")
          ELSE IF seen.explicit # Absent THEN Decision(seen.explicit, seen.mainline, "explicit_target_line")
          ELSE IF seen.reply # Absent THEN Decision(seen.reply, seen.mainline, "reply_relation")
          ELSE IF open = {} THEN Decision(seen.mainline, seen.mainline, "no_branch_candidate")
          ELSE IF continued THEN [line |-> recent, action |-> "continue", reason |-> "recent_branch_continuity"]
          ELSE IF weak THEN Decision(seen.mainline, seen.mainline, "semantic_match_below_threshold")
          ELSE IF close THEN Decision(seen.mainline, seen.mainline, "semantic_candidates_ambiguous")
          ELSE [line |-> ranked[1].line, reason |-> "branch_semantic_match",
                action |-> IF ranked[1].line = recent THEN "continue" ELSE "resume"]
    BY Zenon DEF Attribute
  <2>4. continued => recent # Absent
    OBVIOUS
  <2> HIDE DEF seen, open, recent, near, continued, weak, close, ranked, best, second
  <2>2. \A line, reason : Decision(line, seen.mainline, reason).line = line
    BY DEF Decision
  <2> QED BY <2>2, <2>3, <2>4
<1> QED BY <1>1, <1>2, <1>3 DEF Shown, SessionLines, Absent

EventRow == [line : SessionLines \union {Absent}, hint : {"yes", "no", Absent}]
RunRow == [state : {"none", "queued", "claimed", "done"}, ordinal : Nat,
           line : SessionLines \union {Absent}, inbox : Seq(Arrivals)]
DeliveryRow == [of : Arrivals \union {Absent}, hint : {"yes", "no", Absent},
                line : SessionLines \union {Absent},
                at : {"new", "looked", "routed", "attributing", "attributed", "stored", "over"}]

Rows ==
  /\ handling \in {"queue", "plain"} /\ spoken \in BOOLEAN /\ observations \subseteq Arrivals
  /\ events \in [Arrivals -> EventRow]
  /\ receipts \in [Arrivals -> Arrivals \union {Absent}]
  /\ founded \in [Arrivals -> RunRow]
  /\ delivered \in [Deliveries -> DeliveryRow]
  /\ attributions \in [Arrivals -> SessionLines \union {Absent}]

\* what a handler under way has read: its message, then its line, then what it
\* has stored
UnderWay ==
  \A d \in Deliveries :
    /\ delivered[d].at \notin {"new", "over"} => delivered[d].of \in Arrivals
    /\ delivered[d].at \in {"attributed", "stored"} => delivered[d].line \in SessionLines
    /\ delivered[d].at = "stored" => events[delivered[d].of].line = delivered[d].line
    /\ handling = "plain" /\ delivered[d].at = "routed" => EventOf[delivered[d].of].native

\* a message has a receipt exactly when it has its event, and the event its line
Receipts ==
  \A m \in Arrivals :
    /\ (receipts[m] = Absent) <=> (events[m] = NoEvent)
    /\ events[m] # NoEvent => events[m].line \in SessionLines
    /\ attributions[m] \in {Absent, events[m].line}

\* the run a receipt names has the message, and the messages of a run have its receipt
OneRun ==
  /\ \A m \in Arrivals : receipts[m] # Absent =>
       receipts[m] \in Founders /\ m \in HeardBy(receipts[m])
  /\ \A r \in Founders : \A m \in HeardBy(r) : receipts[m] = r
  /\ \A r \in Arrivals : founded[r].state = "none" => founded[r].inbox = <<>>
  /\ handling = "plain" => \A r \in Arrivals : founded[r].inbox = <<>>

\* a run hears each of its messages once, on its line and from its person
HeardOnce ==
  \A r \in Founders :
    /\ Len(founded[r].inbox) + 1 = Cardinality(HeardBy(r))
    /\ \A m \in HeardBy(r) : /\ events[m].line = founded[r].line
                             /\ EventOf[m].sender = EventOf[r].sender

IntakeInv == Rows /\ UnderWay /\ Receipts /\ OneRun /\ HeardOnce

\* No line and no message is absent.
LEMMA NotAbsent ==
  /\ Absent \notin SessionLines /\ Absent \notin Arrivals /\ NoEvent.line = Absent
  /\ NoEvent \in EventRow /\ NoRun \in RunRow
  /\ \A m \in Arrivals : TargetOf(m) \in SessionLines
  /\ \A at \in {"new", "over"} : [NotDelivered EXCEPT !.at = at] \in DeliveryRow
  /\ [NotDelivered EXCEPT !.at = "over"].at = "over" /\ NotDelivered \in DeliveryRow
<1>1. Absent \notin SessionLines
  BY DEF Absent, SessionLines
<1>2. NoEvent \in EventRow /\ NoEvent.line = Absent
  BY DEF NoEvent, EventRow
<1>3. <<>> \in Seq(Arrivals)
  OBVIOUS
<1>4. NoRun \in RunRow
  BY <1>3 DEF NoRun, RunRow
<1>5. \A m \in Arrivals : TargetOf(m) \in SessionLines
  BY IntakeAssumption DEF TargetOf, SessionLines
<1>6. /\ \A at \in {"new", "over"} : [NotDelivered EXCEPT !.at = at] \in DeliveryRow
      /\ [NotDelivered EXCEPT !.at = "over"].at = "over" /\ NotDelivered \in DeliveryRow
  BY DEF NotDelivered, DeliveryRow
<1> QED BY <1>1, <1>2, <1>4, <1>5, <1>6, IntakeAssumption

\* One more message in an inbox.
LEMMA AppendedRange ==
  ASSUME NEW s \in Seq(Arrivals), NEW m \in Arrivals
  PROVE  /\ Append(s, m) \in Seq(Arrivals) /\ Len(Append(s, m)) = Len(s) + 1 /\ Len(s) \in Nat
         /\ Range(Append(s, m)) = Range(s) \union {m}
         /\ IsFiniteSet(Range(s)) /\ Range(s) \subseteq Arrivals
<1>1. /\ Append(s, m) \in Seq(Arrivals) /\ Len(Append(s, m)) = Len(s) + 1 /\ Len(s) \in Nat
      /\ DOMAIN s = 1..Len(s) /\ DOMAIN Append(s, m) = 1..(Len(s) + 1)
      /\ \A k \in 1..Len(s) : Append(s, m)[k] = s[k] /\ s[k] \in Arrivals
      /\ Append(s, m)[Len(s) + 1] = m
  OBVIOUS
<1> DEFINE n == Len(s)
<1> HIDE DEF n
<1>2. \A k \in Nat : k \in 1..(n + 1) <=> (k \in 1..n \/ k = n + 1)
  BY <1>1 DEF n
<1>3. Range(Append(s, m)) = Range(s) \union {m}
  BY <1>1, <1>2 DEF Range, n
<1>4. Range(s) \subseteq Arrivals
  BY <1>1 DEF Range
<1>5. IsFiniteSet(Range(s))
  BY <1>4, IntakeAssumption, FS_Subset
<1> QED BY <1>1, <1>3, <1>4, <1>5

\* Which runs there are and whom they hear, before and after.
LEMMA HeardFacts ==
  ASSUME IntakeInv
  PROVE  /\ Founders \subseteq Arrivals /\ IsFiniteSet(Founders) /\ Cardinality(Founders) \in Nat
         /\ \A r \in Arrivals : /\ founded[r].inbox \in Seq(Arrivals) /\ r \in HeardBy(r)
                              /\ HeardBy(r) \subseteq Arrivals /\ IsFiniteSet(HeardBy(r))
         /\ \A m \in Arrivals : receipts[m] = Absent =>
              m \notin Founders /\ \A r \in Founders : m \notin HeardBy(r)
<1>1. Founders \subseteq Arrivals
  BY DEF Founders
<1>2. IsFiniteSet(Founders) /\ Cardinality(Founders) \in Nat
  BY <1>1, IntakeAssumption, FS_Subset, FS_CardinalityType
<1>3. ASSUME NEW r \in Arrivals
      PROVE  /\ founded[r].inbox \in Seq(Arrivals) /\ r \in HeardBy(r)
             /\ HeardBy(r) \subseteq Arrivals /\ IsFiniteSet(HeardBy(r))
  <2>1. founded[r].inbox \in Seq(Arrivals)
    BY DEF IntakeInv, Rows, RunRow
  <2>2. HeardBy(r) \subseteq Arrivals /\ r \in HeardBy(r)
    BY <2>1, AppendedRange DEF HeardBy
  <2> QED BY <2>1, <2>2, IntakeAssumption, FS_Subset
<1>4. ASSUME NEW m \in Arrivals, receipts[m] = Absent
      PROVE  m \notin Founders /\ \A r \in Founders : m \notin HeardBy(r)
  BY <1>1, <1>3, <1>4, NotAbsent DEF IntakeInv, OneRun
<1> QED BY <1>1, <1>2, <1>3, <1>4

\* A handler that goes on, while no event that is stored changes.
LEMMA HandlersKeep ==
  ASSUME IntakeInv, NEW d \in Deliveries, NEW row \in DeliveryRow,
         delivered' = [delivered EXCEPT ![d] = row], handling' = handling,
         row.at \notin {"new", "over"} => row.of \in Arrivals,
         row.at \in {"attributed", "stored"} => row.line \in SessionLines,
         row.at = "stored" => events'[row.of].line = row.line,
         row.at = "routed" /\ handling = "plain" => EventOf[row.of].native,
         \A m \in Arrivals : events[m] # NoEvent => events'[m] = events[m]
  PROVE  delivered' \in [Deliveries -> DeliveryRow] /\ UnderWay'
<1>1. delivered \in [Deliveries -> DeliveryRow] /\ UnderWay
  BY DEF IntakeInv, Rows
<1>2. /\ delivered' \in [Deliveries -> DeliveryRow] /\ delivered'[d] = row
      /\ \A e \in Deliveries \ {d} : delivered'[e] = delivered[e]
  BY <1>1
<1>3. ASSUME NEW e \in Deliveries, e # d, delivered[e].at = "stored"
      PROVE  events'[delivered[e].of] = events[delivered[e].of]
  BY <1>1, <1>3, NotAbsent DEF UnderWay
<1>4. ASSUME NEW e \in Deliveries
      PROVE  /\ delivered'[e].at \notin {"new", "over"} => delivered'[e].of \in Arrivals
             /\ delivered'[e].at \in {"attributed", "stored"} => delivered'[e].line \in SessionLines
             /\ delivered'[e].at = "stored" => events'[delivered'[e].of].line = delivered'[e].line
             /\ handling' = "plain" /\ delivered'[e].at = "routed" => EventOf[delivered'[e].of].native
  <2>1. CASE e = d
    BY <1>2, <2>1
  <2>2. CASE e # d
    BY <1>1, <1>2, <1>3, <2>2 DEF UnderWay
  <2> QED BY <2>1, <2>2
<1> QED BY <1>2, <1>4 DEF UnderWay

\* What the deliveries do among themselves is nothing to events and runs.
LEMMA OthersKeep ==
  ASSUME IntakeInv, UNCHANGED <<handling, events, receipts, founded, attributions>>
  PROVE  Receipts' /\ OneRun' /\ HeardOnce'
BY ZenonT(40) DEF IntakeInv, Receipts, OneRun, HeardOnce, Founders, HeardBy

\* A delivery arrives.
LEMMA DeliverInv ==
  ASSUME IntakeInv, NEW d \in Deliveries, NEW m \in Arrivals, Deliver(d, m)
  PROVE  IntakeInv'
<1> DEFINE row == [of |-> m, hint |-> HintFor(m), line |-> Absent,
                   at |-> IF EventOf[m].native THEN "routed" ELSE "looked"]
<1>1. /\ delivered' = [delivered EXCEPT ![d] = row]
      /\ UNCHANGED <<handling, events, receipts, founded, observations, spoken, attributions>>
  BY DEF Deliver
<1>2. row \in DeliveryRow
  BY DEF DeliveryRow, HintFor
<1>3. /\ row.of = m /\ row.at \in {"routed", "looked"}
      /\ row.at = "routed" => EventOf[m].native
  OBVIOUS
<1> HIDE DEF row
<1>4. delivered' \in [Deliveries -> DeliveryRow] /\ UnderWay'
  BY <1>1, <1>2, <1>3, HandlersKeep
<1> QED BY <1>1, <1>4, OthersKeep DEF IntakeInv, Rows

\* A handler that only goes on or ends.
LEMMA GoesOnInv ==
  ASSUME IntakeInv, NEW d \in Deliveries, NEW at \in {"routed", "attributing", "over"},
         delivered[d].at \in {"looked", "routed"},
         at = "routed" => handling = "queue",
         IF at = "over" THEN Ends(d) ELSE Moves(d, at),
         observations' \subseteq Arrivals,
         UNCHANGED <<handling, events, receipts, founded, spoken, attributions>>
  PROVE  IntakeInv'
<1> DEFINE row == IF at = "over" THEN [NotDelivered EXCEPT !.at = "over"] ELSE [delivered[d] EXCEPT !.at = at]
<1>1. delivered \in [Deliveries -> DeliveryRow] /\ delivered[d].of \in Arrivals /\ delivered[d] \in DeliveryRow
  BY DEF IntakeInv, Rows, UnderWay
<1>2. delivered' = [delivered EXCEPT ![d] = row]
  BY <1>1 DEF Ends, Moves
<1>3. /\ row \in DeliveryRow /\ row.at = at
      /\ at # "over" => row.of = delivered[d].of
  BY <1>1, NotAbsent DEF DeliveryRow
<1> HIDE DEF row
<1>4. delivered' \in [Deliveries -> DeliveryRow] /\ UnderWay'
  BY <1>1, <1>2, <1>3, HandlersKeep
<1> QED BY <1>4, OthersKeep DEF IntakeInv, Rows

\* A message is routed, recognised, turned down.
LEMMA RoutedInv ==
  ASSUME IntakeInv, NEW d \in Deliveries, RouteDelivery(d) \/ Recognise(d) \/ Turned(d)
  PROVE  IntakeInv'
<1>1. observations \subseteq Arrivals
  BY DEF IntakeInv, Rows
<1>2. CASE RouteDelivery(d)
  <2>1. delivered[d].of \in Arrivals
    BY <1>2 DEF RouteDelivery, IntakeInv, UnderWay
  <2>2. observations' \subseteq Arrivals
    BY <1>1, <1>2, <2>1 DEF RouteDelivery
  <2>3. \/ Ends(d)
        \/ handling = "queue" /\ Moves(d, "routed")
        \/ Moves(d, "attributing")
    BY <1>2 DEF RouteDelivery
  <2>4. /\ delivered[d].at = "looked"
        /\ UNCHANGED <<handling, events, receipts, founded, spoken, attributions>>
    BY <1>2 DEF RouteDelivery
  <2> QED BY <2>2, <2>3, <2>4, GoesOnInv
<1>3. CASE Recognise(d) \/ Turned(d)
  <2>1. /\ delivered[d].at = "routed" /\ Ends(d)
        /\ UNCHANGED <<handling, events, receipts, founded, observations, spoken, attributions>>
    BY <1>3 DEF Recognise, Turned
  <2> QED BY <1>1, <2>1, GoesOnInv
<1> QED BY <1>2, <1>3

\* A message is attributed.
LEMMA AttributeInv ==
  ASSUME IntakeInv, NEW d \in Deliveries, AttributeDelivery(d)
  PROVE  IntakeInv'
<1> DEFINE m == delivered[d].of
           reply == IF delivered[d].hint = "yes" THEN "side" ELSE Absent
           line == Attribute(Shown(EventOf[m].target, events[m].line, reply),
                             EventOf[m].text, EventOf[m].topic, EventOf[m].replyTo, 1, 1).line
           row == [delivered[d] EXCEPT !.at = "attributed", !.line = line]
<1>1. /\ delivered \in [Deliveries -> DeliveryRow] /\ delivered[d] \in DeliveryRow
      /\ delivered[d].at = "attributing" /\ m \in Arrivals
      /\ UNCHANGED <<handling, events, receipts, founded, observations, spoken, attributions>>
  BY DEF IntakeInv, Rows, UnderWay, AttributeDelivery
<1>2. events[m].line \in SessionLines \union {Absent} /\ EventOf[m].target \in SessionLines \union {Absent}
  BY <1>1, IntakeAssumption DEF IntakeInv, Rows, EventRow
<1>3. line \in SessionLines
  BY <1>2, AttributedToLine
<1>4. delivered' = [delivered EXCEPT ![d].at = "attributed", ![d].line = line]
  BY DEF AttributeDelivery, Shown
<1> HIDE DEF line
<1>5. delivered' = [delivered EXCEPT ![d] = row]
  BY <1>1, <1>4
<1>6. row \in DeliveryRow /\ row.at = "attributed" /\ row.line = line /\ row.of = m
  BY <1>1, <1>3 DEF DeliveryRow
<1> HIDE DEF row, m
<1>7. delivered' \in [Deliveries -> DeliveryRow] /\ UnderWay'
  BY <1>1, <1>3, <1>5, <1>6, HandlersKeep
<1> QED BY <1>1, <1>7, OthersKeep DEF IntakeInv, Rows

\* The attribution of a message is recorded, the line of its event.
LEMMA RecordAttributionInv ==
  ASSUME IntakeInv, NEW d \in Deliveries, RecordAttribution(d)
  PROVE  IntakeInv'
<1>1. /\ delivered[d].at = "stored" /\ Ends(d)
      /\ attributions' = [attributions EXCEPT ![delivered[d].of] = delivered[d].line]
      /\ UNCHANGED <<handling, events, receipts, founded, observations, spoken>>
  BY DEF RecordAttribution
<1>2. /\ delivered[d].of \in Arrivals /\ delivered[d].line \in SessionLines
      /\ events[delivered[d].of].line = delivered[d].line
  BY <1>1 DEF IntakeInv, UnderWay
<1>3. delivered' \in [Deliveries -> DeliveryRow] /\ UnderWay'
  <2> DEFINE row == [NotDelivered EXCEPT !.at = "over"]
  <2>1. row \in DeliveryRow /\ row.at = "over" /\ delivered' = [delivered EXCEPT ![d] = row]
    BY <1>1, NotAbsent DEF Ends
  <2> HIDE DEF row
  <2> QED BY <1>1, <2>1, HandlersKeep
<1>4. attributions' \in [Arrivals -> SessionLines \union {Absent}]
      /\ \A m \in Arrivals : attributions'[m] \in {Absent, events[m].line}
  BY <1>1, <1>2 DEF IntakeInv, Rows, Receipts
<1>5. OneRun' /\ HeardOnce'
  BY <1>1, ZenonT(40) DEF IntakeInv, OneRun, HeardOnce, Founders, HeardBy
<1>6. Receipts'
  BY <1>1, <1>4 DEF IntakeInv, Receipts
<1> QED BY <1>1, <1>3, <1>4, <1>5, <1>6 DEF IntakeInv, Rows

\* Runs that are claimed, end, or go back to the queue hear whom they heard.
LEMMA RunsKeep ==
  ASSUME IntakeInv, NEW f, f = founded', f \in [Arrivals -> RunRow],
         \A r \in Arrivals : /\ f[r].inbox = founded[r].inbox /\ f[r].line = founded[r].line
                             /\ (f[r].state = "none") <=> (founded[r].state = "none"),
         UNCHANGED <<handling, events, receipts, attributions>>
  PROVE  Receipts' /\ OneRun' /\ HeardOnce'
<1>1. Founders' = Founders
  BY DEF Founders
<1>2. \A r \in Arrivals : HeardBy(r)' = HeardBy(r)
  BY DEF HeardBy
<1>3. Founders \subseteq Arrivals
  BY DEF Founders
<1> QED BY <1>1, <1>2, <1>3 DEF IntakeInv, Receipts, OneRun, HeardOnce

\* The scheduler moves a run, the bot speaks, or the process restarts.
LEMMA WorldInv ==
  ASSUME IntakeInv, Restart \/ BotSpeaks \/ \E r \in Arrivals : RunMoves(r)
  PROVE  IntakeInv'
<1>1. /\ founded \in [Arrivals -> RunRow] /\ delivered \in [Deliveries -> DeliveryRow]
      /\ UNCHANGED <<handling, events, receipts, observations, attributions>>
  BY DEF IntakeInv, Rows, Restart, BotSpeaks, RunMoves
<1>2. CASE BotSpeaks
  <2>1. /\ UNCHANGED <<handling, events, receipts, founded, delivered, observations, attributions>>
        /\ spoken' \in BOOLEAN
    BY <1>2 DEF BotSpeaks
  <2>2. UnderWay'
    BY <2>1 DEF IntakeInv, UnderWay
  <2> QED BY <2>1, <2>2, OthersKeep DEF IntakeInv, Rows
<1>3. ASSUME NEW r \in Arrivals, RunMoves(r) PROVE IntakeInv'
  <2>1. PICK to \in {"claimed", "done"} :
          /\ founded[r].state # "none" /\ founded' = [founded EXCEPT ![r].state = to]
          /\ UNCHANGED <<delivered, spoken>>
    <3>1. PICK move \in {<<"queued", "claimed">>, <<"claimed", "done">>} :
            founded[r].state = move[1] /\ founded' = [founded EXCEPT ![r].state = move[2]]
      BY <1>3 DEF RunMoves
    <3>2. move[1] # "none" /\ move[2] \in {"claimed", "done"}
      OBVIOUS
    <3> QED BY <1>3, <3>1, <3>2 DEF RunMoves
  <2> DEFINE row == [founded[r] EXCEPT !.state = to]
  <2>2. founded[r] \in RunRow /\ founded' = [founded EXCEPT ![r] = row]
    BY <1>1, <2>1
  <2>3. /\ row \in RunRow /\ row.inbox = founded[r].inbox /\ row.line = founded[r].line
        /\ row.state = to
    BY <2>2 DEF RunRow
  <2> HIDE DEF row
  <2>4. /\ founded' \in [Arrivals -> RunRow] /\ founded'[r] = row
        /\ \A q \in Arrivals \ {r} : founded'[q] = founded[q]
    BY <1>1, <2>2, <2>3
  <2>5. \A q \in Arrivals : /\ founded'[q].inbox = founded[q].inbox /\ founded'[q].line = founded[q].line
                            /\ (founded'[q].state = "none") <=> (founded[q].state = "none")
    BY <2>1, <2>3, <2>4
  <2>6. Receipts' /\ OneRun' /\ HeardOnce'
    BY <1>1, <2>4, <2>5, RunsKeep
  <2>7. UnderWay'
    BY <1>1, <2>1 DEF IntakeInv, UnderWay
  <2> QED BY <1>1, <2>1, <2>4, <2>6, <2>7 DEF IntakeInv, Rows
<1>4. CASE Restart
  <2>1. /\ delivered' = [d \in Deliveries |->
             IF delivered[d].at = "new" THEN NotDelivered ELSE [NotDelivered EXCEPT !.at = "over"]]
        /\ founded' = [m \in Arrivals |->
             [founded[m] EXCEPT !.state = IF founded[m].state = "claimed" THEN "queued" ELSE founded[m].state]]
        /\ UNCHANGED <<handling, spoken>>
    BY <1>4 DEF Restart
  <2>2. ASSUME NEW q \in Arrivals
        PROVE  /\ founded'[q].inbox = founded[q].inbox /\ founded'[q].line = founded[q].line
               /\ (founded'[q].state = "none") <=> (founded[q].state = "none")
               /\ founded'[q] \in RunRow
    <3> DEFINE to == IF founded[q].state = "claimed" THEN "queued" ELSE founded[q].state
    <3>1. founded[q] \in RunRow /\ founded'[q] = [founded[q] EXCEPT !.state = to]
      BY <1>1, <2>1
    <3>2. /\ to \in {"none", "queued", "claimed", "done"}
          /\ (to = "none") <=> (founded[q].state = "none")
      BY <3>1 DEF RunRow
    <3> HIDE DEF to
    <3> QED BY <3>1, <3>2 DEF RunRow
  <2>3. founded' \in [Arrivals -> RunRow]
    BY <2>1, <2>2
  <2>4. Receipts' /\ OneRun' /\ HeardOnce'
    BY <1>1, <2>2, <2>3, RunsKeep
  <2>5. \A d \in Deliveries : delivered'[d] \in DeliveryRow /\ delivered'[d].at \in {"new", "over"}
    BY <2>1, NotAbsent DEF NotDelivered
  <2>6. delivered' \in [Deliveries -> DeliveryRow]
    BY <2>1, <2>5
  <2>7. UnderWay'
    BY <2>5 DEF UnderWay
  <2> QED BY <1>1, <2>1, <2>3, <2>4, <2>6, <2>7 DEF IntakeInv, Rows
<1> QED BY <1>2, <1>3, <1>4

\* A message that is accepted gets its event and its receipt; the others keep theirs.
LEMMA StoredFacts ==
  ASSUME IntakeInv, NEW m \in Arrivals, NEW r \in Arrivals, NEW line \in SessionLines,
         NEW hint \in {"yes", "no", Absent}, ~Conflicting(m, line, hint), Stores(m, line, hint),
         receipts' = Receipted(m, r), attributions' = attributions
  PROVE  /\ events' \in [Arrivals -> EventRow] /\ receipts' \in [Arrivals -> Arrivals \union {Absent}]
         /\ events'[m].line = line /\ receipts'[m] = r
         /\ \A x \in Arrivals \ {m} : events'[x] = events[x] /\ receipts'[x] = receipts[x]
         /\ \A x \in Arrivals : events[x] # NoEvent => events'[x] = events[x]
         /\ Receipts'
<1> DEFINE row == [line |-> line, hint |-> hint]
<1>1. /\ events \in [Arrivals -> EventRow] /\ receipts \in [Arrivals -> Arrivals \union {Absent}]
      /\ events' = [events EXCEPT ![m] = row] /\ receipts' = [receipts EXCEPT ![m] = r]
      /\ events[m] \in {NoEvent, row} /\ Receipts
  BY DEF IntakeInv, Rows, Stores, Receipted, Conflicting
<1>2. row \in EventRow /\ row.line = line /\ row # NoEvent
  BY NotAbsent DEF EventRow
<1> HIDE DEF row
<1>3. /\ events' \in [Arrivals -> EventRow] /\ receipts' \in [Arrivals -> Arrivals \union {Absent}]
      /\ events'[m] = row /\ receipts'[m] = r
      /\ \A x \in Arrivals \ {m} : events'[x] = events[x] /\ receipts'[x] = receipts[x]
  BY <1>1, <1>2
<1>4. Receipts'
  <2> SUFFICES ASSUME NEW x \in Arrivals
               PROVE  /\ (receipts'[x] = Absent) <=> (events'[x] = NoEvent)
                      /\ events'[x] # NoEvent => events'[x].line \in SessionLines
                      /\ attributions'[x] \in {Absent, events'[x].line}
      BY DEF Receipts
  <2>1. CASE x = m
    <3>1. attributions[m] \in {Absent, row.line}
      BY <1>1, NotAbsent DEF Receipts
    <3> QED BY <1>2, <1>3, <2>1, <3>1, NotAbsent
  <2>2. CASE x # m
    BY <1>1, <1>3, <2>2 DEF Receipts
  <2> QED BY <2>1, <2>2
<1> QED BY <1>1, <1>2, <1>3, <1>4

\* A message joins the run of its author.
LEMMA JoinInv ==
  ASSUME IntakeInv, NEW d \in Deliveries, NEW r \in Arrivals, Join(d, r)
  PROVE  IntakeInv'
<1> DEFINE m == delivered[d].of
           line == founded[r].line
           hint == delivered[d].hint
           row == [founded[r] EXCEPT !.inbox = Append(@, m)]
<1>1. /\ delivered[d].at = "routed" /\ handling = "queue" /\ receipts[m] = Absent /\ r \in Joinable(m)
      /\ ~Conflicting(m, line, hint) /\ Stores(m, line, hint)
      /\ founded' = [founded EXCEPT ![r].inbox = Append(@, m)]
      /\ receipts' = Receipted(m, r) /\ Ends(d)
      /\ UNCHANGED <<handling, observations, spoken, attributions>>
  BY DEF Join
<1>2. /\ delivered[d] \in DeliveryRow /\ m \in Arrivals /\ hint \in {"yes", "no", Absent}
      /\ founded \in [Arrivals -> RunRow] /\ founded[r] \in RunRow
  BY <1>1 DEF IntakeInv, Rows, UnderWay, DeliveryRow
<1>3. r \in Founders /\ founded[r].state = "claimed" /\ EventOf[r].sender = EventOf[m].sender
  BY <1>1 DEF Joinable, Active
<1>4. r \in HeardBy(r) /\ receipts[r] = r /\ line \in SessionLines
  BY <1>3, HeardFacts, NotAbsent DEF IntakeInv, OneRun, HeardOnce, Receipts
<1> HIDE DEF m, line, hint
<1>5. /\ events' \in [Arrivals -> EventRow] /\ receipts' \in [Arrivals -> Arrivals \union {Absent}]
      /\ events'[m].line = line /\ receipts'[m] = r
      /\ \A x \in Arrivals \ {m} : events'[x] = events[x] /\ receipts'[x] = receipts[x]
      /\ \A x \in Arrivals : events[x] # NoEvent => events'[x] = events[x]
      /\ Receipts'
  BY <1>1, <1>2, <1>4, StoredFacts
<1>6. /\ Append(founded[r].inbox, m) \in Seq(Arrivals)
      /\ Len(Append(founded[r].inbox, m)) = Len(founded[r].inbox) + 1 /\ Len(founded[r].inbox) \in Nat
      /\ Range(Append(founded[r].inbox, m)) = Range(founded[r].inbox) \union {m}
  BY <1>2, HeardFacts, AppendedRange
<1>7. /\ row \in RunRow /\ row.inbox = Append(founded[r].inbox, m) /\ row.line = line
      /\ row.state = "claimed" /\ founded' = [founded EXCEPT ![r] = row]
  BY <1>1, <1>2, <1>3, <1>6 DEF RunRow, line
<1> HIDE DEF row
<1>8. /\ founded' \in [Arrivals -> RunRow] /\ founded'[r] = row
      /\ \A q \in Arrivals \ {r} : founded'[q] = founded[q]
  BY <1>2, <1>7
<1>9. Founders' = Founders /\ Founders \subseteq Arrivals
  BY <1>3, <1>7, <1>8 DEF Founders
<1>10. /\ HeardBy(r)' = HeardBy(r) \union {m}
       /\ \A q \in Arrivals \ {r} : HeardBy(q)' = HeardBy(q)
  BY <1>6, <1>7, <1>8 DEF HeardBy
<1>11. \A q \in Founders : m \notin HeardBy(q) /\ HeardBy(q) \subseteq Arrivals
  BY <1>1, <1>2, <1>9, HeardFacts
<1>12. OneRun'
  <2>1. ASSUME NEW x \in Arrivals, receipts'[x] # Absent
        PROVE  \E q \in Founders : q = receipts'[x] /\ x \in HeardBy(q)'
    <3>1. CASE x = m
      BY <1>3, <1>5, <1>10, <3>1
    <3>2. CASE x # m
      <4>1. receipts[x] = receipts'[x] /\ receipts[x] \in Founders /\ x \in HeardBy(receipts[x])
        BY <1>5, <2>1, <3>2 DEF IntakeInv, OneRun
      <4>2. PICK q \in Founders : x \in HeardBy(q) /\ q = receipts'[x]
        BY <4>1
      <4>3. x \in HeardBy(q)'
        BY <1>9, <1>10, <4>2
      <4> QED BY <4>2, <4>3
    <3> QED BY <3>1, <3>2
  <2>4. \A x \in Arrivals : receipts'[x] # Absent =>
          receipts'[x] \in Founders /\ x \in {receipts'[x]} \union Range(founded'[receipts'[x]].inbox)
    BY <2>1 DEF HeardBy
  <2>2. \A q \in Founders : \A x \in HeardBy(q)' : receipts'[x] = q
    BY <1>5, <1>9, <1>10, <1>11 DEF IntakeInv, OneRun
  <2>3. \A q \in Arrivals : founded'[q].state = "none" => founded'[q].inbox = <<>>
    BY <1>7, <1>8 DEF IntakeInv, OneRun
  <2> QED BY <1>1, <1>9, <2>2, <2>3, <2>4 DEF OneRun, HeardBy
<1>13. HeardOnce'
  <2>1. ASSUME NEW q \in Founders, q # r
        PROVE  /\ Len(founded'[q].inbox) + 1 = Cardinality(HeardBy(q)')
               /\ \A x \in HeardBy(q)' : /\ events'[x].line = founded'[q].line
                                        /\ EventOf[x].sender = EventOf[q].sender
    BY <1>5, <1>8, <1>9, <1>10, <1>11, <2>1 DEF IntakeInv, HeardOnce
  <2>2. Len(founded'[r].inbox) + 1 = Cardinality(HeardBy(r)')
    <3>1. IsFiniteSet(HeardBy(r)) /\ Len(founded[r].inbox) + 1 = Cardinality(HeardBy(r))
      BY <1>3, HeardFacts DEF IntakeInv, HeardOnce
    <3>2. Cardinality(HeardBy(r) \union {m}) = Cardinality(HeardBy(r)) + 1
      BY <1>3, <1>11, <3>1, FS_AddElement
    <3> QED BY <1>6, <1>7, <1>8, <1>10, <3>1, <3>2
  <2>3. \A x \in HeardBy(r)' : /\ events'[x].line = founded'[r].line
                             /\ EventOf[x].sender = EventOf[r].sender
    <3>1. \A x \in HeardBy(r) : events[x].line = line /\ EventOf[x].sender = EventOf[r].sender
      BY <1>3 DEF IntakeInv, HeardOnce, line
    <3> QED BY <1>3, <1>5, <1>7, <1>8, <1>10, <1>11, <3>1 DEF m
  <2> QED BY <1>9, <2>1, <2>2, <2>3 DEF HeardOnce
<1>14. delivered' \in [Deliveries -> DeliveryRow] /\ UnderWay'
  <2> DEFINE over == [NotDelivered EXCEPT !.at = "over"]
  <2>1. over \in DeliveryRow /\ over.at = "over" /\ delivered' = [delivered EXCEPT ![d] = over]
    BY <1>1, NotAbsent DEF Ends
  <2> HIDE DEF over
  <2> QED BY <1>1, <1>5, <2>1, HandlersKeep
<1> QED BY <1>1, <1>5, <1>8, <1>12, <1>13, <1>14 DEF IntakeInv, Rows

\* A message founds a run.
LEMMA FoundInv ==
  ASSUME IntakeInv, NEW d \in Deliveries, Found(d)
  PROVE  IntakeInv'
<1> PICK m \in Arrivals : m = delivered[d].of
  BY DEF Found, IntakeInv, UnderWay
<1> PICK line \in SessionLines : line = TargetOf(m)
  BY NotAbsent
<1> PICK hint \in {"yes", "no", Absent} : hint = delivered[d].hint
  BY DEF IntakeInv, Rows, DeliveryRow
<1> PICK n \in Nat : n = Cardinality(Founders) + 1
  BY HeardFacts
<1> DEFINE row == [founded[m] EXCEPT !.state = "queued", !.line = line, !.ordinal = n]
<1>1. /\ delivered[d].at = "routed" /\ handling = "queue" /\ receipts[m] = Absent
      /\ ~Conflicting(m, line, hint) /\ Stores(m, line, hint)
      /\ founded' = [founded EXCEPT ![m] = row]
      /\ receipts' = Receipted(m, m) /\ Ends(d)
      /\ UNCHANGED <<handling, observations, spoken, attributions>>
  BY DEF Found
<1>2. founded \in [Arrivals -> RunRow] /\ founded[m] \in RunRow
  BY DEF IntakeInv, Rows
<1>3. /\ Founders \subseteq Arrivals /\ m \notin Founders
      /\ \A q \in Founders : m \notin HeardBy(q) /\ HeardBy(q) \subseteq Arrivals
  BY <1>1, HeardFacts
<1>4. founded[m].state = "none" /\ founded[m].inbox = <<>>
  BY <1>3 DEF IntakeInv, OneRun, Founders
<1>5. /\ events' \in [Arrivals -> EventRow] /\ receipts' \in [Arrivals -> Arrivals \union {Absent}]
      /\ events'[m].line = line /\ receipts'[m] = m
      /\ \A x \in Arrivals \ {m} : events'[x] = events[x] /\ receipts'[x] = receipts[x]
      /\ \A x \in Arrivals : events[x] # NoEvent => events'[x] = events[x]
      /\ Receipts'
  BY <1>1, StoredFacts
<1>6. /\ row \in RunRow /\ row.inbox = <<>> /\ row.line = line /\ row.state = "queued"
  BY <1>2, <1>4 DEF RunRow
<1> HIDE DEF row
<1>7. /\ founded' \in [Arrivals -> RunRow] /\ founded'[m] = row
      /\ \A q \in Arrivals \ {m} : founded'[q] = founded[q]
  BY <1>1, <1>2, <1>6
<1>8. Founders' = Founders \union {m}
  BY <1>6, <1>7 DEF Founders
<1>9. /\ HeardBy(m)' = {m}
      /\ \A q \in Arrivals \ {m} : HeardBy(q)' = HeardBy(q)
  <2>1. Range(<<>>) = {}
    BY DEF Range
  <2> QED BY <1>6, <1>7, <2>1 DEF HeardBy
<1>10. OneRun'
  <2>1. ASSUME NEW x \in Arrivals, receipts'[x] # Absent
        PROVE  \E q \in Founders \union {m} : q = receipts'[x] /\ x \in HeardBy(q)'
    <3>1. CASE x = m
      BY <1>5, <1>9, <3>1
    <3>2. CASE x # m
      <4>1. receipts[x] = receipts'[x] /\ receipts[x] \in Founders /\ x \in HeardBy(receipts[x])
        BY <1>5, <2>1, <3>2 DEF IntakeInv, OneRun
      <4>2. PICK q \in Founders : x \in HeardBy(q) /\ q = receipts'[x]
        BY <4>1
      <4>3. x \in HeardBy(q)'
        BY <1>3, <1>9, <4>2
      <4> QED BY <4>2, <4>3
    <3> QED BY <3>1, <3>2
  <2>2. \A x \in Arrivals : receipts'[x] # Absent =>
          receipts'[x] \in Founders' /\ x \in {receipts'[x]} \union Range(founded'[receipts'[x]].inbox)
    BY <1>8, <2>1 DEF HeardBy
  <2>3. \A q \in Founders' : \A x \in HeardBy(q)' : receipts'[x] = q
    BY <1>3, <1>5, <1>8, <1>9 DEF IntakeInv, OneRun
  <2>4. \A q \in Arrivals : founded'[q].state = "none" => founded'[q].inbox = <<>>
    BY <1>6, <1>7 DEF IntakeInv, OneRun
  <2> QED BY <1>1, <2>2, <2>3, <2>4 DEF OneRun, HeardBy
<1>11. HeardOnce'
  <2>1. ASSUME NEW q \in Founders
        PROVE  /\ Len(founded'[q].inbox) + 1 = Cardinality(HeardBy(q)')
               /\ \A x \in HeardBy(q)' : /\ events'[x].line = founded'[q].line
                                        /\ EventOf[x].sender = EventOf[q].sender
    BY <1>3, <1>5, <1>7, <1>9 DEF IntakeInv, HeardOnce
  <2>2. Len(founded'[m].inbox) + 1 = Cardinality(HeardBy(m)')
    <3>1. founded'[m].inbox = <<>> /\ Cardinality({m}) = 1
      BY <1>6, <1>7, FS_Singleton
    <3>2. Len(<<>>) = 0
      OBVIOUS
    <3> QED BY <1>9, <3>1, <3>2
  <2>3. \A x \in HeardBy(m)' : /\ events'[x].line = founded'[m].line
                             /\ EventOf[x].sender = EventOf[m].sender
    BY <1>5, <1>6, <1>7, <1>9
  <2> QED BY <1>8, <2>1, <2>2, <2>3 DEF HeardOnce
<1>12. delivered' \in [Deliveries -> DeliveryRow] /\ UnderWay'
  <2> DEFINE over == [NotDelivered EXCEPT !.at = "over"]
  <2>1. over \in DeliveryRow /\ over.at = "over" /\ delivered' = [delivered EXCEPT ![d] = over]
    BY <1>1, NotAbsent DEF Ends
  <2> HIDE DEF over
  <2> QED BY <1>1, <1>5, <2>1, HandlersKeep
<1> QED BY <1>1, <1>5, <1>7, <1>10, <1>11, <1>12 DEF IntakeInv, Rows

\* Without a queue a message is accepted, by this delivery or an earlier one.
LEMMA AcceptPlainInv ==
  ASSUME IntakeInv, NEW d \in Deliveries, AcceptPlain(d)
  PROVE  IntakeInv'
<1> PICK m \in Arrivals : m = delivered[d].of
  BY DEF AcceptPlain, IntakeInv, UnderWay
<1>1. /\ handling = "plain" /\ delivered[d].at \in {"routed", "attributed"}
      /\ delivered[d] \in DeliveryRow /\ founded \in [Arrivals -> RunRow] /\ founded[m] \in RunRow
      /\ UNCHANGED <<handling, observations, spoken, attributions>>
  BY DEF AcceptPlain, IntakeInv, Rows
<1> PICK line \in SessionLines : line = IF EventOf[m].native THEN TargetOf(m) ELSE delivered[d].line
  BY <1>1, NotAbsent DEF IntakeInv, UnderWay
<1> PICK hint \in {"yes", "no", Absent} : hint = delivered[d].hint
  BY <1>1 DEF DeliveryRow
<1>2. CASE Conflicting(m, line, hint)
  <2>1. Ends(d) /\ UNCHANGED <<events, receipts, founded>>
    BY <1>2 DEF AcceptPlain
  <2> DEFINE over == [NotDelivered EXCEPT !.at = "over"]
  <2>2. over \in DeliveryRow /\ over.at = "over" /\ delivered' = [delivered EXCEPT ![d] = over]
    BY <2>1, NotAbsent DEF Ends
  <2> HIDE DEF over
  <2>3. delivered' \in [Deliveries -> DeliveryRow] /\ UnderWay'
    BY <1>1, <2>1, <2>2, HandlersKeep
  <2> QED BY <1>1, <2>1, <2>3, OthersKeep DEF IntakeInv, Rows
<1>3. CASE ~Conflicting(m, line, hint)
  <2> DEFINE to == IF founded[m].state = "none" THEN "queued" ELSE founded[m].state
             row == [founded[m] EXCEPT !.state = to, !.line = line]
             next == IF events[m] = NoEvent /\ ~EventOf[m].native THEN [delivered[d] EXCEPT !.at = "stored"]
                     ELSE [NotDelivered EXCEPT !.at = "over"]
  <2>1. /\ Stores(m, line, hint) /\ receipts' = Receipted(m, m)
        /\ founded' = [founded EXCEPT ![m].state = to, ![m].line = line]
        /\ IF events[m] = NoEvent /\ ~EventOf[m].native THEN Moves(d, "stored") ELSE Ends(d)
    BY <1>3 DEF AcceptPlain
  <2>2. /\ events' \in [Arrivals -> EventRow] /\ receipts' \in [Arrivals -> Arrivals \union {Absent}]
        /\ events'[m].line = line /\ receipts'[m] = m
        /\ \A x \in Arrivals \ {m} : events'[x] = events[x] /\ receipts'[x] = receipts[x]
        /\ \A x \in Arrivals : events[x] # NoEvent => events'[x] = events[x]
        /\ Receipts'
    <3>1. attributions' = attributions
      BY <1>1
    <3>2. Stores(m, line, hint) /\ receipts' = Receipted(m, m)
      BY <2>1
    <3> HIDE DEF to, row, next
    <3> QED BY <1>3, <3>1, <3>2, StoredFacts
  <2>3. founded[m].inbox = <<>> /\ founded' = [founded EXCEPT ![m] = row]
    BY <1>1, <2>1 DEF IntakeInv, OneRun
  <2>4. to \in {"queued", "claimed", "done"}
    BY <1>1 DEF RunRow
  <2> HIDE DEF to
  <2>5. row \in RunRow /\ row.state # "none" /\ row.inbox = <<>> /\ row.line = line
    BY <1>1, <2>3, <2>4 DEF RunRow
  <2> HIDE DEF row
  <2>6. /\ founded' \in [Arrivals -> RunRow] /\ founded'[m] = row
        /\ \A q \in Arrivals \ {m} : founded'[q] = founded[q]
    BY <1>1, <2>3, <2>5
  <2>7. \A q \in Arrivals : founded[q].inbox = <<>> /\ founded'[q].inbox = <<>>
    BY <1>1, <2>5, <2>6 DEF IntakeInv, OneRun
  <2>8. \A q \in Arrivals : HeardBy(q) = {q} /\ HeardBy(q)' = {q}
    <3>1. Range(<<>>) = {}
      BY DEF Range
    <3> QED BY <2>7, <3>1 DEF HeardBy
  <2>9. Founders' = Founders \union {m} /\ Founders \subseteq Arrivals
    BY <2>5, <2>6 DEF Founders
  <2>10. OneRun'
    <3>1. \A x \in Arrivals : receipts'[x] # Absent => receipts'[x] \in Founders' /\ receipts'[x] = x
      BY <2>2, <2>8, <2>9 DEF IntakeInv, OneRun
    <3>2. \A x \in Arrivals : receipts'[x] # Absent =>
            receipts'[x] \in Founders' /\ x \in {receipts'[x]} \union Range(founded'[receipts'[x]].inbox)
      BY <3>1
    <3>3. \A q \in Founders' : \A x \in HeardBy(q)' : receipts'[x] = q
      BY <2>2, <2>8, <2>9 DEF IntakeInv, OneRun
    <3> QED BY <2>7, <3>2, <3>3 DEF OneRun, HeardBy
  <2>11. HeardOnce'
    <3> SUFFICES ASSUME NEW q \in Founders'
                 PROVE  /\ Len(founded'[q].inbox) + 1 = Cardinality(HeardBy(q)')
                        /\ \A x \in HeardBy(q)' : /\ events'[x].line = founded'[q].line
                                                 /\ EventOf[x].sender = EventOf[q].sender
        BY DEF HeardOnce
    <3>1. q \in Arrivals
      BY <2>9
    <3>2. Len(founded'[q].inbox) + 1 = 1 /\ Cardinality({q}) = 1
      <4>1. Cardinality({q}) = 1
        BY FS_Singleton
      <4>2. Len(<<>>) = 0
        OBVIOUS
      <4> QED BY <2>7, <3>1, <4>1, <4>2
    <3>3. events'[q].line = founded'[q].line
      <4>1. CASE q = m
        BY <2>2, <2>5, <2>6, <4>1
      <4>2. CASE q # m
        BY <2>2, <2>6, <2>8, <2>9, <3>1, <4>2 DEF IntakeInv, HeardOnce
      <4> QED BY <4>1, <4>2
    <3>4. HeardBy(q)' = {q}
      BY <2>8, <3>1
    <3> QED BY <3>2, <3>3, <3>4
  <2>12. delivered' \in [Deliveries -> DeliveryRow] /\ UnderWay'
    <3>1. delivered' = [delivered EXCEPT ![d] = next]
      BY <1>1, <2>1 DEF Ends, Moves, IntakeInv, Rows
    <3>2. /\ next \in DeliveryRow /\ next.at \in {"stored", "over"}
          /\ next.at = "stored" => next.of = m /\ next.line = line
      BY <1>1, NotAbsent DEF DeliveryRow
    <3> HIDE DEF next
    <3> QED BY <1>1, <2>2, <3>1, <3>2, HandlersKeep
  <2> QED BY <1>1, <2>2, <2>6, <2>10, <2>11, <2>12 DEF IntakeInv, Rows
<1> QED BY <1>2, <1>3

\* Before anything arrives the invariant holds.
LEMMA IntakeInitInv == IntakeInit => IntakeInv
<1> SUFFICES ASSUME IntakeInit PROVE IntakeInv
    OBVIOUS
<1>1. Rows
  BY NotAbsent DEF IntakeInit, Rows
<1>2. UnderWay
  BY DEF IntakeInit, UnderWay, NotDelivered
<1>3. Receipts
  BY DEF IntakeInit, Receipts
<1>4. Founders = {} /\ \A r \in Arrivals : founded[r].inbox = <<>>
  BY DEF IntakeInit, Founders, NoRun
<1>5. OneRun /\ HeardOnce
  BY <1>4 DEF IntakeInit, OneRun, HeardOnce
<1> QED BY <1>1, <1>2, <1>3, <1>5 DEF IntakeInv

\* Every step of the intake keeps it.
LEMMA IntakeStepInv == IntakeInv /\ [IntakeNext]_intakeVars => IntakeInv'
<1> SUFFICES ASSUME IntakeInv, [IntakeNext]_intakeVars PROVE IntakeInv'
    OBVIOUS
<1>1. CASE UNCHANGED intakeVars
  <2>1. UNCHANGED <<handling, events, receipts, founded, delivered, observations, spoken, attributions>>
    BY <1>1 DEF intakeVars
  <2>2. UnderWay'
    BY <2>1 DEF IntakeInv, UnderWay
  <2> QED BY <2>1, <2>2, OthersKeep DEF IntakeInv, Rows
<1>2. CASE IntakeNext
  BY <1>2, DeliverInv, RoutedInv, FoundInv, JoinInv, AttributeInv, AcceptPlainInv,
     RecordAttributionInv, WorldInv
     DEF IntakeNext
<1> QED BY <1>1, <1>2

\* A message that was accepted is heard by one run, once, on the line and from
\* the person of that run; one that was not is heard by none.  For any
\* messages, policies and deliveries, overlapping or repeated, and any restarts.
THEOREM EachHeardOnceHolds == IntakeSpec => []EachHeardOnce
<1>1. IntakeInv => EachHeardOnce
  <2> SUFFICES ASSUME IntakeInv PROVE EachHeardOnce
      OBVIOUS
  <2>1. ASSUME NEW m \in Arrivals
        PROVE  {r \in Founders : m \in HeardBy(r)} = {receipts[m]} \ {Absent}
    <3>1. \A r \in Founders : m \in HeardBy(r) => receipts[m] = r /\ r \in Arrivals
      BY DEF IntakeInv, OneRun, Founders
    <3>2. receipts[m] # Absent => receipts[m] \in Founders /\ m \in HeardBy(receipts[m])
      BY DEF IntakeInv, OneRun
    <3> QED BY <3>1, <3>2, NotAbsent
  <2> QED BY <2>1 DEF IntakeInv, Receipts, HeardOnce, EachHeardOnce
<1> QED BY IntakeInitInv, IntakeStepInv, <1>1, PTL DEF IntakeSpec

(* ------------------------------- the file -------------------------------- *)

\* a set of numbers has a least one: the least of the intervals below them
LEMMA LeastNumber ==
  ASSUME NEW T, T \subseteq Nat, T # {}
  PROVE  \E n \in T : \A m \in T : n <= m
<1> DEFINE S == {0..n : n \in T}
<1>1. S \subseteq FiniteSubsetsOf(Nat)
  <2>1. \A n \in Nat : IsFiniteSet(0..n) /\ 0..n \subseteq Nat
    BY FS_Interval
  <2> QED
    BY <2>1 DEF FiniteSubsetsOf
<1>2. PICK X \in S : \A Y \in S : ~(<<Y, X>> \in StrictSubsetOrdering(Nat))
  <2>1. S # {}
    OBVIOUS
  <2>2. IsWellFoundedOn(StrictSubsetOrdering(Nat), FiniteSubsetsOf(Nat))
    BY FS_StrictSubsetOrderingWellFounded
  <2> HIDE DEF S
  <2> QED
    BY <1>1, <2>1, <2>2, WFMin
<1>3. PICK n \in T : X = 0..n
  BY <1>2
<1>4. ASSUME NEW m \in T, m < n PROVE FALSE
  <2>1. 0..m \in S /\ 0..m \subseteq 0..n /\ 0..m # 0..n /\ 0..m \subseteq Nat /\ 0..n \subseteq Nat
    BY <1>4
  <2>2. <<0..m, 0..n>> \in StrictSubsetOrdering(Nat)
    BY <2>1 DEF StrictSubsetOrdering
  <2> QED
    BY <1>2, <1>3, <2>1, <2>2
<1> QED
  BY <1>4

\* induction, of a set instead of a formula
LEMMA CountUp ==
  ASSUME NEW n \in Nat, NEW T, 0 \in T, \A k \in 1..n : k - 1 \in T => k \in T
  PROVE  \A k \in 0..n : k \in T
<1> DEFINE U == {k \in 0..n : k \notin T}
<1> SUFFICES ASSUME U # {} PROVE FALSE
  OBVIOUS
<1>1. PICK k \in U : \A m \in U : k <= m
  <2>1. U \subseteq Nat
    OBVIOUS
  <2> HIDE DEF U
  <2> QED
    BY <2>1, LeastNumber
<1>2. k - 1 \in 0..n /\ k - 1 \notin U
  BY <1>1
<1> QED
  BY <1>1, <1>2


\* what NodesOn goes through
Reads(r, tree, path) == r[0] = tree /\ \A n \in 1..Len(path) : r[n] = Field(r[n - 1], path[n])

\* At is where these steps end: the function that NodesOn defines exists
LEMMA AtReads ==
  ASSUME NEW tree, NEW path, Len(path) \in Nat
  PROVE  \E r : Reads(r, tree, path) /\ At(tree, path) = r[Len(path)]
<1> DEFINE Upto(f, m) == f = [n \in 0..m |-> IF n = 0 THEN tree ELSE Field(f[n - 1], path[n])]
           T == {m \in 0..Len(path) : \E f : Upto(f, m)}
           node[n \in 0..Len(path)] == IF n = 0 THEN tree ELSE Field(node[n - 1], path[n])
<1>1. 0 \in T
  <2>1. Upto([n \in 0..0 |-> tree], 0)
    OBVIOUS
  <2> HIDE DEF Upto
  <2> QED
    BY <2>1
<1>2. ASSUME NEW m \in 1..Len(path), m - 1 \in T PROVE m \in T
  <2>1. PICK f : Upto(f, m - 1)
    BY <1>2
  <2> DEFINE g == [n \in 0..m |-> IF n = m THEN Field(f[m - 1], path[m]) ELSE f[n]]
  <2>2. \A n \in 0..(m - 1) : f[n] = IF n = 0 THEN tree ELSE Field(f[n - 1], path[n])
    BY <2>1, Zenon
  <2>3. \A n \in 0..m : g[n] = IF n = 0 THEN tree ELSE Field(g[n - 1], path[n])
    <3> TAKE n \in 0..m
    <3>1. CASE n = m
      <4>1. g[n - 1] = f[m - 1] /\ n # 0
        BY <3>1
      <4> QED
        BY <3>1, <4>1
    <3>2. CASE n # m
      <4>1. n \in 0..(m - 1) /\ (n # 0 => n - 1 \in 0..m /\ n - 1 # m)
        BY <3>2
      <4>2. g[n] = f[n] /\ (n # 0 => g[n - 1] = f[n - 1])
        BY <3>2, <4>1
      <4> QED
        BY <2>2, <4>1, <4>2
    <3> QED
      BY <3>1, <3>2
  <2>4. Upto(g, m)
    <3> HIDE DEF g
    <3>1. g = [n \in 0..m |-> g[n]]
      BY DEF g
    <3> QED
      BY <2>3, <3>1
  <2> HIDE DEF Upto, g
  <2> QED
    BY <2>4
<1>3. Len(path) \in T
  <2> HIDE DEF T
  <2>1. \A k \in 1..Len(path) : k - 1 \in T => k \in T
    BY <1>2
  <2>2. \A k \in 0..Len(path) : k \in T
    BY <1>1, <2>1, CountUp, Zenon
  <2> QED
    BY <2>2
<1>4. PICK f : Upto(f, Len(path))
  BY <1>3
<1> HIDE DEF node, T
<1>5. node = [n \in 0..Len(path) |-> IF n = 0 THEN tree ELSE Field(node[n - 1], path[n])]
  BY <1>4 DEF node
<1>6. \A n \in 0..Len(path) : node[n] = IF n = 0 THEN tree ELSE Field(node[n - 1], path[n])
  BY <1>5, Zenon
<1>7. Reads(node, tree, path)
  <2>1. 0 \in 0..Len(path) /\ \A n \in 1..Len(path) : n \in 0..Len(path) /\ n # 0
    OBVIOUS
  <2> QED
    BY <1>6, <2>1 DEF Reads
<1>8. At(tree, path) = node[Len(path)]
  BY DEF At, NodesOn, node
<1> QED
  BY <1>7, <1>8

\* two readings that meet end at the same
LEMMA SameFrom ==
  ASSUME NEW a, NEW b, NEW path, Len(path) \in Nat, NEW r, NEW s,
         Reads(r, a, path), Reads(s, b, path), NEW k \in 0..Len(path), r[k] = s[k]
  PROVE  r[Len(path)] = s[Len(path)]
<1> DEFINE T == {m \in Nat : k + m \in 0..Len(path) => r[k + m] = s[k + m]}
<1>1. 0 \in T /\ Len(path) - k \in Nat
  OBVIOUS
<1>2. ASSUME NEW m \in 1..(Len(path) - k), m - 1 \in T PROVE m \in T
  <2>1. k + m \in 1..Len(path) /\ k + (m - 1) = (k + m) - 1 /\ k + (m - 1) \in 0..Len(path) /\ m \in Nat
    OBVIOUS
  <2>2. r[(k + m) - 1] = s[(k + m) - 1]
    BY <1>2, <2>1
  <2>3. r[k + m] = Field(r[(k + m) - 1], path[k + m]) /\ s[k + m] = Field(s[(k + m) - 1], path[k + m])
    BY <2>1 DEF Reads
  <2> QED
    BY <2>1, <2>2, <2>3
<1>3. Len(path) - k \in T
  <2> HIDE DEF T
  <2>1. \A j \in 1..(Len(path) - k) : j - 1 \in T => j \in T
    BY <1>2
  <2>2. \A j \in 0..(Len(path) - k) : j \in T
    BY <1>1, <2>1, CountUp, Zenon
  <2> QED
    BY <1>1, <2>2
<1> QED
  BY <1>3

\* the nodes of an edit, and the trees made of them, from the whole to the value
Makes(node, up, raw, path, value) ==
  /\ node[0] = raw /\ \A n \in 1..Len(path) : node[n] = Child(node[n - 1], path[n], value)
  /\ up[Len(path)] = value
  /\ \A n \in 1..Len(path) :
       up[n - 1] = IF n < Len(path) /\ up[n] = Missing THEN Missing ELSE PutKey(node[n - 1], path[n], up[n])

LEMMA NodesMadeAll ==
  ASSUME NEW raw, NEW path, Len(path) \in Nat, NEW value
  PROVE  /\ NodesMade(raw, path, value)[0] = raw
         /\ \A n \in 1..Len(path) :
              NodesMade(raw, path, value)[n] = Child(NodesMade(raw, path, value)[n - 1], path[n], value)
<1> DEFINE Upto(f, m) == f = [n \in 0..m |-> IF n = 0 THEN raw ELSE Child(f[n - 1], path[n], value)]
           T == {m \in 0..Len(path) : \E f : Upto(f, m)}
           node[n \in 0..Len(path)] == IF n = 0 THEN raw ELSE Child(node[n - 1], path[n], value)
<1>1. 0 \in T
  <2>1. Upto([n \in 0..0 |-> raw], 0)
    OBVIOUS
  <2> HIDE DEF Upto
  <2> QED
    BY <2>1
<1>2. ASSUME NEW m \in 1..Len(path), m - 1 \in T PROVE m \in T
  <2>1. PICK f : Upto(f, m - 1)
    BY <1>2
  <2> DEFINE g == [n \in 0..m |-> IF n = m THEN Child(f[m - 1], path[m], value) ELSE f[n]]
  <2>2. \A n \in 0..(m - 1) : f[n] = IF n = 0 THEN raw ELSE Child(f[n - 1], path[n], value)
    BY <2>1, Zenon
  <2>3. \A n \in 0..m : g[n] = IF n = 0 THEN raw ELSE Child(g[n - 1], path[n], value)
    <3> TAKE n \in 0..m
    <3>1. CASE n = m
      <4>1. g[n - 1] = f[m - 1] /\ n # 0
        BY <3>1
      <4> QED
        BY <3>1, <4>1
    <3>2. CASE n # m
      <4>1. n \in 0..(m - 1) /\ (n # 0 => n - 1 \in 0..m /\ n - 1 # m)
        BY <3>2
      <4>2. g[n] = f[n] /\ (n # 0 => g[n - 1] = f[n - 1])
        BY <3>2, <4>1
      <4> QED
        BY <2>2, <4>1, <4>2
    <3> QED
      BY <3>1, <3>2
  <2>4. Upto(g, m)
    <3> HIDE DEF g
    <3>1. g = [n \in 0..m |-> g[n]]
      BY DEF g
    <3> QED
      BY <2>3, <3>1
  <2> HIDE DEF Upto, g
  <2> QED
    BY <2>4
<1>3. Len(path) \in T
  <2> HIDE DEF T
  <2>1. \A k \in 1..Len(path) : k - 1 \in T => k \in T
    BY <1>2
  <2>2. \A k \in 0..Len(path) : k \in T
    BY <1>1, <2>1, CountUp, Zenon
  <2> QED
    BY <2>2
<1>4. PICK f : Upto(f, Len(path))
  BY <1>3
<1> HIDE DEF node, T
<1>5. node = [n \in 0..Len(path) |-> IF n = 0 THEN raw ELSE Child(node[n - 1], path[n], value)]
  BY <1>4 DEF node
<1>6. \A n \in 0..Len(path) : node[n] = IF n = 0 THEN raw ELSE Child(node[n - 1], path[n], value)
  BY <1>5, Zenon
<1>7. NodesMade(raw, path, value) = node
  BY DEF NodesMade, node
<1>8. 0 \in 0..Len(path) /\ \A n \in 1..Len(path) : n \in 0..Len(path) /\ n # 0
  OBVIOUS
<1> QED
  BY <1>6, <1>7, <1>8

\* what Edited computes: its two loops exist
LEMMA EditedMakes ==
  ASSUME NEW raw, NEW path, Len(path) \in Nat, NEW value
  PROVE  \E node, up : Makes(node, up, raw, path, value) /\ Remade(raw, path, value)[Len(path)] = up[0]
<1> DEFINE node == NodesMade(raw, path, value)
           above(n) == Len(path) - n
           Made(f, n) == IF n = 0 THEN value
                         ELSE IF n > 1 /\ f[n - 1] = Missing THEN Missing
                         ELSE PutKey(node[above(n)], path[above(n) + 1], f[n - 1])
           Upto(f, m) == f = [n \in 0..m |-> Made(f, n)]
           T == {m \in 0..Len(path) : \E f : Upto(f, m)}
           tree[n \in 0..Len(path)] ==
             IF n = 0 THEN value
             ELSE IF n > 1 /\ tree[n - 1] = Missing THEN Missing
             ELSE PutKey(node[above(n)], path[above(n) + 1], tree[n - 1])
<1> HIDE DEF node
<1>1. 0 \in T
  <2>1. Upto([n \in 0..0 |-> value], 0)
    OBVIOUS
  <2> HIDE DEF Upto
  <2> QED
    BY <2>1
<1>2. ASSUME NEW m \in 1..Len(path), m - 1 \in T PROVE m \in T
  <2>1. PICK f : Upto(f, m - 1)
    BY <1>2
  <2> DEFINE g == [n \in 0..m |-> IF n = m THEN Made(f, m) ELSE f[n]]
  <2> HIDE DEF Made
  <2>2. \A n \in 0..(m - 1) : f[n] = Made(f, n)
    BY <2>1, Zenon
  <2>3. \A n \in 0..m : g[n] = Made(g, n)
    <3> TAKE n \in 0..m
    <3>1. CASE n = m
      <4>1. g[n - 1] = f[n - 1] /\ n # 0 /\ g[n] = Made(f, n)
        BY <3>1
      <4>2. Made(g, n) = Made(f, n)
        <5> HIDE DEF g
        <5> QED
          BY <4>1 DEF Made
      <4> QED
        BY <4>1, <4>2
    <3>2. CASE n # m
      <4>1. n \in 0..(m - 1) /\ (n # 0 => n - 1 \in 0..m /\ n - 1 # m)
        BY <3>2
      <4>2. g[n] = f[n] /\ (n # 0 => g[n - 1] = f[n - 1])
        BY <3>2, <4>1
      <4>3. Made(g, n) = Made(f, n)
        <5> HIDE DEF g
        <5> QED
          BY <4>2 DEF Made
      <4> QED
        BY <2>2, <4>1, <4>2, <4>3
    <3> QED
      BY <3>1, <3>2
  <2>4. Upto(g, m)
    <3> HIDE DEF g
    <3>1. g = [n \in 0..m |-> g[n]]
      BY DEF g
    <3> QED
      BY <2>3, <3>1
  <2> HIDE DEF Upto, g
  <2> QED
    BY <2>4
<1>3. Len(path) \in T
  <2> HIDE DEF T
  <2>1. \A k \in 1..Len(path) : k - 1 \in T => k \in T
    BY <1>2
  <2>2. \A k \in 0..Len(path) : k \in T
    BY <1>1, <2>1, CountUp, Zenon
  <2> QED
    BY <2>2
<1>4. PICK f : Upto(f, Len(path))
  BY <1>3
<1> HIDE DEF tree, T
<1>5. tree = [n \in 0..Len(path) |->
                IF n = 0 THEN value
                ELSE IF n > 1 /\ tree[n - 1] = Missing THEN Missing
                ELSE PutKey(node[above(n)], path[above(n) + 1], tree[n - 1])]
  BY <1>4 DEF tree
<1>6. \A n \in 0..Len(path) : tree[n] = Made(tree, n)
  BY <1>5, Zenon
<1>7. Remade(raw, path, value) = tree
  BY DEF Remade, tree, node
<1> DEFINE up == [n \in 0..Len(path) |-> tree[Len(path) - n]]
<1>8. up[Len(path)] = value /\ up[0] = tree[Len(path)]
  <2>1. up[Len(path)] = tree[0] /\ up[0] = tree[Len(path)]
    OBVIOUS
  <2>2. tree[0] = value
    BY <1>6
  <2> QED
    BY <2>1, <2>2
<1>9. ASSUME NEW n \in 1..Len(path)
      PROVE  up[n - 1] = IF n < Len(path) /\ up[n] = Missing THEN Missing ELSE PutKey(node[n - 1], path[n], up[n])
  <2> DEFINE m == Len(path) - (n - 1)
  <2>1. m \in 1..Len(path) /\ m \in 0..Len(path) /\ m # 0 /\ (m > 1 <=> n < Len(path)) /\ above(m) = n - 1 /\ above(m) + 1 = n
    OBVIOUS
  <2>2. up[n - 1] = tree[m] /\ up[n] = tree[m - 1]
    <3>1. m - 1 = Len(path) - n /\ n - 1 \in 0..Len(path) /\ n \in 0..Len(path)
      OBVIOUS
    <3> QED
      BY <3>1
  <2> HIDE DEF up, m, above
  <2>3. tree[m] = Made(tree, m)
    BY <1>6, <2>1
  <2> QED
    BY <2>1, <2>2, <2>3
<1>10. Makes(node, up, raw, path, value)
  <2> HIDE DEF up
  <2> QED
    BY <1>8, <1>9, NodesMadeAll DEF Makes, node
<1> HIDE DEF up
<1> QED
  BY <1>7, <1>8, <1>10

\* an edit that is not refused goes through objects only, which it sets a key of
LEMMA MakesWhole ==
  ASSUME NEW raw, NEW path, Len(path) \in Nat \ {0}, NEW value, NEW node, NEW up,
         Makes(node, up, raw, path, value), up[0] # Missing, value # Missing,
         \A n \in 1..Len(path) : Place(path[n]) = 0
  PROVE  \A n \in 1..Len(path) : /\ node[n - 1].kind = "object" /\ up[n] # Missing
                                 /\ up[n - 1] = Object(With(node[n - 1].fields, path[n], up[n]))
<1>1. ASSUME NEW n \in 1..Len(path), up[n - 1] # Missing
      PROVE  /\ node[n - 1].kind = "object" /\ up[n] # Missing
             /\ up[n - 1] = Object(With(node[n - 1].fields, path[n], up[n]))
  <2>1. up[n] # Missing
    <3>1. CASE n < Len(path)
      BY <1>1, <3>1 DEF Makes
    <3>2. CASE n = Len(path)
      BY <3>2 DEF Makes
    <3> QED
      BY <3>1, <3>2
  <2>2. up[n - 1] = PutKey(node[n - 1], path[n], up[n])
    BY <2>1 DEF Makes
  <2>3. Place(path[n]) \notin 1..Len(node[n - 1].items) + (IF up[n] = Missing THEN 0 ELSE 1)
    <3>1. \A x : 0 \notin 1..x
      OBVIOUS
    <3>2. Place(path[n]) = 0
      OBVIOUS
    <3> QED
      BY <3>1, <3>2, Zenon
  <2>4. node[n - 1].kind = "object"
    BY <1>1, <2>2, <2>3 DEF PutKey
  <2> QED
    BY <2>1, <2>2, <2>4 DEF PutKey
<1> DEFINE T == {n \in 0..Len(path) : up[n] # Missing}
<1>2. 0 \in T /\ Len(path) \in Nat
  OBVIOUS
<1>3. \A n \in 1..Len(path) : n - 1 \in T => n \in T
  BY <1>1
<1>4. \A n \in 0..Len(path) : n \in T
  <2> HIDE DEF T
  <2> QED
    BY <1>2, <1>3, CountUp, Zenon
<1>5. \A n \in 1..Len(path) : up[n - 1] # Missing
  BY <1>4
<1> QED
  BY <1>1, <1>5

\* a key set is the key read, and the other keys stay
LEMMA KeySet ==
  ASSUME NEW fields, NEW k, NEW v
  PROVE  /\ Field(Object(With(fields, k, v)), k) = v
         /\ \A x : x # k => Field(Object(With(fields, k, v)), x) = Field(Object(fields), x)
         /\ Object(With(fields, k, v)).kind = "object" /\ Object(With(fields, k, v)) # Missing
<1>1. Object(With(fields, k, v)).kind = "object" /\ Object(With(fields, k, v)).fields = With(fields, k, v)
  BY DEF Object
<1>2. Object(fields).kind = "object" /\ Object(fields).fields = fields
  BY DEF Object
<1>3. Field(Object(With(fields, k, v)), k) = v
  BY <1>1 DEF Field, With
<1>4. ASSUME NEW x, x # k PROVE Field(Object(With(fields, k, v)), x) = Field(Object(fields), x)
  <2>1. x \in DOMAIN With(fields, k, v) <=> x \in DOMAIN fields
    BY <1>4 DEF With
  <2>2. x \in DOMAIN fields => With(fields, k, v)[x] = fields[x]
    BY <1>4 DEF With
  <2> QED
    BY <1>1, <1>2, <2>1, <2>2 DEF Field
<1>5. Object(With(fields, k, v)) # Missing
  BY <1>1 DEF Missing
<1> QED
  BY <1>1, <1>3, <1>4, <1>5

\* a tree of kind "object" reads as the object of its fields
LEMMA AsObject ==
  ASSUME NEW tree, tree.kind = "object"
  PROVE  \A k : Field(tree, k) = Field(Object(tree.fields), k)
BY DEF Field, Object

\* What was asked for is there after an edit, and every path apart from it
\* leads where it led.
LEMMA EditKeeps ==
  ASSUME NEW raw, NEW path, path \in Seq(STRING), path # <<>>, NEW value, value # Missing,
         raw.kind = "object", \A n \in 1..Len(path) : Place(path[n]) = 0,
         Remade(raw, path, value)[Len(path)] # Missing
  PROVE  LET made == Remade(raw, path, value)[Len(path)]
         IN  /\ made.kind = "object" /\ At(made, path) = value
             /\ \A k : k # path[1] => Field(made, k) = Field(raw, k)
             /\ \A q \in Seq(STRING) : Apart(q, path) => At(made, q) = At(raw, q)
<1> DEFINE made == Remade(raw, path, value)[Len(path)]
<1>1. Len(path) \in Nat \ {0} /\ Len(path) \in Nat /\ DOMAIN path = 1..Len(path)
  OBVIOUS
<1>2. PICK node, up : Makes(node, up, raw, path, value) /\ made = up[0]
  BY <1>1, EditedMakes
<1> HIDE DEF made
<1>3. \A n \in 1..Len(path) : /\ node[n - 1].kind = "object" /\ up[n] # Missing
                              /\ up[n - 1] = Object(With(node[n - 1].fields, path[n], up[n]))
  <2>1. up[0] # Missing
    BY <1>2 DEF made
  <2> QED
    BY <1>1, <1>2, <2>1, MakesWhole
<1>4. node[0] = raw /\ up[0] = Object(With(raw.fields, path[1], up[1]))
  <2>1. 1 \in 1..Len(path) /\ 1 - 1 = 0
    BY <1>1
  <2> QED
    BY <1>2, <1>3, <2>1 DEF Makes
<1>5. made.kind = "object" /\ \A k : k # path[1] => Field(made, k) = Field(raw, k)
  BY <1>2, <1>4, KeySet, AsObject
<1>6. At(made, path) = value
  <2>1. PICK r : Reads(r, made, path) /\ At(made, path) = r[Len(path)]
    BY <1>1, AtReads
  <2> DEFINE T == {n \in 0..Len(path) : r[n] = up[n]}
  <2>2. 0 \in T
    BY <1>2, <2>1 DEF Reads
  <2>3. ASSUME NEW n \in 1..Len(path), n - 1 \in T PROVE n \in T
    <3>1. r[n] = Field(r[n - 1], path[n]) /\ r[n - 1] = up[n - 1]
      BY <2>1, <2>3 DEF Reads
    <3>2. Field(up[n - 1], path[n]) = up[n]
      BY <1>3, KeySet
    <3> QED
      BY <3>1, <3>2
  <2>4. \A n \in 0..Len(path) : n \in T
    <3> HIDE DEF T
    <3> QED
      BY <1>1, <2>2, <2>3, CountUp, Zenon
  <2>5. r[Len(path)] = up[Len(path)]
    BY <1>1, <2>4
  <2> QED
    BY <1>2, <2>1, <2>5 DEF Makes
<1>7. ASSUME NEW q \in Seq(STRING), Apart(q, path) PROVE At(made, q) = At(raw, q)
  <2>1. Len(q) \in Nat /\ DOMAIN q = 1..Len(q)
    OBVIOUS
  <2> DEFINE D == {n \in DOMAIN q \cap DOMAIN path : q[n] # path[n]}
  <2>2. D # {} /\ D \subseteq Nat
    BY <1>1, <1>7, <2>1 DEF Apart
  <2>3. PICK c \in D : \A m \in D : c <= m
    <3> HIDE DEF D
    <3> QED
      BY <2>2, LeastNumber
  <2>4. c \in 1..Len(q) /\ c \in 1..Len(path) /\ q[c] # path[c] /\ c - 1 \in 0..Len(q) /\ c - 1 \in 0..Len(path)
    BY <1>1, <2>1, <2>3
  <2>5. \A n \in 1..(c - 1) : q[n] = path[n] /\ n \in 1..Len(q) /\ n \in 1..Len(path)
    <3> TAKE n \in 1..(c - 1)
    <3>1. n \in 1..Len(q) /\ n \in 1..Len(path) /\ ~(c <= n)
      BY <2>4
    <3> QED
      BY <1>1, <2>1, <2>3, <3>1
  <2> HIDE DEF D
  <2>6. PICK r : Reads(r, made, q) /\ At(made, q) = r[Len(q)]
    BY <2>1, AtReads
  <2>7. PICK s : Reads(s, raw, q) /\ At(raw, q) = s[Len(q)]
    BY <2>1, AtReads
  <2> DEFINE T == {n \in 0..(c - 1) : r[n] = up[n] /\ (s[n] = node[n] \/ (s[n] = Missing /\ node[n] = Empty))}
  <2>8. 0 \in T
    BY <1>2, <2>4, <2>6, <2>7 DEF Reads, Makes
  <2>9. ASSUME NEW n \in 1..(c - 1), n - 1 \in T PROVE n \in T
    <3>1. n \in 1..Len(q) /\ n \in 1..Len(path) /\ q[n] = path[n]
      BY <2>5
    <3>2. r[n] = up[n]
      <4>1. r[n] = Field(r[n - 1], path[n]) /\ r[n - 1] = up[n - 1]
        BY <2>6, <2>9, <3>1 DEF Reads
      <4>2. Field(up[n - 1], path[n]) = up[n]
        BY <1>3, <3>1, KeySet
      <4> QED
        BY <4>1, <4>2
    <3>3. s[n] = Field(s[n - 1], path[n])
      BY <2>7, <3>1 DEF Reads
    <3>4. node[n] = IF Field(node[n - 1], path[n]) = Missing THEN Empty ELSE Field(node[n - 1], path[n])
      <4>1. node[n] = Child(node[n - 1], path[n], value) /\ node[n - 1].kind = "object"
        BY <1>2, <1>3, <3>1 DEF Makes
      <4> QED
        BY <4>1 DEF Child
    <3>5. CASE s[n - 1] = node[n - 1]
      BY <3>2, <3>3, <3>4, <3>5
    <3>6. CASE s[n - 1] = Missing /\ node[n - 1] = Empty
      <4>1. Field(Missing, path[n]) = Missing /\ Field(Empty, path[n]) = Missing
        BY DEF Field, Missing, Empty, Object
      <4> QED
        BY <3>2, <3>3, <3>4, <3>6, <4>1
    <3> QED
      BY <2>9, <3>5, <3>6
  <2>10. c - 1 \in T
    <3>1. c - 1 \in Nat /\ c - 1 \in 0..(c - 1)
      BY <2>4
    <3> HIDE DEF T
    <3>2. \A n \in 1..(c - 1) : n - 1 \in T => n \in T
      BY <2>9
    <3>3. \A n \in 0..(c - 1) : n \in T
      BY <2>8, <3>1, <3>2, CountUp, Zenon
    <3> QED
      BY <3>1, <3>3
  <2>11. r[c] = s[c]
    <3>1. r[c] = Field(r[c - 1], q[c]) /\ s[c] = Field(s[c - 1], q[c])
      BY <2>4, <2>6, <2>7 DEF Reads
    <3>2. r[c - 1] = Object(With(node[c - 1].fields, path[c], up[c])) /\ node[c - 1].kind = "object"
      BY <1>3, <2>4, <2>10
    <3>3. Field(r[c - 1], q[c]) = Field(node[c - 1], q[c])
      BY <2>4, <3>2, KeySet, AsObject
    <3>4. CASE s[c - 1] = node[c - 1]
      BY <3>1, <3>3, <3>4
    <3>5. CASE s[c - 1] = Missing /\ node[c - 1] = Empty
      <4>1. Field(Missing, q[c]) = Missing /\ Field(Empty, q[c]) = Missing
        BY DEF Field, Missing, Empty, Object
      <4> QED
        BY <3>1, <3>3, <3>5, <4>1
    <3> QED
      BY <2>10, <3>4, <3>5
  <2>12. r[Len(q)] = s[Len(q)]
    <3>1. c \in 0..Len(q)
      BY <2>4
    <3> QED
      BY <2>1, <2>6, <2>7, <2>11, <3>1, SameFrom
  <2> QED
    BY <2>6, <2>7, <2>12
<1> QED
  BY <1>5, <1>6, <1>7 DEF made

\* below Missing there is nothing
LEMMA MissingStays ==
  ASSUME NEW a, NEW path, Len(path) \in Nat, NEW r, Reads(r, a, path), NEW k \in 0..Len(path), r[k] = Missing
  PROVE  r[Len(path)] = Missing
<1> DEFINE s == [n \in 0..Len(path) |-> Missing]
<1>1. Field(Missing, "") = Missing /\ \A x : Field(Missing, x) = Missing
  BY DEF Field, Missing
<1>2. \A n \in 0..Len(path) : s[n] = Missing
  OBVIOUS
<1> HIDE DEF s
<1>3. Reads(s, Missing, path)
  <2>1. 0 \in 0..Len(path) /\ \A n \in 1..Len(path) : n \in 0..Len(path) /\ n - 1 \in 0..Len(path)
    OBVIOUS
  <2> QED
    BY <1>1, <1>2, <2>1 DEF Reads
<1>4. r[Len(path)] = s[Len(path)]
  <2>1. r[k] = s[k]
    BY <1>2
  <2> QED
    BY <1>3, <2>1, SameFrom
<1> QED
  BY <1>2, <1>4

LEMMA FieldsRead ==
  ASSUME NEW tree PROVE \A k : Field(Object(FieldsOf(tree)), k) = Field(tree, k)
BY DEF Field, FieldsOf, Object

LEMMA UponRead ==
  ASSUME NEW fields, NEW old
  PROVE  \A k : Field(Object(Upon(fields, old)), k) = IF k \in DOMAIN fields THEN fields[k] ELSE Field(Object(old), k)
<1> TAKE k
<1>1. /\ Object(Upon(fields, old)).kind = "object" /\ Object(Upon(fields, old)).fields = Upon(fields, old)
      /\ Object(old).kind = "object" /\ Object(old).fields = old
  BY DEF Object
<1>2. k \in DOMAIN Upon(fields, old) <=> k \in DOMAIN fields \/ k \in DOMAIN old
  BY DEF Upon
<1>3. k \in DOMAIN Upon(fields, old) => Upon(fields, old)[k] = IF k \in DOMAIN fields THEN fields[k] ELSE old[k]
  BY DEF Upon
<1> QED
  BY <1>1, <1>2, <1>3 DEF Field

\* paths whose first, second or third keys lead to the same
LEMMA SameAfter ==
  ASSUME NEW a, NEW b, NEW q, Len(q) \in Nat,
         \/ Len(q) >= 1 /\ Field(a, q[1]) = Field(b, q[1])
         \/ Len(q) >= 2 /\ Field(Field(a, q[1]), q[2]) = Field(Field(b, q[1]), q[2])
         \/ Len(q) >= 3 /\ Field(Field(Field(a, q[1]), q[2]), q[3]) = Field(Field(Field(b, q[1]), q[2]), q[3])
  PROVE  At(a, q) = At(b, q)
<1>1. PICK r : Reads(r, a, q) /\ At(a, q) = r[Len(q)]
  BY AtReads
<1>2. PICK s : Reads(s, b, q) /\ At(b, q) = s[Len(q)]
  BY AtReads
<1>3. \A n \in 1..Len(q) : r[n] = Field(r[n - 1], q[n]) /\ s[n] = Field(s[n - 1], q[n])
  BY <1>1, <1>2 DEF Reads
<1>4. r[0] = a /\ s[0] = b
  BY <1>1, <1>2 DEF Reads
<1>5. Len(q) >= 1 => r[1] = Field(a, q[1]) /\ s[1] = Field(b, q[1])
  <2>1. Len(q) >= 1 => 1 \in 1..Len(q) /\ 1 - 1 = 0
    OBVIOUS
  <2> QED
    BY <1>3, <1>4, <2>1
<1>6. Len(q) >= 2 => r[2] = Field(r[1], q[2]) /\ s[2] = Field(s[1], q[2]) /\ Len(q) >= 1
  <2>1. Len(q) >= 2 => 2 \in 1..Len(q) /\ 2 - 1 = 1 /\ Len(q) >= 1
    OBVIOUS
  <2> QED
    BY <1>3, <2>1
<1>7. Len(q) >= 3 => r[3] = Field(r[2], q[3]) /\ s[3] = Field(s[2], q[3]) /\ Len(q) >= 2
  <2>1. Len(q) >= 3 => 3 \in 1..Len(q) /\ 3 - 1 = 2 /\ Len(q) >= 2
    OBVIOUS
  <2> QED
    BY <1>3, <2>1
<1>8. \E k \in 0..Len(q) : r[k] = s[k]
  <2>1. /\ Len(q) >= 1 => 1 \in 0..Len(q)
        /\ Len(q) >= 2 => 2 \in 0..Len(q)
        /\ Len(q) >= 3 => 3 \in 0..Len(q)
    OBVIOUS
  <2> QED
    BY <1>5, <1>6, <1>7, <2>1
<1> QED
  BY <1>1, <1>2, <1>8, SameFrom

LongerBy(p, path, k, S) ==
  /\ p \in Seq(S) /\ Len(p) = Len(path) + 1 /\ p[Len(path) + 1] = k
  /\ \A i \in 1..Len(path) : p[i] = path[i]

LEMMA KeyAdded ==
  ASSUME NEW S, NEW path \in Seq(S), NEW k \in S PROVE LongerBy(Append(path, k), path, k, S)
BY AppendProperties DEF LongerBy

LEMMA ThirdKey ==
  ASSUME NEW S, NEW path \in Seq(S), Len(path) = 2, NEW k \in S
  PROVE  LET p == Append(path, k)
         IN  p \in Seq(S) /\ Len(p) = 3 /\ p[1] = path[1] /\ p[2] = path[2] /\ p[3] = k /\ DOMAIN p = 1..3
<1> DEFINE p == Append(path, k)
<1>1. LongerBy(p, path, k, S)
  BY KeyAdded, Zenon
<1> HIDE DEF p
<1>2. 1 \in 1..Len(path) /\ 2 \in 1..Len(path) /\ Len(path) + 1 = 3
  OBVIOUS
<1>3. Len(p) = 3 /\ p[3] = k /\ p[1] = path[1] /\ p[2] = path[2] /\ p \in Seq(S)
  BY <1>1, <1>2 DEF LongerBy
<1> QED
  BY <1>3 DEF p

ChannelKept(made, raw, path, value) ==
  /\ made.kind = "object"
  /\ \A k : k # "channels" => Field(made, k) = Field(raw, k)
  /\ \A k \in DOMAIN value.fields : At(made, Append(path, k)) = value.fields[k]
  /\ \A q \in Seq(STRING) :
       /\ q # <<>> /\ At(raw, q) # Missing
       /\ \A k \in DOMAIN value.fields : Apart(q, Append(path, k))
       => At(made, q) = At(raw, q)

\* A channel that was added or changed has the fields asked for, and every
\* value elsewhere stays.
LEMMA ChannelKeeps ==
  ASSUME NEW raw, NEW path, path \in Seq(STRING), Len(path) = 2, path[1] = "channels",
         NEW value, value.kind = "object", DOMAIN value.fields # {}, DOMAIN value.fields \subseteq STRING,
         NEW add \in BOOLEAN, WithChannel(raw, path[2], value, add) # Missing
  PROVE  ChannelKept(WithChannel(raw, path[2], value, add), raw, path, value)
<1> DEFINE made == WithChannel(raw, path[2], value, add)
           id == path[2]
           channels == Field(raw, "channels")
           held == Field(channels, id)
           channel == IF add THEN value ELSE Object(Upon(value.fields, FieldsOf(held)))
           all == Object(With(FieldsOf(channels), id, channel))
<1>1. made = Object(With(raw.fields, "channels", all)) /\ raw.kind = "object" /\ add # (held # Missing)
  BY DEF WithChannel
<1> HIDE DEF made
<1>2. made.kind = "object" /\ Field(made, "channels") = all /\ \A k : k # "channels" => Field(made, k) = Field(raw, k)
  <2> HIDE DEF all
  <2> QED
    BY <1>1, KeySet, AsObject
<1>3. Field(all, id) = channel /\ \A k : k # id => Field(all, k) = Field(channels, k)
  <2> HIDE DEF channel, channels, id
  <2> QED
    BY KeySet, FieldsRead
<1> HIDE DEF all
<1>4. \A k : Field(channel, k) = IF k \in DOMAIN value.fields THEN value.fields[k]
                                 ELSE IF add THEN Missing ELSE Field(held, k)
  <2>1. CASE add
    BY <2>1 DEF Field
  <2>2. CASE ~add
    <3> HIDE DEF held
    <3>1. channel = Object(Upon(value.fields, FieldsOf(held)))
      BY <2>2
    <3> HIDE DEF channel
    <3> QED
      BY <2>2, <3>1, UponRead, FieldsRead
  <2> QED
    BY <2>1, <2>2
<1> HIDE DEF channel, held, channels, id
<1>5. ASSUME NEW k \in DOMAIN value.fields
      PROVE  LET p == Append(path, k)
             IN  /\ p \in Seq(STRING) /\ Len(p) = 3 /\ p[1] = "channels" /\ p[2] = id /\ p[3] = k
                 /\ DOMAIN p = 1..3
  <2>1. k \in STRING
    OBVIOUS
  <2> QED
    BY <2>1, ThirdKey DEF id
<1>6. ASSUME NEW k \in DOMAIN value.fields PROVE At(made, Append(path, k)) = value.fields[k]
  <2> DEFINE p == Append(path, k)
  <2>1. Len(p) = 3 /\ p[1] = "channels" /\ p[2] = id /\ p[3] = k
    BY <1>5
  <2> HIDE DEF p
  <2>2. PICK r : Reads(r, made, p) /\ At(made, p) = r[Len(p)]
    <3>1. Len(p) \in Nat
      BY <2>1
    <3> QED
      BY <3>1, AtReads
  <2>3. r[0] = made /\ r[1] = Field(r[0], p[1]) /\ r[2] = Field(r[1], p[2]) /\ r[3] = Field(r[2], p[3])
    <3>1. \A n \in 1..3 : r[n] = Field(r[n - 1], p[n])
      BY <2>1, <2>2 DEF Reads
    <3>2. 1 \in 1..3 /\ 2 \in 1..3 /\ 3 \in 1..3 /\ 1 - 1 = 0 /\ 2 - 1 = 1 /\ 3 - 1 = 2
      OBVIOUS
    <3> QED
      BY <2>2, <3>1, <3>2 DEF Reads
  <2>4. r[3] = value.fields[k]
    BY <1>2, <1>3, <1>4, <2>1, <2>3
  <2> QED
    BY <2>1, <2>2, <2>4 DEF p
<1>7. ASSUME NEW q \in Seq(STRING), q # <<>>, At(raw, q) # Missing,
             \A k \in DOMAIN value.fields : Apart(q, Append(path, k))
      PROVE  At(made, q) = At(raw, q)
  <2>1. Len(q) \in Nat /\ Len(q) >= 1 /\ DOMAIN q = 1..Len(q)
    BY <1>7
  <2>2. CASE q[1] # "channels"
    BY <1>2, <2>1, <2>2, SameAfter
  <2>3. CASE q[1] = "channels" /\ Len(q) >= 2 /\ q[2] # id
    <3>1. Field(Field(made, q[1]), q[2]) = Field(Field(raw, q[1]), q[2])
      BY <1>2, <1>3, <2>3 DEF channels
    <3> QED
      BY <2>1, <2>3, <3>1, SameAfter
  <2>4. CASE q[1] = "channels" /\ (Len(q) = 1 \/ q[2] = id)
    <3>1. \A k \in DOMAIN value.fields : Len(q) >= 3 /\ q[3] # k
      <4> TAKE k \in DOMAIN value.fields
      <4>1. PICK n \in DOMAIN q \cap DOMAIN Append(path, k) : q[n] # Append(path, k)[n]
        BY <1>7 DEF Apart
      <4>2. n \in 1..Len(q) /\ n \in 1..3
        BY <1>5, <2>1, <4>1
      <4>3. n # 1
        BY <1>5, <2>4, <4>1
      <4>4. n # 2
        BY <1>5, <2>1, <2>4, <4>1, <4>2
      <4> QED
        BY <1>5, <2>1, <4>1, <4>2, <4>3, <4>4
    <3>2. Len(q) >= 3 /\ q[3] \notin DOMAIN value.fields /\ q[2] = id
      BY <2>4, <3>1
    <3>3. /\ Field(Field(raw, q[1]), q[2]) = held /\ Field(Field(made, q[1]), q[2]) = channel
      BY <1>2, <1>3, <2>4, <3>2 DEF held, channels
    <3>4. ~add
      <4> SUFFICES ASSUME add PROVE FALSE
        OBVIOUS
      <4>1. held = Missing
        BY <1>1
      <4>2. PICK s : Reads(s, raw, q) /\ At(raw, q) = s[Len(q)]
        BY <2>1, AtReads
      <4>3. s[2] = held
        <5>1. 1 \in 1..Len(q) /\ 2 \in 1..Len(q) /\ 1 - 1 = 0 /\ 2 - 1 = 1
          BY <2>1, <3>2
        <5>2. s[0] = raw /\ s[1] = Field(s[0], q[1]) /\ s[2] = Field(s[1], q[2])
          BY <4>2, <5>1 DEF Reads
        <5> QED
          BY <3>3, <5>2
      <4>4. 2 \in 0..Len(q)
        BY <2>1, <3>2
      <4> QED
        BY <1>7, <2>1, <4>1, <4>2, <4>3, <4>4, MissingStays
    <3>5. Field(Field(Field(made, q[1]), q[2]), q[3]) = Field(Field(Field(raw, q[1]), q[2]), q[3])
      BY <1>4, <3>2, <3>3, <3>4
    <3> QED
      BY <2>1, <3>2, <3>5, SameAfter
  <2>5. Len(q) = 1 \/ Len(q) >= 2
    BY <2>1
  <2> QED
    BY <2>2, <2>3, <2>4, <2>5
<1> QED
  BY <1>2, <1>6, <1>7 DEF made, ChannelKept

\* What a save makes of the file holds what it asked for and what any other
\* save has put there, and leaves the part of the others alone.
LEMMA AppliedKeeps ==
  ASSUME NEW e \in Saves, document.kind = "object", Applied(e) # Missing
  PROVE  /\ Applied(e).kind = "object" /\ Holds(Applied(e), e)
         /\ \A f \in Saves \ {e} : Holds(document, f) => Holds(Applied(e), f)
         /\ Field(Applied(e), "memory") = Field(document, "memory")
         /\ IsForm(e) => saving[e].base = document
<1> DEFINE path == SaveOf[e].path
           value == SaveOf[e].value
           made == Applied(e)
<1>1. path \in Seq(STRING) /\ path # <<>>
  BY SavesAssumption
<1>2. \A f \in Saves \ {e} : \A a \in Targets(f), b \in Targets(e) : Apart(a.path, b.path)
  <2>1. \A f \in Saves \ {e} : e \in Saves \ {f}
    OBVIOUS
  <2> QED
    BY <2>1, SavesAssumption
<1>3. \A f \in Saves : \A a \in Targets(f) : a.path \in Seq(STRING) /\ a.path # <<>> /\ a.value # Missing
  <2> TAKE f \in Saves
  <2> TAKE a \in Targets(f)
  <2>1. SaveOf[f].path \in Seq(STRING) /\ SaveOf[f].path # <<>>
    BY SavesAssumption
  <2>2. CASE IsForm(f)
    <3>1. a.path = SaveOf[f].path /\ a.value = SaveOf[f].value
      BY <2>2 DEF Targets
    <3>2. SaveOf[f].value # Missing
      BY <2>2, SavesAssumption
    <3> QED
      BY <2>1, <3>1, <3>2
  <2>3. CASE ~IsForm(f)
    <3>1. PICK k \in DOMAIN SaveOf[f].value.fields :
            a.path = Append(SaveOf[f].path, k) /\ a.value = SaveOf[f].value.fields[k]
      BY <2>3 DEF Targets
    <3>2. k \in STRING /\ a.value # Missing /\ Len(SaveOf[f].path) = 2
      BY <2>3, <3>1, SavesAssumption
    <3>3. a.path \in Seq(STRING) /\ Len(a.path) = 3
      BY <2>1, <3>1, <3>2, ThirdKey
    <3>4. a.path # <<>>
      <4>1. Len(a.path) # Len(<<>>)
        BY <3>3
      <4> QED
        BY <4>1, Zenon
    <3> QED
      BY <3>2, <3>3, <3>4
  <2> QED
    BY <2>2, <2>3
<1>4. CASE IsForm(e)
  <2>1. Targets(e) = {[path |-> path, value |-> value]}
    BY <1>4 DEF Targets
  <2>2. value # Missing /\ \A n \in 1..Len(path) : Place(path[n]) = 0
    BY <1>4, SavesAssumption
  <2>3. made = Remade(document, path, value)[Len(path)] /\ saving[e].base = document
    BY <1>4 DEF Applied, Edited
  <2>4. path[1] # "memory"
    <3>1. [path |-> path, value |-> value] \in Targets(e)
      BY <2>1
    <3>2. [path |-> path, value |-> value].path[1] # "memory"
      BY <3>1, SavesAssumption
    <3> QED
      BY <3>2
  <2> HIDE DEF made, path, value
  <2>5. /\ made.kind = "object" /\ At(made, path) = value
        /\ \A k : k # path[1] => Field(made, k) = Field(document, k)
        /\ \A q \in Seq(STRING) : Apart(q, path) => At(made, q) = At(document, q)
    <3>1. Remade(document, path, value)[Len(path)] # Missing
      BY <2>3 DEF made
    <3> QED
      BY <1>1, <2>2, <2>3, <3>1, EditKeeps
  <2>6. Holds(made, e)
    BY <2>1, <2>5 DEF Holds
  <2>7. ASSUME NEW f \in Saves \ {e}, Holds(document, f) PROVE Holds(made, f)
    <3>1. \A a \in Targets(f) : Apart(a.path, path)
      <4>1. [path |-> path, value |-> value] \in Targets(e) /\ [path |-> path, value |-> value].path = path
        BY <2>1
      <4> QED
        BY <1>2, <4>1
    <3>2. \A a \in Targets(f) : At(document, a.path) = a.value
      BY <2>7 DEF Holds
    <3>3. \A a \in Targets(f) : At(made, a.path) = a.value
      BY <1>3, <2>5, <3>1, <3>2
    <3> QED
      BY <3>3 DEF Holds
  <2> QED
    BY <2>3, <2>4, <2>5, <2>6, <2>7 DEF made
<1>5. CASE ~IsForm(e)
  <2> DEFINE add == SaveOf[e].kind = "add"
  <2>1. Targets(e) = {[path |-> Append(path, k), value |-> value.fields[k]] : k \in DOMAIN value.fields}
    BY <1>5 DEF Targets
  <2>2. /\ Len(path) = 2 /\ path[1] = "channels" /\ value.kind = "object" /\ DOMAIN value.fields # {}
        /\ DOMAIN value.fields \subseteq STRING
    BY <1>5, SavesAssumption
  <2>3. made = WithChannel(document, path[2], value, add)
    BY <1>5 DEF Applied
  <2>4. add \in BOOLEAN
    OBVIOUS
  <2> HIDE DEF made, path, value, add
  <2>5. ChannelKept(made, document, path, value)
    <3>1. WithChannel(document, path[2], value, add) # Missing
      BY <2>3 DEF made
    <3> QED
      BY <1>1, <2>2, <2>3, <2>4, <3>1, ChannelKeeps
  <2>6. Holds(made, e)
    <3>1. ASSUME NEW a \in Targets(e) PROVE At(made, a.path) = a.value
      <4>1. PICK k \in DOMAIN value.fields : a = [path |-> Append(path, k), value |-> value.fields[k]]
        BY <2>1
      <4>2. a.path = Append(path, k) /\ a.value = value.fields[k]
        BY <4>1
      <4> QED
        BY <2>5, <4>2 DEF ChannelKept
    <3> QED
      BY <3>1 DEF Holds
  <2>7. ASSUME NEW f \in Saves \ {e}, Holds(document, f) PROVE Holds(made, f)
    <3>1. ASSUME NEW a \in Targets(f), NEW k \in DOMAIN value.fields PROVE Apart(a.path, Append(path, k))
      <4> DEFINE b == [path |-> Append(path, k), value |-> value.fields[k]]
      <4>1. b \in Targets(e)
        BY <2>1
      <4>2. b.path = Append(path, k)
        OBVIOUS
      <4> HIDE DEF b
      <4> QED
        BY <1>2, <4>1, <4>2
    <3>2. \A a \in Targets(f) : At(document, a.path) = a.value
      BY <2>7 DEF Holds
    <3>3. ASSUME NEW a \in Targets(f) PROVE At(made, a.path) = a.value
      <4>1. a.path \in Seq(STRING) /\ a.path # <<>> /\ a.value # Missing
        BY <1>3
      <4> QED
        BY <2>5, <3>1, <3>2, <4>1 DEF ChannelKept
    <3> QED
      BY <3>3 DEF Holds
  <2>8. made.kind = "object" /\ Field(made, "memory") = Field(document, "memory")
    BY <2>5 DEF ChannelKept
  <2> QED
    BY <1>5, <2>6, <2>7, <2>8 DEF made
<1> QED
  BY <1>4, <1>5

\* what somebody writes outside leaves what was saved
LEMMA OutsideKeeps ==
  ASSUME document.kind = "object", NEW v, v # Missing
  PROVE  LET made == PutKey(document, "memory", v)
         IN  /\ made.kind = "object" /\ Field(made, "memory") = v
             /\ \A f \in Saves : Holds(document, f) => Holds(made, f)
<1> DEFINE made == PutKey(document, "memory", v)
<1>1. made = Object(With(document.fields, "memory", v))
  BY DEF PutKey
<1> HIDE DEF made
<1>2. made.kind = "object" /\ Field(made, "memory") = v /\ \A k : k # "memory" => Field(made, k) = Field(document, k)
  BY <1>1, KeySet, AsObject
<1>3. ASSUME NEW f \in Saves, NEW a \in Targets(f) PROVE At(made, a.path) = At(document, a.path)
  <2>1. a.path[1] # "memory"
    BY SavesAssumption
  <2>2. Len(a.path) \in Nat /\ Len(a.path) >= 1
    <3>1. SaveOf[f].path \in Seq(STRING) /\ SaveOf[f].path # <<>>
      BY SavesAssumption
    <3>2. CASE IsForm(f)
      <4>1. a.path = SaveOf[f].path
        BY <3>2 DEF Targets
      <4> QED
        BY <3>1, <4>1
    <3>3. CASE ~IsForm(f)
      <4>1. PICK k \in DOMAIN SaveOf[f].value.fields : a.path = Append(SaveOf[f].path, k)
        BY <3>3 DEF Targets
      <4>2. k \in STRING /\ Len(SaveOf[f].path) = 2
        BY <3>3, <4>1, SavesAssumption
      <4>3. Len(a.path) = 3
        BY <3>1, <4>1, <4>2, ThirdKey
      <4> QED
        BY <4>3
    <3> QED
      BY <3>2, <3>3
  <2>3. Field(made, a.path[1]) = Field(document, a.path[1])
    BY <1>2, <2>1
  <2> QED
    BY <2>2, <2>3, SameAfter
<1>4. ASSUME NEW f \in Saves, Holds(document, f) PROVE Holds(made, f)
  BY <1>3, <1>4 DEF Holds
<1> QED
  BY <1>2, <1>4 DEF made

SaveStates == {"idle", "open", "queued", "validating", "writing", "saved", "refused"}
Busy(e) == saving[e].at \in {"validating", "writing"}

\* each save waits once, and only the one in turn is under way
SavesInTurn ==
  /\ saving = [e \in Saves |-> [at |-> saving[e].at, base |-> saving[e].base, next |-> saving[e].next]]
  /\ filing \in Seq(Saves) /\ outside \in Nat /\ overtaken \in BOOLEAN
  /\ \A i, j \in 1..Len(filing) : filing[i] = filing[j] => i = j
  /\ \A i \in 1..Len(filing) : saving[filing[i]].at \in {"queued", "validating", "writing"}
  /\ \A e \in Saves : Busy(e) => filing # <<>> /\ filing[1] = e

\* what a save will write holds what all that ended before it have saved, and
\* what others wrote before it looked at the file for the last time
NextHolds ==
  \A e \in Saves : Busy(e) =>
    /\ saving[e].next.kind = "object" /\ Holds(saving[e].next, e)
    /\ \A f \in Saves : saving[f].at = "saved" => Holds(saving[e].next, f)
    /\ saving[e].at = "validating" => Field(saving[e].next, "memory") = Field(saving[e].base, "memory")
    /\ saving[e].at = "writing" /\ ~overtaken => Field(saving[e].next, "memory") = OutsideValue(outside)

SavingInv == SavesInTurn /\ NextHolds /\ document.kind = "object" /\ EditsKept

LEMMA SavingBegins == SettingsInit => SavingInv
<1> SUFFICES ASSUME SettingsInit PROVE SavingInv
  OBVIOUS
<1>1. /\ saving = [e \in Saves |-> [at |-> "idle", base |-> Missing, next |-> Missing]]
      /\ filing = <<>> /\ outside = 0 /\ overtaken = FALSE /\ document = InitialDocument
  BY DEF SettingsInit
<1>2. \A e \in Saves : saving[e] = [at |-> "idle", base |-> Missing, next |-> Missing]
  BY <1>1
<1>3. \A e \in Saves : saving[e].at = "idle" /\ saving[e].base = Missing /\ saving[e].next = Missing
  BY <1>2
<1>4. SavesInTurn
  <2>1. saving = [e \in Saves |-> [at |-> saving[e].at, base |-> saving[e].base, next |-> saving[e].next]]
    BY <1>1, <1>3
  <2>2. filing \in Seq(Saves) /\ Len(filing) = 0
    BY <1>1
  <2>3. \A i \in 1..Len(filing) : FALSE
    BY <2>2
  <2>4. \A e \in Saves : ~Busy(e)
    BY <1>3 DEF Busy
  <2> QED
    BY <1>1, <2>1, <2>2, <2>3, <2>4 DEF SavesInTurn
<1>5. NextHolds
  BY <1>3 DEF NextHolds, Busy
<1>6. EditsKept
  BY <1>1, <1>3, SavesAssumption DEF EditsKept
<1> QED
  BY <1>1, <1>4, <1>5, <1>6, SavesAssumption DEF SavingInv

\* what a step says of the saves, field by field
LEMMA SaveMoves ==
  ASSUME SavesInTurn, NEW e \in Saves, NEW at, NEW base, NEW next,
         saving' = [saving EXCEPT ![e] = [at |-> at, base |-> base, next |-> next]]
  PROVE  /\ saving'[e].at = at /\ saving'[e].base = base /\ saving'[e].next = next
         /\ \A f \in Saves \ {e} : saving'[f] = saving[f]
         /\ saving' = [f \in Saves |-> [at |-> saving'[f].at, base |-> saving'[f].base, next |-> saving'[f].next]]
<1>1. saving = [f \in Saves |-> [at |-> saving[f].at, base |-> saving[f].base, next |-> saving[f].next]]
  BY DEF SavesInTurn
<1>2. DOMAIN saving = Saves
  BY <1>1, Zenon
<1>3. saving'[e] = [at |-> at, base |-> base, next |-> next] /\ \A f \in Saves \ {e} : saving'[f] = saving[f]
  BY <1>2
<1>4. saving'[e].at = at /\ saving'[e].base = base /\ saving'[e].next = next
  BY <1>3
<1>5. \A f \in Saves : saving'[f] = [at |-> saving'[f].at, base |-> saving'[f].base, next |-> saving'[f].next]
  <2> TAKE f \in Saves
  <2>1. CASE f = e
    BY <1>3, <1>4, <2>1
  <2>2. CASE f # e
    <3>1. saving[f] = [at |-> saving[f].at, base |-> saving[f].base, next |-> saving[f].next]
      BY <1>1, Zenon
    <3>2. saving'[f] = saving[f]
      BY <1>3, <2>2
    <3> QED
      BY <3>1, <3>2, Zenon
  <2> QED
    BY <2>1, <2>2
<1>6. saving' = [f \in Saves |-> saving'[f]]
  BY <1>2
<1>7. saving' = [f \in Saves |-> [at |-> saving'[f].at, base |-> saving'[f].base, next |-> saving'[f].next]]
  BY <1>5, <1>6
<1> QED
  BY <1>3, <1>4, <1>7

LEMMA SaveParts ==
  ASSUME SavesInTurn, NEW e \in Saves
  PROVE  \E a, b, n : /\ saving[e] = [at |-> a, base |-> b, next |-> n] /\ DOMAIN saving = Saves
                      /\ saving[e].at = a /\ saving[e].base = b /\ saving[e].next = n
<1>1. saving = [f \in Saves |-> [at |-> saving[f].at, base |-> saving[f].base, next |-> saving[f].next]]
  BY DEF SavesInTurn
<1>2. PICK a, b, n : saving[e] = [at |-> a, base |-> b, next |-> n]
  BY <1>1, Zenon
<1>3. DOMAIN saving = Saves
  BY <1>1, Zenon
<1> QED
  BY <1>2, <1>3

\* one field changed, or two, is the record changed
LEMMA OneField ==
  ASSUME SavesInTurn, NEW e \in Saves, NEW how, saving' = [saving EXCEPT ![e].at = how]
  PROVE  saving' = [saving EXCEPT ![e] = [at |-> how, base |-> saving[e].base, next |-> saving[e].next]]
<1>1. PICK a, b, n : /\ saving[e] = [at |-> a, base |-> b, next |-> n] /\ DOMAIN saving = Saves
                     /\ saving[e].at = a /\ saving[e].base = b /\ saving[e].next = n
  BY SaveParts
<1>2. [saving[e] EXCEPT !.at = how] = [at |-> how, base |-> saving[e].base, next |-> saving[e].next]
  BY <1>1
<1> QED
  BY <1>2

LEMMA FormRead ==
  ASSUME SavesInTurn, NEW e \in Saves, NEW how, NEW base, saving' = [saving EXCEPT ![e].at = how, ![e].base = base]
  PROVE  saving' = [saving EXCEPT ![e] = [at |-> how, base |-> base, next |-> saving[e].next]]
<1>1. PICK a, b, n : /\ saving[e] = [at |-> a, base |-> b, next |-> n] /\ DOMAIN saving = Saves
                     /\ saving[e].at = a /\ saving[e].base = b /\ saving[e].next = n
  BY SaveParts
<1>2. [saving[e] EXCEPT !.at = how] = [at |-> how, base |-> b, next |-> n]
  BY <1>1
<1>3. [[at |-> how, base |-> b, next |-> n] EXCEPT !.base = base] = [at |-> how, base |-> base, next |-> n]
  OBVIOUS
<1>4. [[saving[e] EXCEPT !.at = how] EXCEPT !.base = base] = [at |-> how, base |-> base, next |-> saving[e].next]
  BY <1>1, <1>2, <1>3
<1> QED
  BY <1>1, <1>4

SetsNext(e, how, made) == saving' = [saving EXCEPT ![e].at = how, ![e].next = made]
MovesTo(e, at, base, next) == saving' = [saving EXCEPT ![e] = [at |-> at, base |-> base, next |-> next]]

LEMMA NextMade ==
  ASSUME SavesInTurn, NEW e \in Saves, NEW how, NEW made, SetsNext(e, how, made)
  PROVE  MovesTo(e, how, saving[e].base, made)
<1> USE DEF SetsNext, MovesTo
<1>1. PICK a, b, n : /\ saving[e] = [at |-> a, base |-> b, next |-> n] /\ DOMAIN saving = Saves
                     /\ saving[e].at = a /\ saving[e].base = b /\ saving[e].next = n
  BY SaveParts
<1>2. [saving[e] EXCEPT !.at = how] = [at |-> how, base |-> b, next |-> n]
  BY <1>1
<1>3. [[at |-> how, base |-> b, next |-> n] EXCEPT !.next = made] = [at |-> how, base |-> b, next |-> made]
  OBVIOUS
<1>4. [[saving[e] EXCEPT !.at = how] EXCEPT !.next = made] = [at |-> how, base |-> saving[e].base, next |-> made]
  BY <1>1, <1>2, <1>3
<1> QED
  BY <1>1, <1>4

Waits(at) == at \in {"queued", "validating", "writing"}

\* the others while one of them is under way
LEMMA OneBusy ==
  ASSUME SavesInTurn, NEW e \in Saves, Busy(e) \/ InTurn(e)
  PROVE  InTurn(e) /\ \A f \in Saves \ {e} : ~Busy(f)
<1>1. InTurn(e) /\ filing # <<>> /\ filing[1] = e
  BY DEF SavesInTurn, InTurn
<1> QED
  BY <1>1 DEF SavesInTurn

LEMMA TurnSame ==
  ASSUME SavesInTurn, NEW e \in Saves, NEW at, NEW base, NEW next,
         saving' = [saving EXCEPT ![e] = [at |-> at, base |-> base, next |-> next]],
         UNCHANGED <<filing, outside, overtaken>>,
         \/ Waits(saving[e].at) /\ Waits(at) /\ InTurn(e)
         \/ ~Waits(saving[e].at) /\ at \in SaveStates \ {"validating", "writing"}
  PROVE  SavesInTurn'
<1>1. /\ saving'[e].at = at /\ \A f \in Saves \ {e} : saving'[f] = saving[f]
      /\ saving' = [f \in Saves |-> [at |-> saving'[f].at, base |-> saving'[f].base, next |-> saving'[f].next]]
  BY SaveMoves
<1>2. ASSUME NEW i \in 1..Len(filing) PROVE Waits(saving'[filing[i]].at)
  <2>1. Waits(saving[filing[i]].at) /\ filing[i] \in Saves
    BY DEF SavesInTurn, Waits
  <2>2. CASE filing[i] = e
    BY <1>1, <2>1, <2>2
  <2>3. CASE filing[i] # e
    BY <1>1, <2>1, <2>3
  <2> QED
    BY <2>2, <2>3
<1>3. ASSUME NEW f \in Saves, saving'[f].at \in {"validating", "writing"} PROVE filing # <<>> /\ filing[1] = f
  <2>1. CASE f = e
    <3>1. InTurn(e)
      BY <1>1, <1>3, <2>1
    <3> QED
      BY <2>1, <3>1 DEF SavesInTurn, InTurn
  <2>2. CASE f # e
    BY <1>1, <1>3, <2>2 DEF SavesInTurn, Busy
  <2> QED
    BY <2>1, <2>2
<1>4. /\ filing' \in Seq(Saves) /\ outside' \in Nat /\ overtaken' \in BOOLEAN
      /\ \A i, j \in 1..Len(filing') : filing'[i] = filing'[j] => i = j
  BY DEF SavesInTurn
<1> QED
  BY <1>1, <1>2, <1>3, <1>4 DEF SavesInTurn, Busy, Waits

LEMMA TurnJoins ==
  ASSUME SavesInTurn, NEW e \in Saves, NEW base, NEW next, ~Waits(saving[e].at),
         saving' = [saving EXCEPT ![e] = [at |-> "queued", base |-> base, next |-> next]],
         filing' = Append(filing, e), UNCHANGED <<outside, overtaken>>
  PROVE  SavesInTurn'
<1>1. /\ saving'[e].at = "queued" /\ \A f \in Saves \ {e} : saving'[f] = saving[f]
      /\ saving' = [f \in Saves |-> [at |-> saving'[f].at, base |-> saving'[f].base, next |-> saving'[f].next]]
  BY SaveMoves
<1>2. filing \in Seq(Saves) /\ Len(filing) \in Nat
  BY DEF SavesInTurn
<1>3. /\ filing' \in Seq(Saves) /\ Len(filing') = Len(filing) + 1 /\ filing'[Len(filing) + 1] = e
      /\ \A i \in 1..Len(filing) : filing'[i] = filing[i]
  BY <1>2, AppendProperties
<1>4. \A i \in 1..Len(filing') : i \in 1..Len(filing) \/ i = Len(filing) + 1
  BY <1>2, <1>3
<1>5. \A i \in 1..Len(filing) : Waits(saving[filing[i]].at) /\ filing[i] \in Saves /\ filing[i] # e
  BY <1>2 DEF SavesInTurn, Waits
<1>6. \A i \in 1..Len(filing') : Waits(saving'[filing'[i]].at)
  BY <1>1, <1>3, <1>4, <1>5 DEF Waits
<1>7. \A i, j \in 1..Len(filing') : filing'[i] = filing'[j] => i = j
  <2>1. \A i, j \in 1..Len(filing) : filing[i] = filing[j] => i = j
    BY DEF SavesInTurn
  <2> QED
    BY <1>3, <1>4, <1>5, <2>1
<1>8. ASSUME NEW f \in Saves, saving'[f].at \in {"validating", "writing"} PROVE filing' # <<>> /\ filing'[1] = f
  <2>1. f # e
    BY <1>1, <1>8
  <2>2. filing # <<>> /\ filing[1] = f
    BY <1>1, <1>8, <2>1 DEF SavesInTurn, Busy
  <2>3. 1 \in 1..Len(filing)
    BY <1>2, <2>2
  <2>4. filing' # <<>>
    BY <1>2, AppendProperties
  <2> QED
    BY <1>3, <2>2, <2>3, <2>4
<1> QED
  BY <1>1, <1>3, <1>6, <1>7, <1>8 DEF SavesInTurn, Busy, Waits

LEMMA TurnEnds ==
  ASSUME SavesInTurn, NEW e \in Saves, InTurn(e), NEW how \in {"saved", "refused"}, SaveEnds(e, how),
         UNCHANGED <<outside, overtaken>>
  PROVE  /\ SavesInTurn'
         /\ saving'[e].at = how /\ \A f \in Saves \ {e} : saving'[f] = saving[f]
<1>1. saving' = [saving EXCEPT ![e] = [at |-> how, base |-> saving[e].base, next |-> saving[e].next]]
  BY OneField DEF SaveEnds
<1>2. /\ saving'[e].at = how /\ \A f \in Saves \ {e} : saving'[f] = saving[f]
      /\ saving' = [f \in Saves |-> [at |-> saving'[f].at, base |-> saving'[f].base, next |-> saving'[f].next]]
  BY <1>1, SaveMoves
<1>3. filing \in Seq(Saves) /\ Len(filing) \in Nat /\ filing # <<>> /\ filing[1] = e
  BY DEF SavesInTurn, InTurn
<1>4. /\ filing' \in Seq(Saves) /\ Len(filing') = Len(filing) - 1
      /\ \A i \in 1..Len(filing') : filing'[i] = filing[i + 1]
  BY <1>3 DEF SaveEnds
<1>5. \A i \in 1..Len(filing') : i + 1 \in 1..Len(filing) /\ i + 1 # 1
  BY <1>3, <1>4
<1>6. /\ \A i, j \in 1..Len(filing) : filing[i] = filing[j] => i = j
      /\ \A i \in 1..Len(filing) : Waits(saving[filing[i]].at) /\ filing[i] \in Saves
      /\ 1 \in 1..Len(filing)
  BY <1>3 DEF SavesInTurn, Waits
<1>7. \A i \in 1..Len(filing') : filing'[i] \in Saves \ {e} /\ Waits(saving[filing'[i]].at)
  BY <1>3, <1>4, <1>5, <1>6
<1>8. \A i \in 1..Len(filing') : Waits(saving'[filing'[i]].at)
  BY <1>2, <1>7
<1>9. ASSUME NEW i \in 1..Len(filing'), NEW j \in 1..Len(filing'), filing'[i] = filing'[j] PROVE i = j
  <2>1. i + 1 = j + 1
    BY <1>4, <1>5, <1>6, <1>9
  <2> QED
    BY <2>1
<1>10. \A f \in Saves : ~(saving'[f].at \in {"validating", "writing"})
  BY <1>2, OneBusy DEF Busy
<1>11. outside' \in Nat /\ overtaken' \in BOOLEAN
  BY DEF SavesInTurn
<1> QED
  BY <1>2, <1>4, <1>8, <1>9, <1>10, <1>11 DEF SavesInTurn, Busy, Waits

\* a save that moves on without a write, and is not about to write either
LEMMA QuietMove ==
  ASSUME SavingInv, NEW e \in Saves, UNCHANGED <<document, outside, overtaken>>,
         saving'[e].at \notin {"validating", "writing", "saved"},
         \A f \in Saves \ {e} : saving'[f] = saving[f]
  PROVE  NextHolds' /\ document'.kind = "object" /\ EditsKept'
<1>1. ASSUME NEW g \in Saves, saving'[g].at \in {"validating", "writing"}
      PROVE  /\ saving'[g].next.kind = "object" /\ Holds(saving'[g].next, g)
             /\ \A f \in Saves : saving'[f].at = "saved" => Holds(saving'[g].next, f)
             /\ saving'[g].at = "validating" => Field(saving'[g].next, "memory") = Field(saving'[g].base, "memory")
             /\ saving'[g].at = "writing" /\ ~overtaken => Field(saving'[g].next, "memory") = OutsideValue(outside)
  <2>1. saving'[g] = saving[g] /\ Busy(g)
    BY <1>1 DEF Busy
  <2>2. \A f \in Saves : saving'[f].at = "saved" => saving[f].at = "saved"
    OBVIOUS
  <2> QED
    BY <2>1, <2>2 DEF SavingInv, NextHolds
<1>2. NextHolds'
  BY <1>1 DEF NextHolds, Busy
<1>3. \A f \in Saves : saving'[f].at = "saved" => saving[f].at = "saved"
  OBVIOUS
<1>4. EditsKept'
  BY <1>3 DEF SavingInv, EditsKept
<1> QED
  BY <1>2, <1>4 DEF SavingInv

LEMMA OpenKeeps ==
  ASSUME SavingInv, NEW e \in Saves, OpenForm(e) PROVE SavingInv'
<1>1. SavesInTurn
  BY DEF SavingInv
<1>2. saving' = [saving EXCEPT ![e] = [at |-> "open", base |-> document, next |-> saving[e].next]]
  <2>1. saving' = [saving EXCEPT ![e].at = "open", ![e].base = document]
    BY DEF OpenForm
  <2> QED
    BY <1>1, <2>1, FormRead
<1>3. ~Waits(saving[e].at) /\ UNCHANGED <<document, filing, outside, overtaken>>
  BY DEF OpenForm, Waits
<1>4. SavesInTurn'
  BY <1>1, <1>2, <1>3, TurnSame DEF SaveStates
<1>5. saving'[e].at = "open" /\ \A f \in Saves \ {e} : saving'[f] = saving[f]
  BY <1>1, <1>2, SaveMoves
<1> QED
  BY <1>3, <1>4, <1>5, QuietMove DEF SavingInv

LEMMA SubmitKeeps ==
  ASSUME SavingInv, NEW e \in Saves, SubmitSave(e) PROVE SavingInv'
<1>1. SavesInTurn
  BY DEF SavingInv
<1>2. saving' = [saving EXCEPT ![e] = [at |-> "queued", base |-> saving[e].base, next |-> saving[e].next]]
  BY <1>1, OneField DEF SubmitSave
<1>3. ~Waits(saving[e].at) /\ UNCHANGED <<document, outside, overtaken>> /\ filing' = Append(filing, e)
  BY DEF SubmitSave, Waits
<1>4. SavesInTurn'
  BY <1>1, <1>2, <1>3, TurnJoins
<1>5. saving'[e].at = "queued" /\ \A f \in Saves \ {e} : saving'[f] = saving[f]
  BY <1>1, <1>2, SaveMoves
<1> QED
  BY <1>3, <1>4, <1>5, QuietMove DEF SavingInv

\* a save that is refused, at whatever step, leaves the file and the others
LEMMA RefusalKeeps ==
  ASSUME SavingInv, NEW e \in Saves, InTurn(e), SaveEnds(e, "refused"), UNCHANGED <<document, outside, overtaken>>
  PROVE  SavingInv'
<1>1. SavesInTurn
  BY DEF SavingInv
<1>2. SavesInTurn' /\ saving'[e].at = "refused" /\ \A f \in Saves \ {e} : saving'[f] = saving[f]
  BY <1>1, TurnEnds
<1> QED
  BY <1>2, QuietMove DEF SavingInv

LEMMA BeginKeeps ==
  ASSUME SavingInv, NEW e \in Saves, BeginSave(e) PROVE SavingInv'
<1>1. SavesInTurn /\ document.kind = "object" /\ EditsKept /\ NextHolds
  BY DEF SavingInv
<1>2. InTurn(e) /\ saving[e].at = "queued" /\ UNCHANGED <<document, outside, overtaken>>
  BY DEF BeginSave
<1>3. CASE Applied(e) = Missing
  BY <1>2, <1>3, RefusalKeeps DEF BeginSave
<1>4. CASE Applied(e) # Missing
  <2> DEFINE at == IF IsForm(e) THEN "validating" ELSE "writing"
             next == Applied(e)
  <2>1. saving' = [saving EXCEPT ![e] = [at |-> at, base |-> saving[e].base, next |-> next]] /\ filing' = filing
    <3>1. SavesInTurn
      BY <1>1
    <3>2. SetsNext(e, at, next)
      BY <1>4 DEF BeginSave, SetsNext
    <3>3. filing' = filing
      BY <1>4 DEF BeginSave
    <3> HIDE DEF at, next
    <3>4. MovesTo(e, at, saving[e].base, next)
      BY <3>1, <3>2, NextMade
    <3> QED
      BY <3>3, <3>4 DEF MovesTo
  <2>2. /\ at \in {"validating", "writing"} /\ (at = "validating" <=> IsForm(e))
    OBVIOUS
  <2>3. /\ next.kind = "object" /\ Holds(next, e)
        /\ \A f \in Saves \ {e} : Holds(document, f) => Holds(next, f)
        /\ Field(next, "memory") = Field(document, "memory")
        /\ IsForm(e) => saving[e].base = document
    BY <1>1, <1>4, AppliedKeeps
  <2> HIDE DEF at, next
  <2>4. SavesInTurn'
    <3>1. Waits(saving[e].at) /\ Waits(at)
      BY <1>2, <2>2 DEF Waits
    <3> QED
      BY <1>1, <1>2, <2>1, <3>1, TurnSame
  <2>5. /\ saving'[e].at = at /\ saving'[e].base = saving[e].base /\ saving'[e].next = next
        /\ \A f \in Saves \ {e} : saving'[f] = saving[f]
    BY <1>1, <2>1, SaveMoves
  <2>6. \A f \in Saves : saving'[f].at = "saved" => f # e /\ saving[f].at = "saved"
    BY <2>2, <2>5
  <2>7. EditsKept'
    BY <1>1, <1>2, <2>6 DEF EditsKept
  <2>8. ASSUME NEW g \in Saves, saving'[g].at \in {"validating", "writing"} PROVE g = e
    BY <1>1, <1>2, <2>5, <2>8, OneBusy DEF Busy
  <2>9. \A f \in Saves : saving'[f].at = "saved" => Holds(next, f)
    <3>1. \A f \in Saves : saving[f].at = "saved" => Holds(document, f)
      BY <1>1 DEF EditsKept
    <3> QED
      BY <2>3, <2>6, <3>1
  <2>10. saving'[e].at = "validating" => Field(saving'[e].next, "memory") = Field(saving'[e].base, "memory")
    BY <2>2, <2>3, <2>5
  <2>11. ~overtaken => Field(saving'[e].next, "memory") = OutsideValue(outside)
    BY <1>1, <2>3, <2>5 DEF EditsKept
  <2>12. NextHolds'
    BY <1>2, <2>3, <2>5, <2>8, <2>9, <2>10, <2>11 DEF NextHolds, Busy
  <2> QED
    BY <1>1, <1>2, <2>4, <2>7, <2>12 DEF SavingInv
<1> QED
  BY <1>3, <1>4

LEMMA CheckKeeps ==
  ASSUME SavingInv, NEW e \in Saves, CheckSave(e) PROVE SavingInv'
<1>1. SavesInTurn /\ document.kind = "object" /\ EditsKept /\ NextHolds
  BY DEF SavingInv
<1>2. saving[e].at = "validating" /\ Busy(e) /\ UNCHANGED <<document, outside, overtaken>>
  BY DEF CheckSave, Busy
<1>3. InTurn(e) /\ \A f \in Saves \ {e} : ~Busy(f)
  BY <1>1, <1>2, OneBusy
<1>4. CASE saving[e].base # document
  BY <1>2, <1>3, <1>4, RefusalKeeps DEF CheckSave
<1>5. CASE saving[e].base = document
  <2>1. saving' = [saving EXCEPT ![e] = [at |-> "writing", base |-> saving[e].base, next |-> saving[e].next]]
        /\ filing' = filing
    BY <1>1, <1>5, OneField DEF CheckSave
  <2>2. SavesInTurn'
    <3>1. Waits(saving[e].at) /\ Waits("writing")
      BY <1>2 DEF Waits
    <3> QED
      BY <1>1, <1>2, <1>3, <2>1, <3>1, TurnSame
  <2>3. /\ saving'[e].at = "writing" /\ saving'[e].base = saving[e].base /\ saving'[e].next = saving[e].next
        /\ \A f \in Saves \ {e} : saving'[f] = saving[f]
    BY <1>1, <2>1, SaveMoves
  <2>4. \A f \in Saves : saving'[f].at = "saved" => saving[f].at = "saved"
    BY <2>3
  <2>5. EditsKept'
    BY <1>1, <1>2, <2>4 DEF EditsKept
  <2>6. ASSUME NEW g \in Saves, saving'[g].at \in {"validating", "writing"} PROVE g = e
    BY <1>3, <2>3, <2>6 DEF Busy
  <2>7. /\ saving[e].next.kind = "object" /\ Holds(saving[e].next, e)
        /\ \A f \in Saves : saving[f].at = "saved" => Holds(saving[e].next, f)
        /\ Field(saving[e].next, "memory") = Field(document, "memory")
    BY <1>1, <1>2, <1>5 DEF NextHolds
  <2>8. ~overtaken => Field(saving[e].next, "memory") = OutsideValue(outside)
    BY <1>1, <2>7 DEF EditsKept
  <2>9. NextHolds'
    BY <1>2, <2>3, <2>4, <2>6, <2>7, <2>8 DEF NextHolds, Busy
  <2> QED
    BY <1>1, <1>2, <2>2, <2>5, <2>9 DEF SavingInv
<1> QED
  BY <1>4, <1>5

LEMMA FailKeeps ==
  ASSUME SavingInv, NEW e \in Saves, SaveFails(e) PROVE SavingInv'
<1>1. SavesInTurn
  BY DEF SavingInv
<1>2. InTurn(e)
  BY <1>1, OneBusy DEF SaveFails, Busy
<1> QED
  BY <1>2, RefusalKeeps DEF SaveFails

LEMMA WriteKeeps ==
  ASSUME SavingInv, NEW e \in Saves, WriteSave(e) PROVE SavingInv'
<1>1. SavesInTurn /\ document.kind = "object" /\ EditsKept /\ NextHolds
  BY DEF SavingInv
<1>2. saving[e].at = "writing" /\ Busy(e) /\ SaveEnds(e, "saved") /\ document' = saving[e].next
      /\ UNCHANGED <<outside, overtaken>>
  BY DEF WriteSave, Busy
<1>3. InTurn(e) /\ \A f \in Saves \ {e} : ~Busy(f)
  BY <1>1, <1>2, OneBusy
<1>4. SavesInTurn' /\ saving'[e].at = "saved" /\ \A f \in Saves \ {e} : saving'[f] = saving[f]
  BY <1>1, <1>2, <1>3, TurnEnds
<1>5. /\ saving[e].next.kind = "object" /\ Holds(saving[e].next, e)
      /\ \A f \in Saves : saving[f].at = "saved" => Holds(saving[e].next, f)
      /\ ~overtaken => Field(saving[e].next, "memory") = OutsideValue(outside)
  BY <1>1, <1>2 DEF NextHolds
<1>6. \A f \in Saves : saving'[f].at = "saved" => Holds(document', f)
  BY <1>2, <1>4, <1>5
<1>7. EditsKept'
  BY <1>2, <1>5, <1>6 DEF EditsKept
<1>8. \A g \in Saves : ~(saving'[g].at \in {"validating", "writing"})
  BY <1>3, <1>4 DEF Busy
<1>9. NextHolds'
  BY <1>8 DEF NextHolds, Busy
<1> QED
  BY <1>2, <1>4, <1>5, <1>7, <1>9 DEF SavingInv

LEMMA OutsideStepKeeps ==
  ASSUME SavingInv, EditOutside PROVE SavingInv'
<1>1. SavesInTurn /\ document.kind = "object" /\ EditsKept /\ NextHolds
  BY DEF SavingInv
<1> DEFINE v == OutsideValue(outside + 1)
<1>2. /\ document' = PutKey(document, "memory", v) /\ outside' = outside + 1 /\ UNCHANGED <<saving, filing>>
      /\ overtaken' = (overtaken \/ \E e \in Saves : saving[e].at = "writing")
  BY DEF EditOutside
<1>3. v # Missing
  <2>1. v.kind = "leaf" /\ Missing.kind = "none"
    BY DEF OutsideValue, Leaf, Missing
  <2> QED
    BY <2>1
<1> HIDE DEF v
<1>4. /\ document'.kind = "object" /\ Field(document', "memory") = v
      /\ \A f \in Saves : Holds(document, f) => Holds(document', f)
  BY <1>1, <1>2, <1>3, OutsideKeeps
<1>5. outside' \in Nat /\ overtaken' \in BOOLEAN
  BY <1>1, <1>2 DEF SavesInTurn
<1>6. SavesInTurn'
  BY <1>1, <1>2, <1>5 DEF SavesInTurn, Busy
<1>7. EditsKept'
  <2>1. \A f \in Saves : saving'[f].at = "saved" => Holds(document', f)
    BY <1>1, <1>2, <1>4 DEF EditsKept
  <2>2. Field(document', "memory") = OutsideValue(outside')
    BY <1>2, <1>4 DEF v
  <2> QED
    BY <2>1, <2>2 DEF EditsKept
<1>8. \A e \in Saves : saving[e].at = "writing" => overtaken'
  BY <1>2
<1>9. NextHolds'
  <2>1. \A e \in Saves : saving'[e].at = "writing" => overtaken'
    BY <1>2, <1>8
  <2> QED
    BY <1>1, <1>2, <2>1 DEF NextHolds, Busy
<1> QED
  BY <1>4, <1>6, <1>7, <1>9 DEF SavingInv

\* What was saved stays in the file, and so does what others wrote unless they
\* wrote between the last look of a save and its write: for any requests that
\* touch different parts of the file, however deep their paths are, and
\* whichever way the saves overlap.
THEOREM EditsKeptHolds == SettingsSpec => []EditsKept
<1>1. ASSUME SavingInv, [SettingsNext]_settingsVars PROVE SavingInv'
  <2>1. ASSUME NEW e \in Saves, OpenForm(e) \/ SubmitSave(e) \/ BeginSave(e) \/ CheckSave(e) \/ SaveFails(e) \/ WriteSave(e)
        PROVE  SavingInv'
    BY <1>1, <2>1, OpenKeeps, SubmitKeeps, BeginKeeps, CheckKeeps, FailKeeps, WriteKeeps
  <2>2. CASE EditOutside
    BY <1>1, <2>2, OutsideStepKeeps
  <2>3. CASE UNCHANGED settingsVars
    BY <1>1, <2>3 DEF settingsVars, SavingInv, SavesInTurn, NextHolds, EditsKept, Busy
  <2> QED
    BY <1>1, <2>1, <2>2, <2>3 DEF SettingsNext
<1>2. SavingInv => EditsKept
  BY DEF SavingInv
<1> QED
  BY <1>1, <1>2, SavingBegins, PTL DEF SettingsSpec
=============================================================================
