------------------------------- MODULE Intake -------------------------------
(* How a message becomes work (runtime/runtime-core.ts submitNative,         *)
(* handleChannelEvent, #intakeChannel, #processChannelEvent;                 *)
(* execution/store.ts acceptInput, acceptSupplement, inputRun;               *)
(* storage/sqlite/conversation-store.ts acceptNormalizedEventSync).          *)
(*                                                                         *)
(* Platforms deliver a message more than once, and the handlers of two       *)
(* deliveries overlap at their awaits.  With a queue a message founds a run, *)
(* joins the run its author has under way, or is recognised as one that has  *)
(* its run.  Without one ("plain") it is attributed to a line and handed to  *)
(* the recovery of interactive events (module Interaction).                  *)
EXTENDS Routing

CONSTANTS Arrivals,    \* messages of one session
          EventOf,     \* what each of them is: see Routing, with native, target and topic
          Policies,    \* trigger policies of the router
          Deliveries   \* bound: deliveries, repeated ones included

SessionLines == {"main", "side"}

ASSUME IntakeAssumption ==
  /\ IsFiniteSet(Arrivals) /\ Absent \notin Arrivals
  /\ \A m \in Arrivals : EventOf[m].target \in SessionLines \union {Absent}

VARIABLES
  handling,    \* with the execution queue, or "plain"
  events,      \* normalized_events: the line and the trigger hint of each message
  receipts,    \* execution_input_receipts: the run of each message; without a
               \* queue, the run row of its source event
  founded,     \* the run each message founded: its place in the queue, line and inbox
  delivered,   \* each delivery: its message, what was read for it, how far it is
  observations,\* observed_inputs: messages that arrived, answered or not
  spoken,      \* the message of the bot that others reply to is in the transcript
  attributions \* context_attributed events: message -> line

intakeVars == <<handling, events, receipts, founded, delivered, observations, spoken, attributions>>

NoEvent == [line |-> Absent, hint |-> Absent]
NoRun == [state |-> "none", ordinal |-> 0, line |-> Absent, inbox |-> <<>>]
NotDelivered == [of |-> Absent, hint |-> Absent, line |-> Absent, at |-> "new"]
Founders == {m \in Arrivals : founded[m].state # "none"}
HeardBy(r) == {r} \union Range(founded[r].inbox)

IntakeTypeOK ==
  /\ handling \in {"queue", "plain"}
  /\ events \in [Arrivals -> [line : SessionLines \union {Absent}, hint : {"yes", "no", Absent}]]
  /\ receipts \in [Arrivals -> Arrivals \union {Absent}]
  /\ \A m \in Arrivals : /\ founded[m].state \in {"none", "queued", "claimed", "done"}
                         /\ Range(founded[m].inbox) \subseteq Arrivals
  /\ \A d \in Deliveries : delivered[d].at \in {"new", "looked", "routed", "attributing",
                             "attributed", "stored", "over"}
  /\ observations \subseteq Arrivals /\ spoken \in BOOLEAN
  /\ attributions \in [Arrivals -> SessionLines \union {Absent}]

IntakeInit ==
  /\ handling \in {"queue", "plain"}
  /\ events = [m \in Arrivals |-> NoEvent]
  /\ receipts = [m \in Arrivals |-> Absent]
  /\ founded = [m \in Arrivals |-> NoRun]
  /\ delivered = [d \in Deliveries |-> NotDelivered]
  /\ observations = {} /\ spoken = FALSE
  /\ attributions = [m \in Arrivals |-> Absent]

Moves(d, at) == delivered' = [delivered EXCEPT ![d].at = at]

\* the handler of the delivery ends, with or without an error
Ends(d) == delivered' = [delivered EXCEPT ![d] = [NotDelivered EXCEPT !.at = "over"]]

(* ------------------------- arrival and routing -------------------------- *)

\* #enrichTriggerHints: whether the message it replies to is one of the bot
HintFor(m) == IF ~EventOf[m].replyTo THEN Absent ELSE IF spoken THEN "yes" ELSE "no"

\* submitNative checks its session and goes on in one turn; a message of a
\* channel is looked up first
Deliver(d, m) ==
  /\ delivered[d].at = "new"
  /\ \A e \in Deliveries : e < d => delivered[e].at # "new"
  /\ delivered' = [delivered EXCEPT ![d] =
       [of |-> m, hint |-> HintFor(m), line |-> Absent,
        at |-> IF EventOf[m].native THEN "routed" ELSE "looked"]]
  /\ UNCHANGED <<handling, events, receipts, founded, observations, spoken, attributions>>

\* observe (with a queue) and route
RouteDelivery(d) ==
  LET m == delivered[d].of
      decision == Route(Policies, [EventOf[m] EXCEPT !.replied = delivered[d].hint])
  IN  /\ delivered[d].at = "looked"
      /\ IF decision.responds
           THEN Moves(d, IF handling = "queue" THEN "routed" ELSE "attributing")
           ELSE Ends(d)
      /\ observations' = IF handling = "queue" THEN observations \union {m} ELSE observations
      /\ UNCHANGED <<handling, events, receipts, founded, spoken, attributions>>

(* ------------------------------ acceptance ------------------------------ *)

\* #assertNormalizedEventRetry: the same key with another line or hint
Conflicting(m, line, hint) == events[m] \notin {NoEvent, [line |-> line, hint |-> hint]}

\* acceptNormalizedEventSync
Stores(m, line, hint) == events' = [events EXCEPT ![m] = [line |-> line, hint |-> hint]]

\* targetLineId ?? mainline
TargetOf(m) == IF EventOf[m].target = Absent THEN "main" ELSE EventOf[m].target

\* activeForSession: the run of the same person claimed that was accepted first
Active(m) ==
  LET claimed == {r \in Founders : /\ founded[r].state = "claimed"
                                   /\ EventOf[r].sender = EventOf[m].sender}
  IN  {r \in claimed : \A q \in claimed : founded[r].ordinal <= founded[q].ordinal}

\* the conditions under which it is joined
Joinable(m) ==
  {r \in Active(m) : IF EventOf[m].native THEN founded[r].line = TargetOf(m)
                     ELSE EventOf[m].target = Absent}

WrongReceipted(m, r) == IF m = r THEN [receipts EXCEPT ![m] = r] ELSE receipts

\* INSERT INTO execution_input_receipts
Receipted(m, r) == [receipts EXCEPT ![m] = r]

\* replay: the message has its run, and acceptSupplement only compares
Recognise(d) ==
  /\ delivered[d].at = "routed" /\ handling = "queue" /\ receipts[delivered[d].of] # Absent
  /\ Ends(d)
  /\ UNCHANGED <<handling, events, receipts, founded, observations, spoken, attributions>>

\* acceptSupplement joins the run of the same author that is claimed
Join(d, r) ==
  LET m == delivered[d].of
  IN  /\ delivered[d].at = "routed" /\ handling = "queue" /\ receipts[m] = Absent
      /\ r \in Joinable(m)
      /\ ~Conflicting(m, founded[r].line, delivered[d].hint)
      /\ Stores(m, founded[r].line, delivered[d].hint)
      /\ founded' = [founded EXCEPT ![r].inbox = Append(@, m)]
      /\ receipts' = Receipted(m, r)
      /\ Ends(d)
      /\ UNCHANGED <<handling, observations, spoken, attributions>>

\* acceptInput: the event, the grant, the intent and the receipt in one transaction
Found(d) ==
  LET m == delivered[d].of
  IN  /\ delivered[d].at = "routed" /\ handling = "queue" /\ receipts[m] = Absent
      /\ Joinable(m) = {}
      /\ ~Conflicting(m, TargetOf(m), delivered[d].hint)
      /\ Stores(m, TargetOf(m), delivered[d].hint)
      /\ founded' = [founded EXCEPT ![m] = [@ EXCEPT !.state = "queued", !.line = TargetOf(m),
                                                     !.ordinal = Cardinality(Founders) + 1]]
      /\ receipts' = Receipted(m, m)
      /\ Ends(d)
      /\ UNCHANGED <<handling, observations, spoken, attributions>>

\* a limit, a grant or task that is gone, a full inbox: nothing is kept
Turned(d) ==
  /\ delivered[d].at = "routed" /\ receipts[delivered[d].of] = Absent
  /\ Ends(d)
  /\ UNCHANGED <<handling, events, receipts, founded, observations, spoken, attributions>>

(* --------------------------- without a queue ---------------------------- *)

\* attribute: what the stores show at this moment
AttributeDelivery(d) ==
  LET m == delivered[d].of
      seen == [mainline |-> "main", explicit |-> EventOf[m].target,
               replay |-> events[m].line,
               reply |-> IF delivered[d].hint = "yes" THEN "side" ELSE Absent,
               branches |-> {[line |-> "side", status |-> "active", terms |-> {"side"}]},
               latest |-> [line |-> Absent, at |-> 0]]
  IN  /\ delivered[d].at = "attributing"
      /\ delivered' = [delivered EXCEPT ![d].at = "attributed",
           ![d].line = Attribute(seen, EventOf[m].text, EventOf[m].topic,
                                 EventOf[m].replyTo, 1, 1).line]
      /\ UNCHANGED <<handling, events, receipts, founded, observations, spoken, attributions>>

\* #acceptChannelEvent and runs.accept; only the delivery that created the
\* event records its attribution.  A native message has its line already.
AcceptPlain(d) ==
  LET m == delivered[d].of
      line == IF EventOf[m].native THEN TargetOf(m) ELSE delivered[d].line
  IN  /\ handling = "plain"
      /\ delivered[d].at \in {"routed", "attributed"}
      /\ IF Conflicting(m, line, delivered[d].hint)
           THEN Ends(d) /\ UNCHANGED <<events, receipts, founded>>
           ELSE /\ Stores(m, line, delivered[d].hint)
                /\ founded' = [founded EXCEPT ![m].state = IF @ = "none" THEN "queued" ELSE @,
                                              ![m].line = line]
                /\ receipts' = Receipted(m, m)
                /\ IF events[m] = NoEvent /\ ~EventOf[m].native
                     THEN Moves(d, "stored") ELSE Ends(d)
      /\ UNCHANGED <<handling, observations, spoken, attributions>>

\* #recordContextAttribution
RecordAttribution(d) ==
  LET m == delivered[d].of
  IN  /\ delivered[d].at = "stored"
      /\ attributions' = [attributions EXCEPT ![m] = delivered[d].line]
      /\ Ends(d)
      /\ UNCHANGED <<handling, events, receipts, founded, observations, spoken>>

(* ------------------------------ the others ------------------------------ *)

\* the scheduler claims a run, and it ends
RunMoves(r) ==
  /\ \E move \in {<<"queued", "claimed">>, <<"claimed", "done">>} :
       /\ founded[r].state = move[1]
       /\ founded' = [founded EXCEPT ![r].state = move[2]]
  /\ UNCHANGED <<handling, events, receipts, delivered, observations, spoken, attributions>>

\* the transcript gets the message that the bot has sent
BotSpeaks ==
  /\ ~spoken /\ spoken' = TRUE
  /\ UNCHANGED <<handling, events, receipts, founded, delivered, observations, attributions>>

\* a restart ends every handler; recover() queues what was claimed
Restart ==
  /\ \E d \in Deliveries : delivered[d].at \notin {"new", "over"}
  /\ delivered' = [d \in Deliveries |->
       IF delivered[d].at = "new" THEN NotDelivered ELSE [NotDelivered EXCEPT !.at = "over"]]
  /\ founded' = [m \in Arrivals |->
       [founded[m] EXCEPT !.state = IF @ = "claimed" THEN "queued" ELSE @]]
  /\ UNCHANGED <<handling, events, receipts, observations, spoken, attributions>>

IntakeNext ==
  \/ \E d \in Deliveries :
       \/ \E m \in Arrivals : Deliver(d, m)
       \/ RouteDelivery(d) \/ Recognise(d) \/ Found(d) \/ Turned(d)
       \/ \E r \in Arrivals : Join(d, r)
       \/ AttributeDelivery(d) \/ AcceptPlain(d) \/ RecordAttribution(d)
  \/ \E r \in Arrivals : RunMoves(r)
  \/ BotSpeaks \/ Restart

IntakeSpec == IntakeInit /\ [][IntakeNext]_intakeVars

\* A message that was accepted is heard by exactly one run, once, on the line
\* the run works on and from the person it works for, however often and
\* however overlapping it is delivered; a message that was not accepted is
\* heard by none (runtime-core.ts 507-546, 577-617; store.ts 130-203).
EachHeardOnce ==
  /\ \A m \in Arrivals :
       {r \in Founders : m \in HeardBy(r)} = {receipts[m]} \ {Absent}
  /\ \A m \in Arrivals : (receipts[m] = Absent) <=> (events[m] = NoEvent)
  /\ \A r \in Founders :
       /\ Len(founded[r].inbox) + 1 = Cardinality(HeardBy(r))
       /\ \A m \in HeardBy(r) : /\ events[m].line = founded[r].line
                                /\ EventOf[m].sender = EventOf[r].sender
  /\ \A m \in Arrivals : attributions[m] \in {Absent, events[m].line}
=============================================================================
