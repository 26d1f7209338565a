------------------------------ MODULE Watching ------------------------------
(* How a page follows a run while it happens.  The page subscribes twice to  *)
(* the stream of all events: once for itself, to know when to read again,   *)
(* and once for the run it shows; and it reads that run page by page         *)
(* (run-routes.ts, run-stream.ts, use-runtime-events.ts, use-run-activity.ts).*)
(*                                                                         *)
(* The cursor of an event is its place in the journal, its number in its run *)
(* the count of the events of that run up to it.  Events only come to the    *)
(* journal, so no cursor lies beyond it (the answer 409).  A frame that is    *)
(* sent and not read is one that is not sent yet.                          *)
EXTENDS Integers, Sequences, FiniteSets

CONSTANTS
  WatchedRuns,  \* the runs that events are about
  MaxJournal,   \* bound: events
  PageSize,     \* events one request returns at most (200)
  MaxFaults     \* bound: lost connections, failed requests, reloads, changes of the run

ASSUME WatchingAssumption ==
  WatchedRuns # {} /\ "nothing" \notin WatchedRuns /\ PageSize \in Nat \ {0}

VARIABLES
  journal,      \* run_events: [run, output]
  era,          \* which inspection the server has, a new one after each reload
  watchers,     \* subscriber -> [state, cursor, era]
  cached,       \* useRunActivity: [run, events, cursor] or NoCache
  displayed,    \* what the page shows: [run, events]
  picked,       \* the run that is shown
  fetching,     \* the answer in flight: [kept, events, more, next] or NoFetch
  restless,     \* an effect is to run again (revision or page has changed)
  armed,        \* the timer of a refresh is running
  trouble,      \* the last request failed
  faults

watchVars == <<journal, era, watchers, cached, displayed, picked, fetching, restless, armed,
               trouble, faults>>

NoCache == [run |-> "nothing"]
NoFetch == [next |-> -1]
Start == -1                     \* a subscription without a cursor
Watchers == {"page", "run"}

\* events of a run as pairs of their number and whether they are output
EventsOf(run) ==
  LET at == {i \in DOMAIN journal : journal[i].run = run}
  IN  {[seq |-> Cardinality({j \in at : j <= i}), output |-> journal[i].output] : i \in at}
SeqAt(i) == Cardinality({j \in 1..i : journal[j].run = journal[i].run})
EventAt(i) == [seq |-> SeqAt(i), output |-> journal[i].output]

Fresh == [state |-> "waiting", cursor |-> Start, era |-> 0]
FetchFrom(cache, run) == IF cache.run = run THEN cache.cursor ELSE 0
KeptEvents(cache, run) == IF cache.run = run THEN cache.events ELSE {}

WatchInit ==
  /\ journal = <<>> /\ era = 1 /\ faults = 0
  /\ watchers = [w \in Watchers |-> Fresh]
  /\ cached = NoCache
  /\ picked = CHOOSE run \in WatchedRuns : TRUE
  /\ displayed = [run |-> "nothing", events |-> {}]
  /\ fetching = NoFetch /\ restless = TRUE
  /\ armed = FALSE /\ trouble = FALSE

(* ------------------------------- the server ----------------------------- *)

\* RunTraceStore.append
Journaled(run, output) ==
  /\ Len(journal) < MaxJournal
  /\ journal' = Append(journal, [run |-> run, output |-> output])
  /\ UNCHANGED <<era, watchers, cached, displayed, picked, fetching, restless, armed, trouble, faults>>

Fault == faults < MaxFaults /\ faults' = faults + 1

\* a reload replaces the inspection, and with it ends the streams of the old one
NewInspection ==
  /\ Fault /\ era' = era + 1
  /\ UNCHANGED <<journal, watchers, cached, displayed, picked, fetching, restless, armed, trouble>>

\* streamSnapshot and the snapshot frame: without a cursor from the end of the
\* journal; the page reads again.  An effect that is due runs long before the
\* connection for the run is there (run-stream.ts 105: half a second at least)
Subscribed(w) ==
  /\ watchers[w].state = "waiting"
  /\ w = "run" => ~restless
  /\ watchers' = [watchers EXCEPT ![w] =
       [state |-> "open", era |-> era,
        cursor |-> IF watchers[w].cursor = Start THEN Len(journal) ELSE watchers[w].cursor]]
  /\ armed' = (armed \/ w = "page")
  /\ UNCHANGED <<journal, era, cached, displayed, picked, fetching, restless, trouble, faults>>

\* streamEvents and one frame of it, given to onEvent of the subscriber
\* mutant: the number to read from moves with the stream
WrongRunEventSeen(e) ==
  /\ cached' = [run |-> picked, events |-> KeptEvents(cached, picked) \union {e}, cursor |-> e.seq]
  /\ displayed' = [run |-> picked, events |-> KeptEvents(cached, picked) \union {e}]

RunEventSeen(e) ==
  /\ cached' = [run |-> picked, events |-> KeptEvents(cached, picked) \union {e},
                cursor |-> FetchFrom(cached, picked)]
  /\ displayed' = [run |-> picked, events |-> KeptEvents(cached, picked) \union {e}]

Streamed(w) ==
  LET next == watchers[w].cursor + 1
  IN  /\ watchers[w].state = "open" /\ watchers[w].era = era /\ watchers[w].cursor < Len(journal)
      /\ watchers' = [watchers EXCEPT ![w].cursor = next]
      /\ armed' = (armed \/ (w = "page" /\ ~journal[next].output))
      /\ IF w = "run" /\ journal[next].run = picked THEN RunEventSeen(EventAt(next))
         ELSE UNCHANGED <<cached, displayed>>
      /\ UNCHANGED <<journal, era, picked, fetching, restless, trouble, faults>>

\* the reset frame: onReset, and the subscription begins anew
ResetBy(w) ==
  /\ watchers[w].state = "open" /\ watchers[w].era # era
  /\ watchers' = [watchers EXCEPT ![w] = Fresh]
  /\ IF w = "page" THEN armed' = TRUE /\ UNCHANGED <<cached, restless>>
     ELSE cached' = NoCache /\ restless' = TRUE /\ UNCHANGED armed
  /\ UNCHANGED <<journal, era, displayed, picked, fetching, trouble, faults>>

\* a lost connection: the subscription waits and goes on from its cursor
Disconnected(w) ==
  /\ watchers[w].state = "open" /\ Fault
  /\ watchers' = [watchers EXCEPT ![w].state = "waiting"]
  /\ UNCHANGED <<journal, era, cached, displayed, picked, fetching, restless, armed, trouble>>

(* -------------------------------- the page ------------------------------ *)

\* the timer of refresh() raises the revision
Refreshed ==
  /\ armed /\ armed' = FALSE /\ restless' = TRUE
  /\ UNCHANGED <<journal, era, watchers, cached, displayed, picked, fetching, trouble, faults>>

\* the browser goes offline: the page's own subscription stops, and begins
\* again from its cursor when it is back
WentOffline ==
  /\ watchers["page"].state # "stopped" /\ Fault
  /\ watchers' = [watchers EXCEPT !["page"].state = "stopped"]
  /\ UNCHANGED <<journal, era, cached, displayed, picked, fetching, restless, armed, trouble>>

CameOnline ==
  /\ watchers["page"].state = "stopped"
  /\ watchers' = [watchers EXCEPT !["page"].state = "waiting"]
  /\ UNCHANGED <<journal, era, cached, displayed, picked, fetching, restless, armed, trouble, faults>>

\* another run is chosen: a new subscription, without a cursor
Picked(run) ==
  /\ run # picked /\ picked' = run /\ Fault
  /\ watchers' = [watchers EXCEPT !["run"] = Fresh]
  /\ fetching' = NoFetch /\ restless' = TRUE
  /\ UNCHANGED <<journal, era, cached, displayed, armed, trouble>>

\* the effect runs: the answer to an earlier request is not waited for any
\* more.  getRunEvents reads the page after a number, and whether there is more;
\* it does so here when it is asked, as a later reading only holds more
Fetch ==
  LET from == FetchFrom(cached, picked)
      rest == {e \in EventsOf(picked) : e.seq > from}
      page == {e \in rest : e.seq <= from + PageSize}
  IN  /\ restless /\ restless' = FALSE /\ trouble' = FALSE
      /\ fetching' = [kept |-> KeptEvents(cached, picked), events |-> page,
                      more |-> page # rest, next |-> from + Cardinality(page)]
      /\ UNCHANGED <<journal, era, watchers, cached, displayed, picked, armed, faults>>

\* the answer arrives: events of the stream and of the page are merged, and
\* only the page moves the number to read from
Fetched ==
  LET events == (IF cached.run = picked THEN cached.events ELSE fetching.kept) \union fetching.events
  IN  /\ fetching # NoFetch
      /\ cached' = [run |-> picked, events |-> events, cursor |-> fetching.next]
      /\ displayed' = [run |-> picked, events |-> events]
      /\ restless' = (restless \/ fetching.more)
      /\ fetching' = NoFetch
      /\ UNCHANGED <<journal, era, watchers, picked, armed, trouble, faults>>

FetchFailed ==
  /\ fetching # NoFetch /\ Fault
  /\ fetching' = NoFetch /\ trouble' = TRUE
  /\ UNCHANGED <<journal, era, watchers, cached, displayed, picked, restless, armed>>

WatchNext ==
  \/ \E run \in WatchedRuns : Picked(run) \/ \E output \in BOOLEAN : Journaled(run, output)
  \/ \E w \in Watchers : Subscribed(w) \/ Streamed(w) \/ ResetBy(w) \/ Disconnected(w)
  \/ NewInspection \/ Refreshed \/ WentOffline \/ CameOnline
  \/ Fetch \/ Fetched \/ FetchFailed

(* ------------------------------ properties ------------------------------ *)

Caught(w) == watchers[w].state = "open" /\ watchers[w].era = era /\ watchers[w].cursor = Len(journal)
AtRest == fetching = NoFetch /\ ~restless /\ ~armed /\ ~trouble /\ \A w \in Watchers : Caught(w)

\* Once nothing is under way any more and no error is shown, the page shows
\* every event of its run up to the last one that is not a piece of output,
\* and none of another run: what the stream was too late for is read, and a
\* number that the stream has jumped to never hides what was not read
\* (use-run-activity.ts 22, 43-53).
WatchedWhole ==
  AtRest =>
    /\ displayed.run = picked
    /\ displayed.events \subseteq EventsOf(picked)
    /\ \A e \in EventsOf(picked) :
         (\E later \in EventsOf(picked) : later.seq >= e.seq /\ ~later.output) => e \in displayed.events
=============================================================================
