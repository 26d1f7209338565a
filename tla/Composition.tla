---------------------------- MODULE Composition ----------------------------
(* What the model of a run gets to read besides the request: history,        *)
(* memories, the state of the line and of tasks, chosen by source and fitted *)
(* into one budget of characters (runtime-core/src/context/composer.ts,      *)
(* history.ts, budget.ts).  Texts are their sizes; the order of a sequence   *)
(* is the order in the prompt.                                              *)
EXTENDS Naturals, Sequences, SequencesExt

Nothing == "nothing"
SizeOfAll(items) == FoldLeft(LAMBDA n, item : n + item.size, 0, items)

(* -------------------------------- history ------------------------------- *)

\* listRecent: the newest messages of a line, or of the session
Recent(transcript, line, limit) ==
  LET shown == SelectSeq(transcript, LAMBDA t : ~t.deleted /\ (line = Nothing \/ t.line = line))
  IN  IF limit >= Len(shown) THEN shown ELSE SubSeq(shown, Len(shown) - limit + 1, Len(shown))

\* isWithinHistoryTtl
WithinTtl(t, now, ttl) == ttl = 0 \/ now - t.at <= ttl

\* trimHistory: the oldest go until the rest fits
TrimHistory(messages, max) ==
  LET fits(n) == SizeOfAll(SubSeq(messages, n, Len(messages))) <= max
      first == CHOOSE n \in 1..Len(messages) + 1 : fits(n) /\ \A k \in 1..n - 1 : ~fits(k)
  IN  SubSeq(messages, first, Len(messages))

\* compose: the current message is not part of its own history
History(transcript, input, max) ==
  IF ~input.history THEN <<>>
  ELSE TrimHistory(SelectSeq(Recent(transcript, input.line, input.limit),
                             LAMBDA t : t.source # input.source /\ WithinTtl(t, input.at, input.ttl)), max)

(* ---------------------------- memory and state -------------------------- *)

\* fitMemoryRecord: eight characters less until it fits, with a mark
FitMemory(record, max) ==
  LET lengths == {n \in 0..record.size : 8 * ((record.size - n) \div 8) = record.size - n \/ n = 0}
      fitting == {n \in lengths : n + record.marked <= max}
  IN  IF record.size + record.plain <= max THEN <<record>>
      ELSE IF fitting = {} THEN <<>>
      ELSE <<[record EXCEPT !.size = CHOOSE n \in fitting : \A k \in fitting : k <= n]>>

\* #composeMemories: records in order while they fit, the first one shortened
Memories(records, max) ==
  LET fits(n) == SizeOfAll(SubSeq(records, 1, n)) + n * records[1].plain <= max
      count == CHOOSE n \in 0..Len(records) :
                 /\ \A k \in 1..n : fits(k)
                 /\ n < Len(records) => ~fits(n + 1)
  IN  IF records = <<>> THEN <<>>
      ELSE IF count = 0 THEN FitMemory(records[1], max)
      ELSE SubSeq(records, 1, count)

\* #composeConversationState: a branch, which must be one of the session, shows
\* the commit its ref points to, or the one it was made from; the main line
\* shows what was merged into it, all of it or nothing
LineState(line, session, head, source, merged, max) ==
  IF line.branch
    THEN IF line.session # session THEN [refused |-> "Unauthorized context branch"]
         ELSE [kind |-> "branch", shows |-> IF head # Nothing THEN head ELSE source]
  ELSE IF merged = <<>> \/ SizeOfAll(merged) > max THEN Nothing
  ELSE [kind |-> "mainline", shows |-> merged]

\* executionSections: tasks of this line that are not over, at most five
ListedTasks(tasks, request) ==
  LET relevant == SelectSeq(tasks, LAMBDA t :
        \/ t.id = request.task
        \/ /\ t.session = request.session /\ t.status \in {"open", "paused"}
           /\ t.line = request.line \/ (t.line = Nothing /\ ~request.branch))
  IN  IF "task.list" \in request.tools THEN SubSeq(relevant, 1, IF Len(relevant) < 5 THEN Len(relevant) ELSE 5)
      ELSE <<>>

\* refs of the session that may be shown: on a branch none, else those of this
\* line and the named ones (the first eight of them)
OfferedRefs(refs, request) ==
  IF "context.refs" \notin request.tools \/ request.branch THEN {}
  ELSE {r \in refs : r.of = Nothing \/ r.of = request.line}

\* those the text names, or all of them where it continues something
RelevantRefs(refs, request) ==
  {r \in OfferedRefs(refs, request) : r.name \in request.names \/ request.continuing}

\* those whose content is shown: named, of this line, or the only named ref
ShownRefs(refs, request) ==
  LET relevant == RelevantRefs(refs, request)
      others == {r \in relevant : r.of = Nothing}
  IN  IF "context.read" \notin request.tools THEN {}
      ELSE {r \in relevant : \/ r.name \in request.names
                             \/ request.continuing /\ (r.of = request.line \/ others = {r})}

(* -------------------------------- budget -------------------------------- *)

\* buildContextSections, with the priorities that order the blocks
Block(id, trust, required, priority, size) ==
  [key |-> id, version |-> 1, trust |-> trust, required |-> required, priority |-> priority, size |-> size]

Sections(sizes) ==
  LET block(id, trust, required, priority) ==
        IF id \in DOMAIN sizes THEN <<Block(id, trust, required, priority, sizes[id])>> ELSE <<>>
  IN  block("workspace", "runtime", TRUE, 100) \o block("conversation", "external", FALSE, 70)
        \o block("memory", "external", FALSE, 80) \o block("time", "runtime", TRUE, 10)

\* trustedContextCost: prompt, input and the tools that are visible
TrustedCost(prompt, input, tools, visible) ==
  SizeOfAll(prompt) + input + SizeOfAll(SelectSeq(tools, LAMBDA t : t.name \in visible)) + 128

\* the order of choice: required blocks, then by priority, then the newest messages
Chosen(blocks, messages) ==
  SortSeq(blocks, LAMBDA a, b : \/ a.required /\ ~b.required
                                \/ a.required = b.required /\ a.priority > b.priority)
    \o Reverse(messages)

\* select: a source is considered once per version, also one that did not fit
Select(state, item) ==
  LET key == <<item.key, item.version>>
      reason == IF key \in state.seen THEN "duplicate"
                ELSE IF state.used + item.size > state.max THEN "budget" ELSE "adopted"
  IN  [state EXCEPT !.seen = @ \union {key},
                    !.used = IF reason = "adopted" THEN @ + item.size ELSE @,
                    !.failed = @ \/ (reason = "budget" /\ item.required),
                    !.entries = Append(@, [item |-> item, reason |-> reason])]

\* allocateContext
Allocate(blocks, messages, max, reserved) ==
  FoldLeft(Select, [seen |-> {}, used |-> reserved, max |-> max, failed |-> reserved > max, entries |-> <<>>],
           Chosen(blocks, messages))

Adopted(allocation) == SelectSeq(allocation.entries, LAMBDA e : e.reason = "adopted")
=============================================================================
