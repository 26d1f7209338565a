------------------------------ MODULE Outcome ------------------------------
(***************************************************************************)
(* The folding of trace events into the outcome of one attempt of a run    *)
(* (trace/outcome.ts, class RunOutcome).  The same fold is used twice by   *)
(* the program: live, by the recorder of the attempt, and after a crash,   *)
(* over the events that were persisted since the attempt started.          *)
(*                                                                         *)
(* Events are records; only what the fold reads of their data is kept:     *)
(* the call identity, whether a failure carries a ToolCallRecoveryError,   *)
(* and the artifacts an event mentions.                                    *)
(***************************************************************************)
EXTENDS FiniteSets

CONSTANTS
  Calls,      \* identities of the tool calls of a run
  Artifacts   \* identities of the artifacts a run may generate

Failures == {"none", "failed", "blocked", "uncertain"}

Outcomes ==
  [pending   : SUBSET Calls,      \* tool calls started and not yet answered
   responding: BOOLEAN,           \* a reply was handed out and not answered
   generated : SUBSET Artifacts,
   uploaded  : SUBSET Artifacts,
   attempted : SUBSET Artifacts,  \* uploads tried, whatever became of them
   rejected  : SUBSET Artifacts,  \* uploads whose last answer is a failure
   selecting : BOOLEAN,           \* an explicit selection replaces the default
   selected  : SUBSET Artifacts,
   delivered : BOOLEAN,
   native    : BOOLEAN,           \* the delivery went to a native session
   quiet     : BOOLEAN,           \* completed without a delivery
   container : BOOLEAN,           \* the last container run failed
   failure   : Failures]

NewOutcome ==
  [pending |-> {}, responding |-> FALSE, generated |-> {}, uploaded |-> {},
   attempted |-> {}, rejected |-> {}, selecting |-> FALSE, selected |-> {},
   delivered |-> FALSE, native |-> FALSE, quiet |-> FALSE,
   container |-> FALSE, failure |-> "none"]

\* A later failure replaces an earlier one, except that "uncertain" is final.
Fail(o, status) ==
  IF o.failure = "uncertain" THEN o ELSE [o EXCEPT !.failure = status]

----------------------------------------------------------------------------
(* One operator per kind of event.                                         *)

ToolStarted(o, c) == [o EXCEPT !.pending = @ \cup {c}]

ToolAnswered(o, c) == [o EXCEPT !.pending = @ \ {c}]

\* tool_call_failed: only an error of class ToolCallRecoveryError makes the
\* outcome uncertain, the call is answered either way.
ToolFailed(o, c, recovery) ==
  IF recovery THEN Fail(ToolAnswered(o, c), "uncertain") ELSE ToolAnswered(o, c)

ModelFailed(o) == Fail(o, "failed")

ResponseSending(o) == [o EXCEPT !.responding = TRUE]

ResponseSent(o, toNative, published) ==
  [o EXCEPT !.responding = FALSE, !.delivered = TRUE, !.native = toNative,
            !.uploaded = @ \cup published]

ResponseFailed(o) == Fail([o EXCEPT !.responding = FALSE], "failed")

\* The answer "uncertain" does not close the pending reply.
ResponseUncertain(o) == Fail(o, "uncertain")

Completed(o) == [o EXCEPT !.quiet = TRUE]

ContainerRan(o, ok, made) ==
  [o EXCEPT !.container = ~ok, !.generated = @ \cup made]

ArtifactCreated(o, a) == [o EXCEPT !.generated = @ \cup {a}]

SelectionChanged(o, chosen) ==
  [o EXCEPT !.selecting = TRUE, !.selected = chosen]

UploadSucceeded(o, a) ==
  [o EXCEPT !.uploaded = @ \cup {a}, !.attempted = @ \cup {a},
            !.rejected = @ \ {a}]

UploadFailed(o, a) ==
  [o EXCEPT !.attempted = @ \cup {a}, !.rejected = @ \cup {a}]

UploadUncertain(o) == Fail(o, "uncertain")

----------------------------------------------------------------------------
(* The verdict.                                                            *)

Required(o) == IF o.selecting THEN o.selected ELSE o.generated \cup o.attempted

Missing(o) ==
  {a \in Required(o) : a \notin o.uploaded /\ ~(o.native /\ a \in o.generated)}

Unanswered(o) == o.pending # {} \/ o.responding

Verdict(o) ==
  CASE Unanswered(o)                      -> "uncertain"
    [] ~Unanswered(o) /\ o.failure # "none" -> o.failure
    [] ~Unanswered(o) /\ o.failure = "none" ->
         IF \/ o.container
            \/ Required(o) \cap o.rejected # {}
            \/ o.delivered /\ Missing(o) # {}
         THEN "failed"
         ELSE IF o.delivered \/ o.quiet THEN "succeeded" ELSE "interrupted"

Verdicts == {"uncertain", "failed", "blocked", "succeeded", "interrupted"}
============================================================================
