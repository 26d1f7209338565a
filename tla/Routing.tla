------------------------------ MODULE Routing ------------------------------
(* What a platform event is to the runtime: whether it is answered           *)
(* (packages/conversation/src/router.ts), under which identity it is kept    *)
(* (runtime-core/src/context/session.ts), and which line it belongs to       *)
(* (runtime-core/src/context/attribution.ts).                                *)
(*                                                                         *)
(* Texts are the set of the patterns they match, times and scores are        *)
(* numbers, and an absent field is None.                                    *)
EXTENDS Naturals, Sequences, FiniteSets, SequencesExt

Absent == "absent"

(* ------------------------------- trigger -------------------------------- *)

\* a policy: mode, allowed (allowCommandWithoutMention) and bots (botUserIds)
\* an event: origin, type, kind, sender, self, replied (repliedToBot), replyTo,
\* capability (replyToBot), named (platformMentionedBot), message (present), mentions
\* and text
Ignored(reason) == [responds |-> FALSE, reason |-> reason, kind |-> Absent]
Triggered(reason, kind) == [responds |-> TRUE, reason |-> reason, kind |-> kind]

BotIds(policy, e) == policy.bots \union ({e.self} \ {Absent})

\* the first mention that is not one of another user decides
Mentioned(e, bots) ==
  LET class(m) == IF m \in {"all", "unknown"} THEN m ELSE IF m \in bots THEN "bot" ELSE "other"
      classes == [i \in DOMAIN e.mentions |-> class(e.mentions[i])]
      decisive == SelectSeq(classes, LAMBDA c : c # "other")
  IN  IF decisive # <<>> THEN Head(decisive) ELSE IF classes # <<>> THEN "other" ELSE "none"

\* a bare keyword, or any text where every message is answered
ByText(policy, e) ==
  policy.mode = "always" \/ (policy.mode \in {"keyword", "mention_or_keyword"} /\ "keyword" \in e.text)

\* a reply settles the matter before anything in the text does
ByReply(policy, e) == e.replied = "yes" \/ (e.replied = "no" /\ e.replyTo)

Evaluated(policy, e) ==
  LET mention == Mentioned(e, BotIds(policy, e))
      private == e.kind = "private"
      addressed == private \/ policy.allowed \/ e.named \/ mention = "bot"
  IN  CASE policy.mode = "never" -> Ignored("not_triggered")
        [] policy.mode # "never" /\ ByReply(policy, e) ->
             IF e.replied = "no" THEN Ignored("reply_to_non_bot_message")
             ELSE IF e.capability = "no" THEN Ignored("capability_not_supported")
             ELSE Triggered("reply_to_bot", "reply")
        [] OTHER ->
             IF "prefix" \in e.text /\ addressed THEN Triggered("command_prefix", "command")
             ELSE IF e.named THEN Triggered("platform_at_event", "platform_hint")
             ELSE IF policy.mode = "always" /\ private THEN Triggered("private_always", "private")
             ELSE IF mention = "bot" THEN Triggered("mentioned_bot", "mention")
             ELSE IF mention = "all" THEN Ignored("mention_all")
             ELSE IF mention = "unknown" THEN Ignored("unknown_mention_ignored")
             ELSE IF mention = "other" THEN Ignored("mentioned_other_user")
             ELSE IF ByText(policy, e) THEN Triggered("keyword", "keyword")
             ELSE Ignored("not_triggered")

\* route: own messages and the history of a channel never start anything
Route(policies, e) ==
  LET policy == IF e.kind = "private" THEN policies.private ELSE policies.group
  IN  IF e.origin \in {"outgoing", "history"} \/ e.type # "message.created" THEN Ignored("not_message")
      ELSE IF ~e.message THEN Ignored("no_message")
      ELSE IF e.sender \in BotIds(policy, e) THEN Ignored("self_message")
      ELSE Evaluated(policy, e)

\* contextPolicyForTrigger: a command is read without history
WithHistory(decision) == decision.kind # "command"

(* ------------------------------- identity ------------------------------- *)

\* buildSessionId
SessionOf(e, provider) == <<e.platform, provider, e.channel, e.kind, e.conversation>>

\* buildSourceEventId: the message, else the event unless its id is a clock
\* reading of the adapter, else a digest of what the event contains
SourceOf(e, provider) ==
  IF e.messageId # Absent THEN <<"id", e.messageId>>
  ELSE IF e.eventId # Absent /\ ~e.clocked THEN <<"id", e.eventId>>
  ELSE <<"digest", SessionOf(e, provider), e.sender, e.type, e.text, e.receivedAt, e.hint>>

\* eventProcessKey, runtimeEventIdempotencyKey
EventKey(e, provider) == <<e.platform, provider, e.channel, SourceOf(e, provider), e.type>>

\* lineEventTypeFromChannelEvent
LineEventType(e) ==
  IF e.type = "message.created" THEN "user_message"
  ELSE IF e.type = "message.deleted" THEN "correction" ELSE "system_message"

(* ------------------------------ attribution ----------------------------- *)

\* classifyInteractionNature: the first pattern that matches
Nature(text, reply) ==
  LET order == <<"command", "social", "correction", "topic_shift">>
                 \o (IF reply THEN <<"task_followup">> ELSE <<>>)
                 \o <<"task_request", "question">>
      found == SelectSeq(order, LAMBDA p : p \in text)
  IN  IF found = <<>> THEN "conversation_continue" ELSE Head(found)

\* lexicalSimilarity of two sets of terms, in hundredths
Similarity(query, candidate) ==
  LET overlap == Cardinality(query \intersect candidate)
      product == Cardinality(query) * Cardinality(candidate)
  IN  IF product = 0 THEN 0
      ELSE Max({n \in 0..100 : n * n * product <= 10000 * overlap * overlap})

\* #scoreBranch
Score(branch, terms, recent) ==
  Min({98, Similarity(terms, branch.terms)
             + (IF branch.line = recent THEN 12 ELSE 0)
             + (IF branch.status \in {"active", "created"} THEN 4 ELSE 0)})

Threshold == 46
Margin == 12

Decision(line, mainline, reason) ==
  [line |-> line, action |-> IF line = mainline THEN "mainline" ELSE "resume", reason |-> reason]

\* attribute: seen is what the stores answer: mainline, replay, explicit and
\* reply are lines or Absent, branches those that are open or completed, latest
\* the last message with its line and time
Attribute(seen, text, terms, reply, now, window) ==
  LET open == {b \in seen.branches : b.status \notin {"merged", "failed", "cancelled", "archived"}}
      recent == IF \E b \in open : b.line = seen.latest.line THEN seen.latest.line ELSE Absent
      near == now >= seen.latest.at /\ now - seen.latest.at <= window
      ranked == CHOOSE s \in SetToSeqs(open) :
                  \A i, j \in 1..Len(s) : i < j => Score(s[i], terms, recent) >= Score(s[j], terms, recent)
      best == Score(ranked[1], terms, recent)
      second == Score(ranked[2], terms, recent)
  IN  IF seen.replay # Absent THEN Decision(seen.replay, seen.mainline, "normalized_event_replay")
      ELSE IF seen.explicit # Absent THEN Decision(seen.explicit, seen.mainline, "explicit_target_line")
      ELSE IF seen.reply # Absent THEN Decision(seen.reply, seen.mainline, "reply_relation")
      ELSE IF open = {} THEN Decision(seen.mainline, seen.mainline, "no_branch_candidate")
      ELSE IF recent # Absent /\ near /\ Nature(text, reply) # "topic_shift"
        THEN [line |-> recent, action |-> "continue", reason |-> "recent_branch_continuity"]
      ELSE IF best < Threshold
        THEN Decision(seen.mainline, seen.mainline, "semantic_match_below_threshold")
      ELSE IF Cardinality(open) > 1 /\ best - second < Margin
        THEN Decision(seen.mainline, seen.mainline, "semantic_candidates_ambiguous")
      ELSE [line |-> ranked[1].line, reason |-> "branch_semantic_match",
            action |-> IF ranked[1].line = recent THEN "continue" ELSE "resume"]
=============================================================================
