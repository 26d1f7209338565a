---------------------------- MODULE MCSchedules ----------------------------
(* Small instances of Schedules for TLC.                                   *)
EXTENDS Schedules

RuleInterval == [kind |-> "interval", at |-> 1, every |-> 2]
RuleOnce     == [kind |-> "once", at |-> 3, every |-> 0]
RuleDaily    == [kind |-> "daily", at |-> 2, every |-> 0]
RuleRepeated == [kind |-> "daily", at |-> 3, every |-> 0]

TickRules == {RuleInterval, RuleOnce, RuleRepeated}
TickPlans ==
  {[id |-> "report", rule |-> RuleInterval, missed |-> "coalesce", overlap |-> "skip"],
   [id |-> "remind", rule |-> RuleInterval, missed |-> "skip", overlap |-> "queue"]}

DailyRules == {RuleDaily}
DailyPlans ==
  {[id |-> "report", rule |-> RuleDaily, missed |-> "coalesce", overlap |-> "queue"]}
=============================================================================
