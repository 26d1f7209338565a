---------------------------- MODULE MCExecution ----------------------------
(* Small instances of Execution for TLC.  The fair ones narrow down who asks *)
(* for what, which only Submit and Supersede feel: no fair step is held up. *)
EXTENDS ExecutionInvariant, TLC

Requested(i) ==
  intents[i].state = "absent" /\ intents'[i].state # "absent" /\ intents'[i].origin = 0

\* A person asks an agent under one key, a schedule asks for a reminder under the
\* other, both for the task; only what a schedule asked for is superseded.
KindOf(k) == IF k = CHOOSE x \in Keys : TRUE THEN "agent" ELSE "reminder"

PersonAndSchedule ==
  \A i \in Intents :
    /\ Requested(i) => intents'[i].kind = KindOf(intents'[i].key) /\ intents'[i].task # None
    /\ intents'[i].stale => intents'[i].kind = "reminder"

MixedSpec == Init /\ [][Next /\ PersonAndSchedule]_vars /\ Fairness

\* Persons ask for one task under different keys: which key comes first does not
\* matter, and none is used again.
KeyAt == CHOOSE order \in [Intents -> Keys] : \A i, j \in Intents : order[i] = order[j] => i = j

Persons ==
  \A i \in Intents :
    /\ Requested(i) => intents'[i].key = KeyAt[i] /\ intents'[i].task # None
    /\ ~intents'[i].stale

RivalSpec == Init /\ [][Next /\ Persons]_vars /\ Fairness
=============================================================================
