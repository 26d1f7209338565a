------------------------------ MODULE Effects ------------------------------
(***************************************************************************)
(* What the execution layer promises about the outside world, without a    *)
(* word on queues, attempts or recovery.  A request has some deeds, which  *)
(* cannot be taken back.  Before a deed the request is in doubt, and the   *)
(* doubt ends when somebody learned how the deed went.  No deed is done    *)
(* twice or after the request was closed, and a request with a doubt is    *)
(* never reported as done, nor forgotten.                                  *)
(***************************************************************************)
EXTENDS Naturals

CONSTANTS Requests, Deeds

VARIABLES phase, doubt, count

effects == <<phase, doubt, count>>

Phases == {"absent", "open", "done", "blocked", "forgotten"}

Init ==
  /\ phase = [r \in Requests |-> "absent"]
  /\ doubt = [r \in Requests |-> FALSE]
  /\ count = [r \in Requests |-> [d \in Deeds |-> 0]]

Accept(r) ==
  /\ phase[r] = "absent" /\ phase'[r] = "open"
  /\ doubt'[r] = doubt[r] /\ count'[r] = count[r]

Announce(r) ==
  /\ phase[r] = "open" /\ phase'[r] = "open"
  /\ ~doubt[r] /\ doubt'[r]
  /\ count'[r] = count[r]

Perform(r, d) ==
  /\ phase[r] = "open" /\ phase'[r] = "open"
  /\ doubt[r] /\ doubt'[r]
  /\ count[r][d] = 0 /\ count'[r] = [count[r] EXCEPT ![d] = 1]

Learn(r) ==
  /\ phase[r] = "open" /\ phase'[r] = "open"
  /\ doubt[r] /\ ~doubt'[r]
  /\ count'[r] = count[r]

Close(r, ending) ==
  /\ phase[r] = "open" /\ phase'[r] = ending
  /\ ending = "done" => ~doubt[r]
  /\ doubt'[r] = doubt[r] /\ count'[r] = count[r]

Forget(r) ==
  /\ phase[r] \in {"done", "blocked"} /\ phase'[r] = "forgotten"
  /\ ~doubt[r] /\ ~doubt'[r]
  /\ count'[r] = count[r]

Stay(r) ==
  phase'[r] = phase[r] /\ doubt'[r] = doubt[r] /\ count'[r] = count[r]

Step(r) ==
  \/ Accept(r) \/ Announce(r) \/ Learn(r) \/ Forget(r) \/ Stay(r)
  \/ \E d \in Deeds : Perform(r, d)
  \/ \E ending \in {"done", "blocked"} : Close(r, ending)

\* One step of the implementation may move several requests (a revocation, a
\* recovery, a collection).
Next == \A r \in Requests : Step(r)

Spec == Init /\ [][Next]_effects
=============================================================================
