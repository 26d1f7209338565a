------------------------------- MODULE Ledger -------------------------------
(***************************************************************************)
(* What a conversation store promises to the runtime (the contract of      *)
(* conversation/store.ts): a fact from a platform is taken once, a result  *)
(* reaches the mainline once and only after it was written, and a closed   *)
(* session takes neither facts nor results and stays closed.               *)
(***************************************************************************)
CONSTANTS Sources, Works, SessionIds

VARIABLES
  taken,      \* the session that took a fact, or "nobody"
  finished,   \* the session a result was written in, or "nobody"
  published,  \* results that are on a mainline
  standing    \* sessions: "unborn", "open" or "closed"

vars == <<taken, finished, published, standing>>

Init ==
  /\ taken = [x \in Sources |-> "nobody"]
  /\ finished = [w \in Works |-> "nobody"]
  /\ published = {}
  /\ standing = [s \in SessionIds |-> "unborn"]

Open(s) ==
  /\ standing[s] = "unborn"
  /\ standing' = [standing EXCEPT ![s] = "open"]
  /\ UNCHANGED <<taken, finished, published>>

\* Taking a fact may open the session it belongs to.
Take(x, s) ==
  /\ taken[x] = "nobody" /\ standing[s] # "closed"
  /\ taken' = [taken EXCEPT ![x] = s]
  /\ standing' = [standing EXCEPT ![s] = "open"]
  /\ UNCHANGED <<finished, published>>

Finish(w, s) ==
  /\ finished[w] = "nobody" /\ standing[s] = "open"
  /\ finished' = [finished EXCEPT ![w] = s]
  /\ UNCHANGED <<taken, published, standing>>

Publish(w) ==
  /\ w \notin published
  /\ \E s \in SessionIds : finished[w] = s /\ standing[s] = "open"
  /\ published' = published \cup {w}
  /\ UNCHANGED <<taken, finished, standing>>

Close(s) ==
  /\ standing[s] = "open"
  /\ standing' = [standing EXCEPT ![s] = "closed"]
  /\ UNCHANGED <<taken, finished, published>>

Next ==
  \/ \E s \in SessionIds : Open(s) \/ Close(s)
  \/ \E x \in Sources, s \in SessionIds : Take(x, s)
  \/ \E w \in Works, s \in SessionIds : Finish(w, s)
  \/ \E w \in Works : Publish(w)

Spec == Init /\ [][Next]_vars
=============================================================================
