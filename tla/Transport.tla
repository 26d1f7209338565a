----------------------------- MODULE Transport -----------------------------
(* The OneBot 11 connection over a WebSocket                                *)
(* (channel-onebot11/src/websocket-transport.ts): connecting, calls with an  *)
(* echo each, and the callbacks of sockets that may come late, after the     *)
(* socket has been replaced.                                                *)
(*                                                                         *)
(* The socket itself is the ws library: it opens, closes or fails when it    *)
(* likes, and a socket that is closing reports it later.                     *)
EXTENDS Naturals, FiniteSets

CONSTANTS Sockets,   \* bound: sockets the transport creates, 1..n
          Calls      \* bound: calls made

ASSUME TransportAssumption == Sockets \subseteq Nat \ {0}

VARIABLES
  link,     \* #socket, #connecting (0 for undefined) and #status
  pledged,  \* the sockets whose connect() promise is not settled
  wire,     \* readyState of each socket
  call      \* each call: its state and the socket it was sent on

transportVars == <<link, pledged, wire, call>>

TransportTypeOK ==
  /\ link \in [socket : Sockets \union {0}, connecting : Sockets \union {0},
               status : {"offline", "connecting", "online", "error"}]
  /\ pledged \subseteq Sockets
  /\ wire \in [Sockets -> {"unborn", "connecting", "open", "closing", "closed"}]
  /\ call \in [Calls -> [state : {"unmade", "pending", "answered", "failed"},
                         on : Sockets \union {0}]]

TransportInit ==
  /\ link = [socket |-> 0, connecting |-> 0, status |-> "offline"]
  /\ pledged = {}
  /\ wire = [s \in Sockets |-> "unborn"]
  /\ call = [e \in Calls |-> [state |-> "unmade", on |-> 0]]

\* #rejectPending: every pending call, whatever socket it was sent on
Rejected == [e \in Calls |-> IF call[e].state = "pending" THEN [call[e] EXCEPT !.state = "failed"]
                                                          ELSE call[e]]

\* the promise of s settles, and clearConnecting forgets it if it is the shared one
Settle(s) == pledged' = pledged \ {s}
Forgotten(s) == IF link.connecting = s THEN 0 ELSE link.connecting

\* connect(): shared with the one under way, nothing to do when open
Connect ==
  /\ link.connecting = 0
  /\ link.socket # 0 => wire[link.socket] # "open"
  /\ \/ \E s \in Sockets :
          /\ wire[s] = "unborn" /\ \A t \in 1..(s - 1) : wire[t] # "unborn"
          /\ wire' = [wire EXCEPT ![s] = "connecting"]
          /\ link' = [socket |-> s, connecting |-> s, status |-> "connecting"]
          /\ pledged' = pledged \union {s}
     \/ /\ link' = [link EXCEPT !.status = "error"]    \* the constructor throws
        /\ UNCHANGED <<wire, pledged>>
  /\ UNCHANGED call

\* the "open" callback
Opened(s) ==
  /\ wire[s] = "connecting"
  /\ wire' = [wire EXCEPT ![s] = "open"]
  /\ IF link.socket = s
       THEN Settle(s) /\ link' = [link EXCEPT !.status = "online", !.connecting = Forgotten(s)]
       ELSE UNCHANGED <<link, pledged>>
  /\ UNCHANGED call

\* the peer starts to close: readyState changes, the callback comes later
PeerCloses(s) ==
  /\ wire[s] = "open"
  /\ wire' = [wire EXCEPT ![s] = "closing"]
  /\ UNCHANGED <<link, pledged, call>>

WrongOwned(s) == TRUE

Owned(s) == link.socket = s

\* the "close" callback
Closed(s) ==
  /\ wire[s] \in {"connecting", "open", "closing"}
  /\ wire' = [wire EXCEPT ![s] = "closed"]
  /\ IF Owned(s)
       THEN /\ Settle(s)
            /\ link' = [socket |-> 0, connecting |-> Forgotten(s), status |-> "offline"]
            /\ call' = Rejected
       ELSE UNCHANGED <<link, pledged, call>>

\* the "error" callback, and the timer of connect(): #retire
Retire(s) ==
  /\ link' = [socket |-> 0, connecting |-> Forgotten(s), status |-> "error"]
  /\ Settle(s)
  /\ call' = Rejected
  /\ wire' = [wire EXCEPT ![s] = "closing"]

Errored(s) ==
  /\ wire[s] \in {"connecting", "open", "closing"}
  /\ link.socket = s
  /\ Retire(s)

ConnectTimeout(s) ==
  /\ s \in pledged /\ link.socket = s
  /\ Retire(s)

WrongDisconnect ==
  /\ link' = [socket |-> 0, connecting |-> 0, status |-> "offline"]
  /\ call' = Rejected
  /\ wire' = IF link.socket = 0 THEN wire ELSE [wire EXCEPT ![link.socket] = "closing"]
  /\ UNCHANGED pledged

\* disconnect(): #cancelConnect ends the wait, then the socket is given up
Disconnect ==
  /\ pledged' = pledged \ {link.connecting}
  /\ link' = [socket |-> 0, connecting |-> 0, status |-> "offline"]
  /\ call' = Rejected
  /\ wire' = IF link.socket = 0 THEN wire ELSE [wire EXCEPT ![link.socket] = "closing"]

\* call()
Call(e) ==
  /\ call[e].state = "unmade"
  /\ link.socket # 0 /\ wire[link.socket] = "open"
  /\ call' = [call EXCEPT ![e] = [state |-> "pending", on |-> link.socket]]
  /\ UNCHANGED <<link, pledged, wire>>

\* #handleFrame with the echo of e, on the socket e was sent on
Respond(e) ==
  /\ call[e].state = "pending"
  /\ wire[call[e].on] \in {"open", "closing"} /\ link.socket = call[e].on
  /\ call' = [call EXCEPT ![e].state = "answered"]
  /\ UNCHANGED <<link, pledged, wire>>

\* the timer of the call, or an error of send()
CallFails(e) ==
  /\ call[e].state = "pending"
  /\ call' = [call EXCEPT ![e].state = "failed"]
  /\ UNCHANGED <<link, pledged, wire>>

TransportNext ==
  \/ Connect \/ Disconnect
  \/ \E s \in Sockets : \/ Opened(s) \/ PeerCloses(s) \/ Closed(s) \/ Errored(s)
                        \/ ConnectTimeout(s)
  \/ \E e \in Calls : Call(e) \/ Respond(e) \/ CallFails(e)

\* timers fire; nothing is assumed of the network
TransportFairness ==
  /\ \A s \in Sockets : WF_transportVars(ConnectTimeout(s))
  /\ \A e \in Calls : WF_transportVars(CallFails(e))

TransportSpec == TransportInit /\ [][TransportNext]_transportVars /\ TransportFairness

\* The status tells about the socket in use and not about one that was
\* replaced, and a connect() waits for no other: the callbacks and the timer of
\* a replaced socket do nothing, so whoever waited for it would wait for ever
\* (websocket-transport.ts 44-115, 177-182).
StatusOfCurrent ==
  /\ link.status = "online" => link.socket # 0 /\ wire[link.socket] # "connecting"
  /\ link.status = "connecting" => link.socket \in pledged
  /\ pledged \subseteq {link.socket}

\* Nobody waits for ever: every connect() and every call ends, with sockets
\* that never report anything (websocket-transport.ts 44-103, 122-147).
WaitsEnd ==
  /\ \A s \in Sockets : (s \in pledged) ~> (s \notin pledged)
  /\ \A e \in Calls : (call[e].state = "pending") ~> (call[e].state # "pending")
=============================================================================
