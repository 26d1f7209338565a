-------------------------------- MODULE Host --------------------------------
(* The runtime server: start, reload and stop, with the requests that come   *)
(* meanwhile (apps/runtime/src/server/runtime-server.ts, channel-manager.ts, *)
(* webhook-registry.ts, composition/runtime-assembly.ts).                    *)
(*                                                                         *)
(* Lifecycle operations run one after the other (#enqueueLifecycle).  A      *)
(* reload replaces the assembly, which owns the runtime and the database,    *)
(* under a gateway that keeps listening; a webhook holds the adapter its     *)
(* route named when it arrived; enabling or disabling a channel from the     *)
(* admin interface is in no queue.  One channel is modelled, and whether the *)
(* configuration enables it is chosen when the configuration is read.        *)
(* Closing a listener stops it from accepting; nothing is assumed about      *)
(* requests it has accepted.                                               *)
EXTENDS Naturals, Sequences

CONSTANTS MaxAssemblies,  \* bound: assemblies created
          MaxRequests     \* bound: lifecycle calls waiting or running

ASSUME HostAssumption == MaxAssemblies \in Nat \ {0} /\ MaxRequests \in Nat

VARIABLES
  tail,        \* the lifecycle operations, the first one is running
  step,        \* how far the first one is
  server,      \* #stopPromise asked, #stopped, start() called, the listeners
  current,     \* #assembly
  assemblies,  \* state of each assembly
  registered,  \* the adapter in the channel registry
  hooks,       \* the webhook registry: paused, the route, the request in flight
  patch        \* the admin patch in flight: the adapter it disables, or none

hostVars == <<tail, step, server, current, assemblies, registered, hooks, patch>>

NoAdapter == [of |-> 0, by |-> "nobody"]
Adapters == [of : 1..MaxAssemblies, by : {"host", "patch"}] \union {NoAdapter}
Steps == {"begin", "connect", "listen", "admin", "failed",
          "gateway", "close", "drain", "quiet", "disconnect", "dispose",
          "r-drain", "r-quiet", "r-disconnect", "r-dispose", "create", "r-connect",
          "f-quiet", "f-disconnect", "f-dispose"}

HostTypeOK ==
  /\ tail \in Seq({"start", "reload", "stop"}) /\ Len(tail) <= MaxRequests
  /\ step \in Steps
  /\ server \in [asked : BOOLEAN, stopped : BOOLEAN, started : BOOLEAN, over : BOOLEAN,
                 listening : SUBSET {"gateway", "admin"}]
  /\ current \in 1..MaxAssemblies
  /\ assemblies \in [1..MaxAssemblies -> {"unborn", "open", "quiescing", "quiet", "closed"}]
  /\ registered \in Adapters
  /\ hooks \in [paused : BOOLEAN, route : Adapters, request : Adapters]
  /\ patch \in {"none", "disabling"}

HostInit ==
  /\ tail = <<>> /\ step = "begin"
  /\ server = [asked |-> FALSE, stopped |-> FALSE, started |-> FALSE, over |-> FALSE,
               listening |-> {}]
  /\ current = 1
  /\ assemblies = [a \in 1..MaxAssemblies |-> IF a = 1 THEN "open" ELSE "unborn"]
  /\ registered = NoAdapter
  /\ hooks = [paused |-> FALSE, route |-> NoAdapter, request |-> NoAdapter]
  /\ patch = "none"

(* --------------------------- the lifecycle calls ------------------------ *)

Ask(operation) == Len(tail) < MaxRequests /\ tail' = Append(tail, operation)

AskStart ==
  /\ ~server.started /\ ~server.asked
  /\ Ask("start") /\ server' = [server EXCEPT !.started = TRUE]
  /\ UNCHANGED <<step, current, assemblies, registered, hooks, patch>>

AskReload ==
  /\ "admin" \in server.listening
  /\ Ask("reload")
  /\ UNCHANGED <<step, server, current, assemblies, registered, hooks, patch>>

AskStop ==
  /\ ~server.asked
  /\ Ask("stop") /\ server' = [server EXCEPT !.asked = TRUE]
  /\ UNCHANGED <<step, current, assemblies, registered, hooks, patch>>

Running(operation, at) == tail # <<>> /\ Head(tail) = operation /\ step = at
Stopping(at) == tail # <<>> /\ Head(tail) \in {"start", "stop"} /\ step = at

\* the operation resolves or rejects, and the next one begins
Finish == tail' = Tail(tail) /\ step' = "begin"
GoOn(at) == step' = at /\ UNCHANGED tail

(* ------------------------- pieces of the operations --------------------- *)

\* quiesce(), once: it blocks new runs, and the coordinator waits for the rest
Quiesce ==
  assemblies' = [assemblies EXCEPT ![current] = IF @ = "open" THEN "quiescing" ELSE @]

Quieted ==
  /\ \E a \in 1..MaxAssemblies :
       /\ assemblies[a] = "quiescing"
       /\ assemblies' = [assemblies EXCEPT ![a] = "quiet"]
  /\ UNCHANGED <<tail, step, server, current, registered, hooks, patch>>

Quiet == assemblies[current] \in {"quiet", "closed"}

WrongDrained == TRUE

\* drain() of the webhook registry
Drained == hooks.request = NoAdapter

Register(adapter) ==
  /\ registered = NoAdapter
  /\ registered' = adapter
  /\ hooks' = [hooks EXCEPT !.route = adapter]

\* attachEnabledChannels: a disabled channel is skipped; a taken id or
\* createChannelAdapter makes it throw
Attach(to, next, failure) ==
  \/ Register([of |-> to, by |-> "host"]) /\ GoOn(next)
  \/ UNCHANGED <<registered, hooks>> /\ (GoOn(next) \/ GoOn(failure))

\* disconnectAll: the registry is emptied at once, then the adapters disconnect
Detach == registered' = NoAdapter

DisposeAssembly == assemblies' = [assemblies EXCEPT ![current] = "closed"]

(* -------------------------- start and stop ------------------------------ *)

\* #performStart, up to the first await
StartBegins ==
  /\ Running("start", "begin")
  /\ IF server.stopped THEN Finish /\ UNCHANGED <<registered, hooks>>
                       ELSE Attach(current, "connect", "failed")
  /\ UNCHANGED <<server, current, assemblies, patch>>

\* connectAll, runtime.start and the two listen() calls, each of which may fail
StartGoesOn ==
  /\ \/ /\ Running("start", "connect")
        /\ GoOn("listen") \/ GoOn("failed")
        /\ UNCHANGED server
     \/ /\ Running("start", "listen")
        /\ \/ GoOn("admin") /\ server' = [server EXCEPT !.listening = {"gateway"}]
           \/ GoOn("failed") /\ UNCHANGED server
     \/ /\ Running("start", "admin")
        /\ \/ Finish /\ server' = [server EXCEPT !.listening = {"gateway", "admin"}]
           \/ GoOn("failed") /\ UNCHANGED server
  /\ UNCHANGED <<current, assemblies, registered, hooks, patch>>

\* #performStop, called by stop() and by a start() that failed
StopBegins ==
  /\ Running("stop", "begin") \/ Running("start", "failed")
  /\ IF server.stopped
       THEN /\ Finish
            /\ UNCHANGED <<server, assemblies, hooks>>
       ELSE /\ server' = [server EXCEPT !.stopped = TRUE]
            /\ hooks' = [hooks EXCEPT !.paused = TRUE]
            /\ Quiesce
            /\ GoOn("gateway")
  /\ UNCHANGED <<current, registered, patch>>

CloseGateway ==
  /\ Stopping("gateway") /\ GoOn("close")
  /\ server' = [server EXCEPT !.listening = @ \ {"gateway"}]
  /\ UNCHANGED <<current, assemblies, registered, hooks, patch>>

CloseAdmin ==
  /\ Stopping("close") /\ GoOn("drain")
  /\ server' = [server EXCEPT !.listening = @ \ {"admin"}]
  /\ hooks' = [hooks EXCEPT !.route = NoAdapter]
  /\ UNCHANGED <<current, assemblies, registered, patch>>

\* the rest of the cleanup; a step that fails is logged and the next one runs
StopGoesOn ==
  /\ \/ Stopping("drain") /\ Drained /\ GoOn("quiet") /\ UNCHANGED <<registered, assemblies, server>>
     \/ Stopping("quiet") /\ Quiet /\ GoOn("disconnect") /\ UNCHANGED <<registered, assemblies, server>>
     \/ Stopping("disconnect") /\ Detach /\ GoOn("dispose") /\ UNCHANGED <<assemblies, server>>
     \/ /\ Stopping("dispose") /\ DisposeAssembly /\ Finish /\ UNCHANGED registered
        /\ server' = [server EXCEPT !.over = TRUE]
  /\ UNCHANGED <<current, hooks, patch>>

(* -------------------------------- reload -------------------------------- *)

\* #reloadConfig: refused while shutting down; the file may not load
ReloadBegins ==
  /\ Running("reload", "begin")
  /\ \/ Finish /\ UNCHANGED <<assemblies, hooks>>
     \/ /\ ~server.asked
        /\ hooks' = [hooks EXCEPT !.paused = TRUE, !.route = NoAdapter]
        /\ Quiesce
        /\ GoOn("r-drain")
  /\ UNCHANGED <<server, current, registered, patch>>

\* a disconnect that fails ends the reload with the old assembly quiet
QuiesceCurrent ==
  /\ \/ Running("reload", "r-drain") /\ Drained /\ GoOn("r-quiet") /\ UNCHANGED <<registered, assemblies>>
     \/ Running("reload", "r-quiet") /\ Quiet /\ GoOn("r-disconnect") /\ UNCHANGED <<registered, assemblies>>
     \/ /\ Running("reload", "r-disconnect") /\ Detach /\ UNCHANGED assemblies
        /\ GoOn("r-dispose") \/ Finish
     \/ Running("reload", "r-dispose") /\ DisposeAssembly /\ GoOn("create") /\ UNCHANGED registered
  /\ UNCHANGED <<server, current, hooks, patch>>

\* createRuntimeAssembly takes the lease of the data directory, or throws; then
\* attachEnabledChannels
Create ==
  /\ Running("reload", "create")
  /\ \/ /\ current < MaxAssemblies
        /\ current' = current + 1
        /\ assemblies' = [assemblies EXCEPT ![current + 1] = "open"]
        /\ Attach(current + 1, "r-connect", "f-quiet")
     \/ GoOn("f-quiet") /\ UNCHANGED <<current, assemblies, registered, hooks>>
  /\ UNCHANGED <<server, patch>>

Reconnect ==
  /\ Running("reload", "r-connect")
  /\ \/ Finish /\ hooks' = [hooks EXCEPT !.paused = FALSE]
     \/ GoOn("f-quiet") /\ UNCHANGED hooks
  /\ UNCHANGED <<server, current, assemblies, registered, patch>>

\* the catch of #replaceRuntimeConfig
GiveUpReload ==
  /\ \/ /\ Running("reload", "f-quiet") /\ UNCHANGED registered
        /\ Quiesce
        /\ IF assemblies[current] = "open" THEN UNCHANGED <<tail, step>>
                                           ELSE Quiet /\ GoOn("f-disconnect")
     \/ Running("reload", "f-disconnect") /\ Detach /\ GoOn("f-dispose") /\ UNCHANGED assemblies
     \/ Running("reload", "f-dispose") /\ DisposeAssembly /\ Finish /\ UNCHANGED registered
  /\ UNCHANGED <<server, current, hooks, patch>>

(* ------------------------ requests meanwhile ---------------------------- *)

\* a webhook: 503 when paused, 404 without a route; it keeps the route it found
Webhook ==
  /\ "gateway" \in server.listening /\ ~hooks.paused
  /\ hooks.route # NoAdapter /\ hooks.request = NoAdapter
  /\ hooks' = [hooks EXCEPT !.request = hooks.route]
  /\ UNCHANGED <<tail, step, server, current, assemblies, registered, patch>>

WebhookEnds ==
  /\ hooks.request # NoAdapter
  /\ hooks' = [hooks EXCEPT !.request = NoAdapter]
  /\ UNCHANGED <<tail, step, server, current, assemblies, registered, patch>>

\* #enableChannel: attached to the assembly of the moment, whatever it is doing;
\* the adapter stays registered when its connect() fails
EnableChannel ==
  /\ "admin" \in server.listening
  /\ Register([of |-> current, by |-> "patch"])
  /\ UNCHANGED <<tail, step, server, current, assemblies, patch>>

\* #disableChannel: unregister, await disconnect(), then remove the route of the
\* channel, which may be a new one by then
DisableChannel ==
  /\ "admin" \in server.listening /\ patch = "none"
  /\ Detach /\ patch' = "disabling"
  /\ UNCHANGED <<tail, step, server, current, assemblies, hooks>>

ChannelDisabled ==
  /\ patch = "disabling" /\ patch' = "none"
  /\ hooks' = [hooks EXCEPT !.route = NoAdapter]
  /\ UNCHANGED <<tail, step, server, current, assemblies, registered>>

HostNext ==
  \/ AskStart \/ AskReload \/ AskStop
  \/ StartBegins \/ StartGoesOn \/ StopBegins \/ CloseGateway \/ CloseAdmin \/ StopGoesOn
  \/ ReloadBegins \/ QuiesceCurrent \/ Create \/ Reconnect \/ GiveUpReload
  \/ Quieted \/ Webhook \/ WebhookEnds
  \/ EnableChannel \/ DisableChannel \/ ChannelDisabled

HostSpec == HostInit /\ [][HostNext]_hostVars

(* -------------------------------- property ------------------------------ *)

\* An assembly is closed only when nothing the lifecycle attached to it is in
\* use: no webhook in flight and no registered adapter; there is never a second
\* one that is not closed; and when stop() is over all of them are closed and
\* nothing listens, whatever start or reload failed before (runtime-server.ts
\* 93-167, 250-280).  Adapters the admin interface attached are not covered:
\* a patch that falls into a reload can attach to an assembly being closed.
ClosedUnused ==
  /\ \A a \in 1..MaxAssemblies :
       assemblies[a] = "closed" => [of |-> a, by |-> "host"] \notin {registered, hooks.request}
  /\ \A a \in 1..MaxAssemblies \ {current} : assemblies[a] \in {"unborn", "closed"}
  /\ server.over => assemblies[current] = "closed" /\ server.listening = {}
=============================================================================
