------------------------------ MODULE MCParts ------------------------------
(* Small instances of the components that work next to the execution core,   *)
(* for TLC.  They share nothing: a behaviour picks one of them and leaves    *)
(* the others where they begin, so the run checks each on its own and the    *)
(* states of the parts add up instead of multiplying.                       *)
EXTENDS Gate, Inbox, Tasks, Transport, Host, Maintenance, Capabilities, Records, Intake, Rules, Settings

VARIABLE focus   \* the component the behaviour is about

GateRunOf == [o \in {"o1", "o2", "o3", "o4"} |-> IF o \in {"o1", "o2"} THEN "r1" ELSE "r2"]
SkillPackageOf == [i \in {"p1", "p2"} |-> "p"]
PlatformIds == [m \in {"m1", "m2"} |-> "1"]
AskedCommands == {<<"remember", "here">>, <<"remember", "private">>, <<"delete", "m1">>,
                  <<"use", "x">>, <<"use", "y">>, <<"say", "remember this">>}

\* triggers of the session in question
GroupPolicy == [mode |-> "mention", allowed |-> TRUE, bots |-> {"bot"}]
PrivatePolicy == [GroupPolicy EXCEPT !.mode = "always"]
TriggerPolicies == [private |-> PrivatePolicy, group |-> GroupPolicy]
\* one that names the bot, one that replies to it, one of the console on a branch
MessageOf ==
  [said |-> Spoken, reply |-> [Spoken EXCEPT !.mentions = <<>>, !.replyTo = TRUE],
   aimed |-> [Spoken EXCEPT !.native = TRUE, !.kind = "private", !.target = "side"]]

\* two forms and two requests about a channel
SaveRequests ==
  [s1 |-> [kind |-> "form", path |-> <<"agent", "model">>, value |-> Leaf(<<"new">>)],
   s2 |-> [kind |-> "form", path |-> <<"agent", "limits", "turns">>, value |-> Leaf(<<"3">>)],
   s3 |-> [kind |-> "add", path |-> <<"channels", "c">>, value |-> Object("adapter" :> Leaf(<<"qq">>))],
   s4 |-> [kind |-> "patch", path |-> <<"channels", "c">>, value |-> Object("enabled" :> Leaf(<<"true">>))]]

FirstDocument == Object("agent" :> Object("model" :> Leaf(<<"old">>)) @@ "memory" :> OutsideValue(0))

partVars == <<gateVars, inboxVars, taskVars, transportVars, hostVars, maintenanceVars,
              capabilityVars, recordVars, intakeVars, settingsVars>>

PartsInit ==
  /\ focus \in {"gate", "inbox", "tasks", "transport", "host",
                "maintenance", "capabilities", "records", "intake", "settings"}
  /\ GateInit
  /\ InboxInit
  /\ TasksInit
  /\ TransportInit
  /\ HostInit
  /\ MaintenanceInit
  /\ CapabilityInit
  /\ RecordsInit
  /\ IntakeInit
  /\ SettingsInit
  /\ focus = "intake" \/ handling = "queue"

\* every part that is not the focus stays where it is
Only(part) ==
  /\ focus = part /\ UNCHANGED focus
  /\ part /= "gate" => UNCHANGED gateVars
  /\ part /= "inbox" => UNCHANGED inboxVars
  /\ part /= "tasks" => UNCHANGED taskVars
  /\ part /= "transport" => UNCHANGED transportVars
  /\ part /= "host" => UNCHANGED hostVars
  /\ part /= "maintenance" => UNCHANGED maintenanceVars
  /\ part /= "capabilities" => UNCHANGED capabilityVars
  /\ part /= "records" => UNCHANGED recordVars
  /\ part /= "intake" => UNCHANGED intakeVars
  /\ part /= "settings" => UNCHANGED settingsVars

PartsNext ==
  \/ Only("gate") /\ GateNext
  \/ Only("inbox") /\ InboxNext
  \/ Only("tasks") /\ TasksNext
  \/ Only("transport") /\ TransportNext
  \/ Only("host") /\ HostNext
  \/ Only("maintenance") /\ MaintenanceNext
  \/ Only("capabilities") /\ CapabilityNext
  \/ Only("records") /\ RecordsNext
  \/ Only("intake") /\ IntakeNext
  \/ Only("settings") /\ SettingsNext

\* GateFairness and TransportFairness, of the part in focus only: the others
\* never move, and what TLC need not ask of them it does not pay for
PartsFairness ==
  /\ \A o \in Ops : /\ WF_gateVars(focus = "gate" /\ BeginRun(o))
                    /\ WF_gateVars(focus = "gate" /\ Release(o))
                    /\ WF_gateVars(focus = "gate" /\ FinishRun(o) /\ controller[RunOf[o]] = "aborted")
  /\ \A r \in Runs : WF_gateVars(focus = "gate" /\ Deadline(r))
  /\ WF_gateVars(focus = "gate" /\ Disposed)
  /\ \A s \in Sockets : WF_transportVars(focus = "transport" /\ ConnectTimeout(s))
  /\ \A e \in Calls : WF_transportVars(focus = "transport" /\ CallFails(e))

PartsSpec == PartsInit /\ [][PartsNext]_<<focus, partVars>> /\ PartsFairness
=============================================================================
