# A verification project for synapse-runtime

synapse-runtime keeps agents running on a single machine: messages arrive over
chat channels, a runtime turns them into runs of an agent, and background work
(tasks, schedules, reminders) goes on while nobody is connected. What the
program promises is mostly about failure: work that was accepted is not lost,
an effect on the outside world is not repeated because a process died, and
what is reported about a run is what happened. These modules state such
promises, check them with TLC on small instances, and prove the central ones
with TLAPS for every size.

Paths below are relative to `src/packages/runtime-core/src/` unless they start
with `packages/` or `apps/`, which are under `src/`.

## 1. Inventory

### Components, their state and operations

| Component | State | Operations that change it | Properties that make it correct |
|---|---|---|---|
| Execution store (`execution/store.ts`, `operations.ts`) | tables of grants, intents, operations, results, usage, inputs | accept, claim, finish, retryModel, consume, start/complete operation, saveResult, retryDelivery, issue/revokeGrant, collect, reconcile, recover | one advancer per task; an unknown effect is never repeated; budgets are never renewed; accepted work settles |
| Inbox of a run (`execution/store.ts`, `packages/agent-loop`) | inputs with their ordinals, those consumed | acceptSupplement, inputs, acknowledge, prune | a run acts on nothing older than it was told; what is consumed was in a request |
| Run trace (`trace/`) | run rows, numbered events | begin, emit, finish, recover, fold (`outcome.ts`) | the verdict covers every undecided effect; a run that ended stays ended |
| Run coordinator (`runtime/run-coordinator.ts`) | controllers, timers, recorders of active attempts | executeBackground, executeAgent, deadline, cancel, dispose | result before work; an attempt always ends; late answers advance nothing |
| Scheduler pump (`runtime/runtime-core.ts`) | set of intents being dispatched, poll timer | #pump, #dispatchIntent, dispose | bounded concurrency; no intent dispatched twice |
| Execution gate (`runtime/execution-budget.ts`) | active count, queue of waiters | run, close | FIFO, capacity, no lost slot |
| Delivery (`runtime/delivery.ts`) | operation row per message | sendIntent, sendOutput | a message is handed out at most once; "failed" means not sent |
| Tool runtime and loop (`agent/`, `tools/`) | operations of one run, halted flag | call, replay, authorize | external calls at most once; a receipt precedes the trace |
| Tasks (`execution/tasks.ts`) | tasks with revision | create, update, control, complete | completion by compare-and-set, a conflict keeps the result |
| Schedules (`execution/schedules.ts`, `time.ts`) | schedules with revision and next time, occurrences | createSchedule, updateSchedule, tick | occurrences follow one another; overlaps are skipped; budgets are not renewed; every schedule ends |
| Intake (`packages/conversation`, `context/`, `runtime/runtime-core.ts`) | messages with their session, line and run | receive, #intakeChannel, acceptInput | a message is heard by one run, once, however often it is delivered |
| Interactive runs (`runtime/recovery.ts`, `event-process/`) | events with a persisted phase | process, resume | no second reply, no second agent run |
| Conversation store (`storage/sqlite/conversation-store.ts`, `conversation/in-memory.ts`) | sessions, lines, branches, results, publications | accept event, append, finish branch, publish, archive | idempotent acceptance; a result reaches the main line once; both stores alike |
| Context graph (`storage/sqlite/context-graph-store.ts`) | commits, refs | commit, fork, merge, resolve | one winner per ref; a repeated request gets its first answer |
| Runtime context (`storage/sqlite/runtime-context-store.ts`, `memory/`, `commands/`) | identities, workspaces, memories, transcript | resolve, remember, promote, delete, bind, append | what is private stays private; repeating a command changes nothing |
| Context composition (`context/`, `packages/runtime-resources`) | none: functions | compose, compile | budget kept, required parts present, nothing of another line |
| Maintenance and lease (`maintenance.ts`, `directory-lease.ts`) | files, marker files, lease | backup, restore, verify, acquire | old or new state, never a mixture |
| Migrations (`storage/sqlite/migrations.ts`) | the schema of a database | open | nothing of an older database is lost or put elsewhere |
| Channels (`packages/channel*`) | sockets, pending calls, tokens | connect, call, disconnect, send, normalise | every call answered once, by its own answer; a receipt says what happened |
| Host (`apps/runtime/src/server/`) | assembly, registry of channels, webhooks | start, reload, stop, patch of a channel | nothing closed is in use |
| Configuration (`packages/config`, `apps/runtime/src/config/`) | one file and its revision | load, save, patch | precedence; no edit lost; secrets stay masked |
| Assets (`assets/`) | upload jobs, blobs, versions, references | upload, save, publish, remove, read | one answer per upload; room kept; a run reads what it is bound to |
| Capabilities (`capabilities/`) | packages, snapshots, bindings, pins | install, bind, switch, use | a run works with one version |
| Files of containers (`packages/tool-container`, `runtime/artifact-delivery.ts`) | containers, saved files, claims, receipts | execute, save, choose, upload | a file reaches the group once; no container is left over |
| Console (`apps/webui`, routes of the host) | what a page has read | subscribe, read, merge | nothing missing once all is quiet |

`PROJECT.json` lists each of them with its status.

### How they interact

The process is one event loop over SQLite databases. A producer (the tool
`reminder.create`, a schedule, an administrator, a channel) calls
`ExecutionStore.accept`, which writes an intent and its run in one transaction.
The pump claims due intents and starts one handler for each. A handler alternates
between synchronous stretches, in which it does one or more transactions, and
awaits: of the model, of a tool, of a permission, of a channel, of the session of
a native delivery. Every model
call, tool call and delivery first asks `validateIntent` again, so that a
revoked grant, a paused task or a revised schedule stops it there. Operations
(`execution_operations`) are the journal: a row `started` is committed before
the effect, its receipt after it. The trace (`run_events`) is a second journal
for readers, folded by `RunOutcome`, and it is written after the operation. When
the process starts, `recoverRuns()` makes both agree in three passes: `reconcile`
copies missing receipts to the trace, `runs.recover()` gives active runs the
verdict of their events, `recover()` queues intents again or blocks them.

A message of a platform takes another way in: the router decides whether it is
answered, attribution on which line, and it founds a run, joins the run its
author has under way (the inbox of that run), or is recognised as known. An
interactive event keeps its phase in a row of its own, the answer on the
conversation line, and its run in the same queue when the host has one.

Around the runtime lies the host: an assembly (runtime, database, adapters) is
replaced as a whole by a reload while the gateway goes on listening, the
configuration file is edited through the settings page, and maintenance works on
the directory while no runtime holds its lease.

### What is hard

* A kill between any two transactions, in particular between an effect and its
  receipt and between the two journals; a second kill during recovery.
* Checks that are stale after an await (authorization, deadline, permission,
  the version of an asset, the revision of a file).
* Retries of three kinds (model failures, crashes, explicit retries of a
  delivery), each allowed to repeat something different; platforms that deliver
  one message several times, overlapping.
* Records that are deleted (`collect`) while runs, budgets and idempotency keys
  outlive them.
* Two requests for one task offered by one pump, while a handler is ending.
* Two stores of one contract (SQLite and memory), of which only one rolls back.
* Callbacks of sockets and assemblies that have been replaced.

The hazards in `PROJECT.json` give the line where each bites.

## 2. Modules

**Execution and schedules.**

| Module | What it is |
|---|---|
| `Outcome` | `RunOutcome` of `trace/outcome.ts`: the fold from events to a verdict, as operators |
| `Execution` | grants, tasks, intents, runs, operations, results, handlers, crash and recovery |
| `Effects` | abstract specification: what the execution layer promises about the outside world |
| `ExecutionInvariant` | the inductive invariants: `Inv`, and on top of it `History` |
| `ExecutionTypes` | lemmas: every part of an action keeps the types of the rows it writes |
| `Execution_proofs` | `Inv` is inductive; `SentOnce`, `SingleAdvancer`, `UnknownNotResumed` |
| `ExecutionHistory` | `History` is inductive; `VerdictMatchesWorld`, `RetryOnlyDelivers`, `GrantBudgetKept`, `VerdictFinal`, `ResultFinal`, `SentAuthorized` |
| `ExecutionEffects` | `Execution` implements `Effects` |
| `MCExecution` | instances for TLC |
| `Schedules` | schedules, ticks and occurrences of `execution/schedules.ts`; first `nextScheduleTime` of `execution/time.ts`, with a zone whose clock changes |
| `Schedules_proofs` | the next time lies after the baseline; the invariant of `Schedules` |
| `MCSchedules` | instances for TLC |

**State machines next to it.** Each has its own variables, `Init`, `Next` and
specification, named after the component (`GateInit`, `GateNext`, `GateSpec`),
so that one module can extend several of them.

| Module | Code | Variables stand for |
|---|---|---|
| `Gate` | `runtime/execution-budget.ts`, dispatch, deadline and dispose of `run-coordinator.ts` | operations and where they are, the queue, controllers of runs |
| `Inbox` | supplements of `execution/store.ts`, their adoption in `packages/agent-loop/src/loop.ts` | inputs of a run, what a request contained, what is consumed |
| `Tasks` | `execution/tasks.ts`, `tools.ts` | the row of a task, the revisions its runs adopted and its actors know |
| `Interaction` | `runtime-core.ts`, `run-coordinator.ts`, `delivery.ts`, `recovery.ts`, `event-process/` | the row of an event, its line, its run and operations, the handler, the outside |
| `Intake` (extends `Routing`) | `#intakeChannel` and its callers, `acceptInput`, `acceptSupplement` | messages of a session, overlapping deliveries of them, runs |
| `Conversation`, `ConversationSqlite`, `ConversationMemory`, `ConversationStores` | `conversation/rules.ts` and both stores | sessions, lines, branches, accepted facts, results, publications |
| `Ledger` | abstract specification: what either conversation store promises | facts taken, results finished and published, sessions closed |
| `ContextGraph` | `context-graph-store.ts`, `context-graph/resolver.ts` | commits, refs with versions, requests whose answer may be lost |
| `Records` | `runtime-context-store.ts`, `memory/`, `commands/`, `context/identity.ts`, `workspace.ts` | identities, workspaces, memories in both stores, commands on them |
| `Maintenance` | `maintenance.ts`, `directory-lease.ts` | files of source, backup and destination, markers, leases |
| `Transport` | `packages/channel-onebot11/src/websocket-transport.ts` | sockets, the status, pending connects and calls |
| `Host` | `apps/runtime/src/server/`, `composition/runtime-assembly.ts` | the lifecycle queue, assemblies, the registry, webhooks in flight |
| `Assets` | `assets/service.ts`, `blob-store.ts`, `asset-store.ts` | an asset with its versions, upload jobs, blobs, references of runs |
| `Capabilities` | `capabilities/service.ts`, `capability-store.ts`, `capability-resources.ts` | packages, snapshots on disk, the binding of a workspace, pins of runs |
| `Artifacts` | `packages/tool-container`, `runtime/artifact-delivery.ts` | containers, saved files, claims and receipts, the files of the group |
| `Watching` | run routes and stream of the host, `use-run-activity.ts`, `use-runtime-events.ts` | the journal, the two subscriptions of a page, what it shows |
| `Saving` | `config/editor.ts`, `channel-editor.ts`, `file-edits.ts` | the file, its revision, saves under way |

`Parts_proofs` holds the proofs of `Gate`, `Inbox`, `Tasks`, `Transport`, `Host`,
`Maintenance`, `Capabilities`, `Records`, `Intake` and `Saving`, `Stored_proofs` those
of `Interaction`, `Assets`, `Artifacts`, `Watching` and `ContextGraph`, one section for
each; `Conversation_proofs` those of `ConversationStores`, with the
refinement of `Ledger`.

**Functions.** What the program computes without state; `Rules` checks it.

| Module | Code |
|---|---|
| `Routing` | the router, session keys, attribution to a line |
| `Composition` | history, memories, state and references in one budget of characters |
| `Bundle` | prompts, recipes and skills to what one call is given; limits of a skill archive |
| `Migration` | what opening an older database makes of its rows |
| `Settings` (extends `Saving`) | sources of the configuration, placeholders, masked secrets, profiles |
| `Channels` | CQ text, declared abilities, receipts, tokens, normalisation, answers to a webhook |
| `Reading` | the transcript of both stores, pages and their cursors, traces of an event |

`MCParts` and `MCStored` put small instances of several state machines side by
side. The machines share nothing, so a behaviour picks one of them (`focus`) and
leaves the others where they begin: the run checks each machine on its own, its
states add up instead of multiplying, and a property of one machine holds of the
whole exactly if it holds of that machine.

### Execution and the code

Durable variables are the tables (`grants`, `tasks`, `intents`, `runs`, `calls`,
`send`, `result`, `usage`); `proc[i]` is the handler of intent `i`: the point it
has reached, the number of its current tool call, whether its tools are halted,
and `mem`, the live `RunOutcome` of its recorder, which a crash forgets. `world`
counts what really happened outside: how often the message of an intent was
handed to a channel, whether it arrived, how often each tool acted. The code
does not have this variable; the properties compare the tables with it.

One action is one transaction, or one stretch between two transactions, of the
handler. `turn` names the intent whose handler is inside a synchronous stretch:
while it is not 0 no other handler and no caller may step, as in the event loop,
but `Crash` may. Points in `AsyncPoints` are awaits (and `ended`, the
promise callback that follows), where everything may interleave. A native delivery
awaits twice, its session before the append and the append before the operation is
recorded (`delivery.ts:98`, `100`); with SQLite these waits last no longer than the
queue of microtasks, but other handlers are in that queue too.

| Actions | Code |
|---|---|
| `IssueGrant`, `RevokeGrant`, `ControlTask`, `Supersede`, `Tick` | `issueGrant`, `revokeGrant`, `controlTask`, a revision of the producing schedule, the clock |
| `Submit`, `RetryDelivery` with `Accept` | `accept`, `retryDelivery` |
| `Collect` | `collect` |
| `Claim`, `Refuse` | `#pump`, `runnable`, `claim` |
| `Begin`, `BeginRefused`, `EndRun`, `Finish` | `executeBackground`, `beginRecording`, `recorder.finish`, `finish` |
| `StartModel`, `ModelRefused`, `ReplyText`, `ReplyFailed`, `Defer`, `Deadline` | the agent loop, `consume`, `retryModel`, the deadline controller |
| `ToolRefused`, `CallTool`, `OpenTool`, `DenyTool`, `RunExternal`, `RunLocal`, `AnswerTool`, `CloseTool` | the tool runtime with `authorize`, `startOperation`, `transactionalTool`, receipts |
| `SaveResult`, `Deliver`, `PermitRefused`, `StartSend`, `HandOut`, `AnswerSend`, `ReportSend` | `sendIntent` through a channel |
| `AppendNative`, `OpenNative`, `StampNative` | `sendIntent` into a native session |
| `Crash`, `Reconcile`, `RecoverRuns`, `RecoverIntents` | a kill of the process and `recoverRuns()` |

### Schedules and the code

`sched` and `occ` are the tables `agent_schedules` and `schedule_occurrences`;
an occurrence carries the state of the intent it led to, because overlap and the
limits of `accept` look at it. `fired` counts the occurrences of a schedule, so
its n-th occurrence is `occ[s][n]`. `tick()` selects the due rows once and
handles each in a transaction of its own without awaiting anything: `StartTick`
selects (`pass`), `Stop`, `Fire` and `Postpone` are the three ways one of these
transactions ends (authorization or budget gone; an occurrence, skipped or
accepted; rolled back by a limit). Only `Crash` comes between them. `Moved` is
the row after an occurrence. `CreateSchedule` and `UpdateSchedule` are the calls
of users and tools; a revision leaves accepted intents to be refused when they
are claimed (`InForce`). `Claim`, `Settle` and `Crash` do to an intent what
`Execution` models in detail. "done" and "blocked" are one state here.

All schedules stand under one grant. The page of 100 rows of a tick, and the
quota on the number of schedules, are left out. A zone has one summer time; the
unit of time is the minute, a day has `Day` of them.

### The other state machines and the code

* **`Gate`.** `Admit`, `Enqueue` and `Refuse` are the three ways `run()` of the
  gate answers; `BeginRun`, `RecordingFails` and `FinishRun` what the operation
  does; `Release` hands its slot on. An operation settles before its slot is
  freed, and its caller may dispatch again in between. `Dispose`, `GraceOver` and
  `Disposed` are `dispose()` of the coordinator.
* **`Inbox`.** `ModelBoundary` and `ToolBoundary` are the places where the loop
  looks at the inbox, `RecordRequest` the point after which an input counts as
  consumed. `Interrupt` ends an attempt anywhere; the next one starts from the
  rows.
* **`Tasks`.** `UpdateTask` with `reports` is a run that completes its task;
  `ReadTask` adopts a revision, `ListTasks` only shows it.
* **`Interaction`.** The handler of one event in its three parts, `ResumeStep`
  (what `recovery.ts` finds), `AgentStep` and `SendStep`, with `Kill` between
  any two writes, `Redeliver` by the platform, and `Dispatch` by the pump for
  hosts with a queue.
* **`Intake`.** `RouteDelivery`, `Recognise`, `Found`, `Join`, `Turned`: the
  paths of a delivery with a queue; `AttributeDelivery`, `AcceptPlain`,
  `RecordAttribution`: without one. Deliveries overlap at their awaits.
* **Conversation stores.** A request is one step, with its idempotency key.
  `ConversationSqlite` rolls back what is refused, `ConversationMemory` keeps
  what was stored before the refusal, which is the difference between the two.
* **`ContextGraph`.** An author prepares a commit from what it saw, sends it, may
  lose the answer and send it again.
* **`Records`.** `AcceptMessage` resolves sender and workspace, `Carry` carries
  the command of a message out, as often as its event is resumed.
* **`Maintenance`.** Backup and restore file by file, `Die` and `Rot` anywhere;
  `StartSource` and `StartRestored` pass the doors a runtime passes.
* **`Transport`.** Every callback of every socket that was ever created may
  come at any time, also of one that was replaced.
* **`Host`.** `tail` is `#enqueueLifecycle`; `step` is how far its first
  operation is. Start, reload and stop may fail at each await that can throw.
* **`Assets`, `Capabilities`, `Artifacts`.** Files and rows are written in
  separate steps and the process may die between them.
* **`Watching`.** A page with its two subscriptions and the page of events it
  reads, over a journal that grows and a stream that may break.
* **`Saving`.** `BeginSave` reads, `CheckSave` looks at the revision again,
  `WriteSave` renames; `EditOutside` is somebody with an editor. `applyChange` is
  two functions along a path: the nodes its loop meets or makes (`NodesMade`) and the
  trees it makes of them from the last to the whole (`Remade`).

### Rules: functions checked against their meaning

`Rules` states assumptions over bounded inputs that TLC evaluates when the run
`parts` starts. Each compares a definition with what it is for, not with itself.

| Assumptions | Question |
|---|---|
| `RoutingSound`, `AttributionSound` | Does naming the bot ever silence a message; can a message be put on a closed line? |
| `BudgetSound`, `HistorySound`, `MemoriesSound`, `ContextScoped` | Does what a model is given fit, contain what is required, and stay on its line? |
| `CompilationSound`, `ArchivesSound` | Does a skill give a call a tool it would not have; do all files of an archive lie below its directory and in its limits? |
| `MigrationSound` | Does every row of an older database keep its meaning, and is opening twice the same as once? |
| `PrecedenceSound`, `LoadingSound`, `ConnectionSound`, `EditingSound` | Which source wins; is a masked secret ever written back; does a save change what it was not asked to? |
| `CqTextSound`, `EventsSound`, `OfficialEventsSound` | Does a text read back as the segments it was made from; is one message one event? |
| `ReceiptsSound`, `OfficialSound`, `TokensSound`, `CallbacksSound` | Does a receipt "failed" mean that nothing was sent; is a token used after it ran out; which callbacks are answered? |
| `TranscriptSound` | Is a message on the transcript once, whatever is appended again, alike in both stores? |
| `PagesSound`, `LinesSound` | Do the pages of a list show every row once and in order, whatever changes in between? |
| `TracesSound`, `GraphsSound` | Does the chain of an event lead from a first cause to it; is a graph that was cut off complete up to its boundary? |

### Abstractions

* A transaction is one step: SQLite either commits or not.
* Time is relative. In `Execution` a grant has a remaining life, an intent a
  remaining backoff and an age that saturates just above `Retention`. `Tick`
  moves all of them, at any await, so every order of expiry and step is
  possible. Elsewhere a timer is a step that may come at any time.
* Texts, tool inputs and messages are abstracted. A tool is a member of
  `External` or `Local`, a call is identified by its number in the run; a model
  may ask for any of them at any time, or for another one than in the attempt
  before, which is what makes replay interesting. Tools that only read are
  covered by a local call that changes nothing. In `Routing` and `Channels` a
  text is the set of patterns it matches or a sequence of tokens, in
  `Composition` its size.
* A collected intent keeps its position in `Intents` so that its run, which the
  code keeps by the identity of the request, can be found by a successor
  (`Predecessors`).
* `reconcile` can also take a receipt from a native line event; `receipt()` is
  written before that event exists, so this path never has anything to add and
  is left out.
* `Intake` judges a message as the router does, but a run's end is one step
  (`RunMoves`). In `Watching` an effect that is due runs before a subscription
  opens, which takes half a second at least, and the journal only grows, so the
  answer 409 never comes. In `Artifacts` a reply that is given up while its
  upload goes on keeps its maker busy until the platform has answered. In
  `Channels` a platform that refuses a call is taken to have done nothing. In
  `Assets` times of references grow strictly.
* Branches that no state reaches are kept out of the model or noted in it:
  `Interaction` never finds an answer that was delivered where it looks for a
  run's result only, and never ignores an event it dispatches.

### Bounds

`MaxIntents`, `MaxCrashes` and the age of intents are bounds of the model.
`MaxAttempts`, `MaxModelCalls`, `MaxToolCalls`, `MaxPending`, `MaxRunsPerHour`,
`MaxRunsPerGrant` and `MaxConcurrent` are limits of the program itself, given
small values. In `Schedules`, `Horizon` ends time, `MaxRevision` the revisions
and `MaxCrashes` the kills; the other constants are settings of the program. In
the other machines `MaxSteps`, `MaxRevision`, `MaxAssemblies`, `MaxRequests`,
`MaxTries`, `MaxKills`, `MaxDrafts`, `MaxVersions`, `MaxJournal`, `MaxFaults`,
`MaxMade`, `MaxDeaths`, `MaxOutside`, `MaxMain`, `MaxBranch`, `MaxResults` and the
sets of operations, sockets, calls, deliveries and saves are bounds; `Concurrency`,
`MaxQueued`, `Quota`, `Page`, `PageSize`, `CommitQuota`, `Rooms` and `StorageQuota`
are limits of the program.

`CHECK_DEADLOCK` is off where a bound stops what nothing stops in the program,
and in the machines that end: a disposed gate, a stopped host, a concluded run.
It is on in all runs of `Execution`.

## 3. Runs

| Run | Instance | Question | Shows |
|---|---|---|---|
| `run` | 1 request, an external tool and `runtime.finish`, 2 attempts, 2 tool calls, both deliveries, 2 crashes | What can a run do to the world, wherever it is killed? | `Inv`, `SentOnce`, `VerdictMatchesWorld`, `ResultFinal`, `UnknownNotResumed`, `SentAuthorized`, and `EffectsPromised`: `Execution` implements `Effects` |
| `queue` | 2 requests of persons for 1 task, 2 slots, 2 attempts with backoff, a tool that completes the task, pauses, revocation; fairness | Can a task get two advancers, and does who waits for a rival get his turn? | `SingleAdvancer`, `EverySettles` |
| `collect` | up to 3 requests of agents with `runtime.finish`, 2 grants, expiry, collection, retry of deliveries, 1 crash | What outlives the records? | `RetryOnlyDelivers`, `GrantBudgetKept`, `VerdictFinal` |
| `live` | 1 task, 1 slot, an agent and a reminder that wait for it, or one of them and the retry of the reminder's delivery or a request after collection; backoff, pauses, superseded schedule, 1 crash; fairness | Does accepted work settle? | `EverySettles` |
| `tick` | 2 schedules (one of a task, one skips overlaps, the other misses), three kinds of rules, 2 revisions, 2 occurrences, 1 crash, fairness | Do occurrences follow one another, whatever is late, revised or full, and does every schedule end? | `InOrder`, `OneAtATime`, `EveryEnds` |
| `stores` | either store, 2 sessions at 1 place, 1 branch, a fact, keys of which two collide, 3 events on the main line | Do both stores keep one contract? | `KeepsContract` (refinement of `Ledger`), `PublicationsSound` |
| `stored` | five machines one at a time, see below | Is what is stored read again as it was meant, after crashes? | `HandledOnce`, `SaidIsRecorded`, `VerdictTrue`, `AnswerNotRepeated`, `GraphAnswers`, `UploadsStable`, `ShownIsBound`, `WatchedWhole`, `FilesKept` |
| `parts` | ten machines one at a time, see below; the assumptions of `Rules` | Do the components next to the core keep what it relies on? | `DisposedIdle`, `WaitersServed`, `InputsHeard`, `CompletedOnGoal`, `StatusOfCurrent`, `WaitsEnd`, `ClosedUnused`, `RestoredWhole`, `OneVersionPerRun`, `StoresAgree`, `CommandsRepeatable`, `EachHeardOnce`, `EditsKept` |
| `local` | 1 local tool, 2 crashes | Does a confirmed local transaction always let the run resume? | It does not: finding 1 |
| `throw` | 1 external tool, 1 crash | Can a success cover an unknown outcome? | In the run's verdict it can: finding 2 |
| `dst` | 1 daily schedule, a late tick in a repeated hour | Does a local time fire once a day? | It may fire twice: finding 3 |
| `hidden` | 1 asset, 1 run of a task, 1 upload | Does a run read on after a removal? | A run of a task does not: finding 4 |

Some properties are conjunctions, named for what they say together:
`InputsHeard` (`ActsInformed`: no action starts that was decided without an input
accepted before it; `ConsumedIsKnown`: what counts as consumed is in the request),
`HandledOnce` (`RepliedOnce`, `ActedOnce`), `GraphAnswers` (`CommitsAnswered`,
`PathsFaithful`), `FilesKept` (`UploadedOnce`, `NothingLeft`), `PublicationsSound`
(`PublicationsLinked`, `RecoveryComplete`).

Why these bounds are enough to be interesting:

* `run`: two crashes allow a crash in the attempt that follows a
  recovery or during the recovery itself, which is where a single crash is
  already handled; two tool calls allow an unknown call followed by another
  one, and a call whose replay differs; two attempts are the least with a
  resumed run, and the second is the one that may repeat something.
* `queue`: two rivals for a task exhibit every order of two advancers. With two
  slots only the rival holds the second one up; that slots are short is what `live`
  adds. Its persons use each key once, in a fixed order (`Persons`): exchanging keys
  changes nothing, and requests after collection are in `live` and `collect`.
* `live`: with two requests and one slot one of them waits for the slot, for the
  backoff of the other or for a restart, and a grant that lives for two ticks lets a
  deferred attempt come back. One crash interrupts one of them while the other
  waits. Who asks for what is narrowed (`PersonAndSchedule`: one key for an agent,
  one for the reminder of a schedule, which alone can be superseded); only `Submit`
  and `Supersede` feel that, so no fair step is held up.
* `collect`: three requests under two grants allow an intent to be collected, asked for again, and retried
  while a grant is still alive.
* `tick`: two schedules compete for queue, rate and budget; two occurrences are
  the least that can be out of order or overlap; the horizon leaves room for a
  tick that is late by more than an interval, and the repeated time lies on both
  sides of the clock change.
* `stores`: two sessions that want one place, and keys that are used for two
  things, are what idempotency and conflict are about; a result that is made
  again while the first is published needs two results.
* `stored`: three kills and four deliveries of one event allow a kill in the
  recovery of a recovery; two authors race for two refs with a quota that is
  reached; two uploads overlap in a room of one or two blobs; two runs share a
  journal with a page size of one and one fault of the stream; two runs want one
  container and one name, with one death of the process. They make one file each:
  of several files of one delivery only the theorem speaks.
* `parts`: four operations of two runs meet one slot and a queue of two; the
  inbox and its quota are smaller than the messages; three revisions of a task
  with two runs; two sockets and two calls; two reloads with requests in
  flight; every file of a deployment kind; two versions of a package under two
  installers; two people, two messages of one identity and six commands; three
  overlapping deliveries of three messages of one sender (that a message is heard as
  its own person's when senders differ, the theorem says); four saves and one writer outside.

`run` covers a channel whose report is true: "succeeded" means that the message
arrived and "failed" that it did not, "uncertain" may be either. This is the
contract of the channel interface, and `VerdictMatchesWorld` rests on it;
`ReceiptsSound` and the observations below say how far the adapters keep it.

### Fairness

`FairSpec` of `Execution` assumes weak fairness of

* the pump as a whole: the poll timer calls `#pump` again and again, so
  something that can be claimed all the time is claimed, but nobody says which;
* every started handler: the event loop runs what is ready, and every await
  ends, because model calls and tools stand under the deadline of the run and
  delivery under its own abort signal (`withAbort`);
* time, and the restart of a process that was killed.

`FairSpec` of `Schedules` assumes that the poll timer starts ticks again and
again and that a started tick runs to its end (weak fairness), and that time
passes however often the timer fires (strong fairness: a tick with a full queue
is enabled again at the same moment and would disable `Advance` for ever under
weak fairness). `EveryEnds` rests on time and ticks alone, not on intents that
are settled.

`PartsFairness` assumes of the gate that an admitted operation begins, that the
deadline of a run fires, that an aborted operation settles (its signal races
with whatever it waits for), that a slot of a settled operation is freed and
that `dispose()` ends when it can; and of the socket that its connect timeout
and the timeout of each call fire. All of them are timers or promise callbacks.
Nothing is assumed of the peer, of operations that are not aborted, or of who
calls.

Nothing is assumed of users, grants, tasks or collections. Crashes are not fair
and bounded by `MaxCrashes`; a system killed for ever settles nothing.

## 4. Proofs

### Execution

Everything is proved from `ExecutionAssumption` only: grants exist, external
and local tools differ, the limits are natural numbers and the attempts, slots
and budgets positive. Any number of requests, tasks, grants, tools, attempts
and crashes is covered.

`Inv` is `TypeOK` and, for every request,

* `Owned`: a synchronous stretch owns the event loop, a handler in the middle
  of its work belongs to a claimed intent, nothing runs before recovery ended;
* `Untouched`: nothing exists before acceptance, no operation after collection;
* `Handed`: what the delivery operation says about the message, point by point;
* `Called`: the same for tool calls;
* `Remembered`: a handler knows, in its live outcome, every unknown effect of
  its run, and queued or finished work has none.

It is needed because none of the properties is inductive. That a message leaves
once depends on the operation row being `started` exactly while the handler is
between `StartSend` and the answer. That unknown work is never resumed depends
on the verdict of the live outcome, hence on `Remembered` through every event
the handler observes. `Owned` gives that a stretch is not interleaved.

| Theorem | States |
|---|---|
| `TypeCorrect`, `Invariance` | `Spec => []TypeOK`, `Spec => []Inv` |
| `SentOnceHolds` | `Spec => []SentOnce` |
| `SingleAdvancerHolds` | `Spec => []SingleAdvancer` |
| `UnknownNotResumedHolds` | `Spec => UnknownNotResumed` |
| `EffectsPromisedHolds` | `Spec => EffectsPromised`, the refinement of `Effects` |
| `VerdictMatchesWorldHolds` | `Spec => []VerdictMatchesWorld` |
| `RetryOnlyDeliversHolds` | `Spec => []RetryOnlyDelivers` |
| `GrantBudgetHolds` | `Spec => []GrantBudgetKept` |
| `VerdictFinalHolds`, `ResultFinalHolds` | `Spec => VerdictFinal`, `Spec => ResultFinal` |
| `SentAuthorizedHolds` | `Spec => SentAuthorized` |

The proof has one step per action and under it one per conjunct the action can
disturb; the lemmas on `Outcome` (what an event does to the verdict) are
the bridge between the handler's memory and the tables. The refinement maps a
request to the phase of its intent, the presence of unknown operations and the
count of deeds; each action is shown to be one of the abstract steps for each
request, from `Inv`.

`Inv` speaks of what is under way; what has been recorded needs a second
invariant on top of it. `History` says of every request (`Past`)

* `Judged`: a run is `running` exactly while a handler works on it or until the
  recovery has judged it, so that a verdict is written once (`VerdictFinal`);
* `Kept`: while the agent is asked there is no result, and a result about to be
  saved is the stored one, if there is one (`ResultFinal`);
* `Permitted`: where a message is about to leave through a channel, its
  authorization has just been seen in the same stretch. A native message leaves
  after its session was awaited; `SessionAsked` shows that this wait begins under an
  authorization only, and both together are `SentAuthorized`: without authorization
  nothing leaves and no native delivery begins, but one that is waiting goes on;
* `Receipted`, `Reported`: what the delivery operation and, through the fold of
  the trace, the verdict say about the arrival of the message;
* `Rejected`: a run marked as refused ends as a failure and its message never
  arrived (with `Reported`, `VerdictMatchesWorld`);
* `Granted`: records are collected under dead grants only, and a grant is
  issued once. `GrantBudgetKept` follows: while a grant lives none of its
  intents is collected, so `accept` counts them all, and a dead one gets no more;
* `Retried`: the retry of a delivery finds the result it is about as long as it
  can run (`RetryOnlyDelivers`), because the original is collected no earlier
  than their common grant dies.

### Schedules

From `SchedulesAssumption` and `ZoneAssumption`: rules are legal, limits are
numbers, budgets positive; any zone with one summer time. `NextTimeLater` states
that `nextScheduleTime` answers a moment strictly after its baseline, or none.
From it, `SchedulesInv` is inductive: `TypeOK`, `InOrder`, `OneAtATime` and

* `Counted`: `fired` counts the occurrences, so the next one has a free number;
* `Timely`: what was taken was due, and not in the future;
* `Ahead`: a schedule that may still fire looks past all it has taken, which
  revisions, resumptions and late ticks have to keep, each for its own reason;
* `Selected`: what a tick has selected is still due when its turn comes.

| Theorem | States |
|---|---|
| `ScheduleTypes` | `Spec => []TypeOK` |
| `OccurrencesInOrder` | `Spec => []InOrder` |
| `NoOverlap` | `Spec => []OneAtATime` |

### The components next to the core

`Parts_proofs`, `Stored_proofs` and `Conversation_proofs` give each component an
inductive invariant, for any number of its actors; the assumptions are those its
module states (`GateAssumption` and so on: limits are numbers, at least one slot, a
page that holds the quota of supplements, sets of files, people and messages that are
finite where they are counted; no answer of an agent is one of the marks for "none",
"silent" and the notice of a failure, no run is the mark for "nothing"; the saves of
`Saving` change different parts of the file, each a place below objects, not one inside
a list, and what others write is a part of its own).

| Component | Invariant | What it adds to the property, and why |
|---|---|---|
| `Gate` | `GateInv` | `SlotsCounted`, `LineOfWaiters`: the active count is the number of slots taken, the queue holds each waiter once; `WaitedFor`: what still runs when the gate closes is among what `dispose()` waits for |
| `Inbox` | `InboxInv` | `LoopComplete`: the loop holds all inputs up to its last one, and after its first look every consumed input. A page is never cut, since the quota on supplements is smaller (lemma `InputsComplete`) |
| `Tasks` | `TasksInv` | `GoalsKept`: the goal of a revision stays until it is revised, and nobody has adopted a revision to come |
| `Transport` | `TransportInv` | `PledgeShared`: the one promise that calls of `connect()` share is that of the socket in use |
| `Host` | `HostInv` | `StepsInTurn`, `StartFirst`: each step belongs to the operation at the head of the queue, the start comes first; `ShutDown`: what stop has done at each step; `Calm`: no webhook enters while an assembly is replaced; `Attached`, `OneAssembly` |
| `Maintenance` | `MaintenanceInv` | `ManifestTrue`: a manifest is written last, of a sound copy; `MarkedUntilWhole`: a directory bears a marker unless it is empty or whole; `CopiedSoFar` |
| `Capabilities` | `CapabilityInv` | `UsesPinned`: a run uses what it pinned from its first prompt on; `SnapshotFirst`: an install is recorded after its snapshot is in place |
| `Records` | `RecordsInv` | `SameStores`: both memories hold the same rows; `OwnRecord`, `AnsweredOnce`: what the tables show after a command was answered, which is why carrying it out again changes nothing |
| `Intake` | `IntakeInv` | `UnderWay`: what a handler has read before each of its awaits; `Receipts`: a message has a receipt exactly when it has its event; `OneRun`, `HeardOnce` |
| `Interaction` | `InteractionInv` | Six parts, below |
| `Assets` | `AssetInv` | `OnePlacing`: of the writes that have measured one at a time places, and what it measured still holds; `BlobFirst`: a blob is placed before its version; `OneContent`: what repeats an upload repeats the content it has published; `ReadsBound`: a read of a bound run reads what it is bound to |
| `Artifacts` | `ArtifactInv` | `Claims`: a file that is uploaded is claimed by one call, which alone knows whether the group has it; `Reported`: traces and texts repeat receipts, and receipts say what the group has; `Slots`, `OneIdEach` |
| `Watching` | `WatchInv` | `EventsNumbered`: the events of a run are numbered without a gap; `CacheGapless`, `AnswerGapless`: neither what is cached nor the answer in flight misses an event below the number to read from, whatever the stream adds or a reset takes away before the answer arrives; `PassedRead`: an event the page's own stream has passed is read, or the timer, a request or an error says that it will be |
| `ContextGraph` (commits) | `CommitsInv` | `SeenOnce`: a version stands for one head of its ref, so a commit that is let in continues what its author saw; `RefusedUnstored`: a refusal answers a request that stored nothing, also when it is sent again |
| `ContextGraph` (paths) | `PathsInv` | `Acyclic`: a commit's parents are older and differ; `HeadsExist`: a ref names a commit there is. With them the walk from a head and the sorting of what it took are correct in every graph, below |
| `Saving` | `SavingInv` | `SavesInTurn`: each save waits once in the queue and only the one in turn is under way; `NextHolds`: what a save is about to write holds all that was saved before it, and what others wrote before its last look |
| `ConversationStores` | `ConversationInv` | Five parts, below |

| Theorem | States |
|---|---|
| `SlotsCountedHolds` | `GateSpec => [](SlotsCounted /\ LineOfWaiters)` |
| `DisposedIdleHolds` | `GateSpec => []DisposedIdle` |
| `InputsHeardHolds` | `InboxSpec => []InputsHeard` |
| `CompletedOnGoalHolds` | `TasksSpec => []CompletedOnGoal` |
| `StatusOfCurrentHolds` | `TransportSpec => []StatusOfCurrent` |
| `ClosedUnusedHolds` | `HostSpec => []ClosedUnused` |
| `RestoredWholeHolds` | `MaintenanceSpec => []RestoredWhole` |
| `OneVersionPerRunHolds` | `CapabilitySpec => []OneVersionPerRun` |
| `StoresAgreeHolds`, `CommandsRepeatableHolds` | `RecordsSpec => []StoresAgree`, `RecordsSpec => CommandsRepeatable` |
| `EachHeardOnceHolds` | `IntakeSpec => []EachHeardOnce` |
| `HandledOnceHolds`, `SaidIsRecordedHolds` | `InteractionSpec => []HandledOnce`, `... => []SaidIsRecorded` |
| `VerdictTrueHolds` | `InteractionSpec => []VerdictTrue` |
| `AnswerNotRepeatedHolds` | `InteractionSpec => AnswerNotRepeated` |
| `UploadsStableHolds`, `ShownIsBoundHolds` | `AssetSpec => []UploadsStable`, `AssetSpec => []ShownIsBound` |
| `FilesKeptHolds` | `ArtifactsInit /\ [][ArtifactsNext]_artifactVars => []FilesKept` |
| `WatchedWholeHolds` | `WatchInit /\ [][WatchNext]_watchVars => []WatchedWhole` |
| `CommitsAnsweredHolds`, `GraphAnswersHolds` | `ContextSpec => []CommitsAnswered`, `ContextSpec => []GraphAnswers` |
| `EditsKeptHolds` | `SettingsSpec => []EditsKept` |
| `ConversationInvHolds` | `Spec => []ConversationInv` |
| `PublicationsSoundHolds` | `Spec => []PublicationsSound` |
| `KeepsContractHolds` | `Spec => KeepsContract`, the refinement of `Ledger` |

An interactive event is resumed from four records that are written one after the
other, by handlers that may be killed or throw between any two writes, so the
invariant says for each point of the handler what the records show there:

* `Answering`: a handler works on an agent only where no record has an answer
  (`AnswerNotRepeated`), and it delivers a text;
* `Saids`: the text is on the line before the platform is given anything
  (`SaidIsRecorded`);
* `Acts`: a call is on record, on the line or as an operation, before it acts, so
  that a later handler finds it;
* `Arrivals`: while a reply may have arrived the row says `send_started`, or it is
  completed; nobody resumes such a row for another delivery. With `Acts` this gives
  `HandledOnce`;
* `Queued`: a durable run whose delivery was announced or noted is not queued again,
  because the verdict of a fold that has begun is never `interrupted` (lemmas
  `VerdictFacts`, `HeardFacts`). It also gives that a durable event has one fact;
* `Truth`: what the fold of the trace, and the one its recorder keeps, say of
  delivery, silence, open sends and failures is what the line and the platform show.
  The verdict is a function of the fold, hence `VerdictTrue` after `End`; a restart
  adds what operations, result, line and facts confirm, and lemma `JudgementFacts`
  shows the same of the fold it gets.

The conversation stores are proved from `ConversationAssumption` (sets of sessions,
branches and keys that do not meet, bounds that are numbers). `ConversationInv` is

* `Standing`: a session and its mainline stand and fall together, and a branch is a
  line of one session;
* `Keyed`: a key stands for one event of a line, and the key of a result for the
  event of a result that has a row. Idempotency is looked up by key, so this is what
  makes a repeated request find what it repeats;
* `Accepted`: a source is accepted once, and its fact lies where the acceptance says;
* `Numbered`: the results of a branch are numbered from 1 and have their event while
  their session can be written. The store in memory may keep a result it has refused
  to append, but only where the session is closed, which is why `RecoveryComplete`
  holds of it too;
* `Linked`: the three rows of a publication name each other, no two publications
  share a mainline event, and every result on a mainline has one.

Every request of either store adds at most one event at the end of each of some lines
(lemmas `LogAppended` and those on `Grows`), so each part asks only whether the new
events keep it; both stores share these lemmas and differ in what a refused request
leaves. The refinement maps a fact to the session of its line, a result to that of its
event, and what the mainlines show to what is published. `CreateSession` is `Open`, the
acceptance of a source `Take`, closing a session `Close`, a new result `Finish`, a
publication `Publish`; all other requests, and what the store in memory keeps of a
refused one, are steps that `Ledger` does not see.

What a read of the context or a save computes is defined by recursive functions: the
walk over the commits, the loop that sorts what it took, `applyChange` along a path.
The library's rules of induction cannot be used here (they take a formula as a
parameter), so two lemmas give what is needed of them with a set in its place:

* `LeastNumber`: a set of numbers that is not empty has a least one, from the
  well-foundedness of the strict subsets of a finite set;
* `CountUp`: a set of numbers that has 0 and with each number below `n` its successor
  has all up to `n`.

With them a recursive function over `0..n`, which is a `CHOOSE` until then, exists
(`LoopRuns`, `AtReads`, `NodesMadeAll`), and a loop keeps an invariant:

* paths of a context: `Walking` says what has been queued, taken and passed over after
  `k` commits, `Sorting` that exactly those selected commits are placed whose selected
  parents are among the first `k` placed, and after these. `WalkFaithful` and
  `SortedFaithful` give `PathsFaithful`, for graphs of any size and any limits;
* saves: `EditedMakes` says which nodes an edit makes along its path, `MakesWhole` and
  `SameFrom` that all that is not on it stays. `EditKeeps` (a form), `ChannelKeeps` (a
  channel) and `OutsideKeeps` say it of the three ways the file is written,
  `AppliedKeeps` that a save puts what was asked and keeps whatever lies apart. Nothing
  bounds the depth of the file.

The theorems are about the machine of one component. The run `parts` checks the
same properties on `MCParts`, whose behaviours are those of one machine each.

### Only model-checked

* Liveness is out of the prover's reach: `EverySettles`, `EveryEnds`,
  `WaitersServed`, `WaitsEnd`.
* What the functions of `Rules` compute: they fold with the operators of the
  community modules, whose recursion takes an operator as a parameter and cannot be
  expanded by the prover, or recur over trees. They are checked on bounded inputs.

All other properties of the passing runs, invariants and action properties, are
theorems.

## 5. Findings and observations

1. **An interrupted local transaction may block a run** (`local`).
   `reconcile` appends a receipt under a key of the operation; if the same local
   call is interrupted in two attempts, the second receipt is taken for the
   first, and the run is folded to `uncertain` although nothing external
   happened. The comment at `execution/store.ts:729` promises the opposite.
2. **A success may cover an unknown outcome in the trace** (`throw`). The
   outcome of an external tool that throws an ordinary error is remembered by
   the attempt, not by the trace. Killed before the attempt is closed, the run is
   recovered as `succeeded`. The queue is not deceived, since it reads the
   operation; only the verdict of the run is wrong (`trace/outcome.ts:3`).
3. **A daily schedule may fire twice in a repeated hour** (`dst`). Hits on the
   day of the baseline are left out only if the wall clock of the baseline is
   past the time; in the second pass of a repeated hour it may show an earlier
   one, although the first pass fired. It takes a tick that comes late (a
   process that was down). The comment at `execution/time.ts:3` and the test
   `tests/integration/runtime/autonomy.test.ts:686` promise once a day.
4. **A run of a task cannot read on after a removal** (`hidden`). A read of a
   run with a task refers the task to the version too, and that call refuses a
   removed asset even if the reference exists (`assets/service.ts:325`).
   `docs/reference/resources/assets.md:19` says that runs with a fixed reference
   go on using the old version; runs without a task do.

Observed, and either consistent with the documents or not spoken of in them.

Execution and schedules:

* `revokeGrant` blocks queued intents and leaves their runs `accepted` or
  `interrupted`; `Refuse`, in contrast, ends the run.
* `beginRecording` throws for a run that already ended (`BeginRefused`), after
  the controller and the timer of the attempt were created.
* A tick that finds the task of a schedule paused cancels the schedule; resuming
  the task does not bring it back.
* A completed schedule whose next time lies behind its expiry, or whose grant is
  gone, can no longer be cancelled (`updateSchedule` refuses), so intents it
  still has stand until they are settled.
* A native delivery is not authorized again after it awaited its session
  (`delivery.ts:95`, `98`, `100`): a revocation, a pause or a revision that falls into
  this wait does not stop the append, although the comment on `validateIntent`
  (`execution/store.ts:497`) has authorization checked at each side effect. A channel
  is checked after the wait for its permission (`delivery.ts:84`, `95`), with no wait
  between that check and the record of the operation.
* Two explicit retries of one delivery with different keys may both send.
* A request accepted again after its intent was collected may do external work
  again under a new grant if its old run was interrupted, since the operations
  were collected with the intent.
* A supplement accepted while the model generates the last answer of a run is
  never adopted by it; it stays in the transcript.

Intake, records, conversation:

* The look for the run of a message comes before a wait and its acceptance after
  it (`runtime-core.ts:588`); both deliveries of a message may get that far, and
  only the keys of the store tell them apart.
* `/workspace use` answers that the workspace was switched, but the workspace of
  a session that exists never changes (`runtime-core.ts:569`, `783`).
* The key of an explicit promotion does not contain the channel
  (`memory/promotion.ts:28`), so equal names in two channels share a memory.
* `resolveIdentity` never updates the type of an identity, and `ResourceIngress`
  resolves any sender of a file as a guest.
* The store in memory keeps what it stored before a request is refused
  (`conversation/in-memory.ts:214`); a crash between `createBranch` and the fork
  of its ref leaves a branch without one (`runtime/workspace.ts:193`).
* The transcript in memory tells kinds apart in its key and SQLite does not;
  their callers use different sources, so both agree. Of several messages with
  one external name, memory finds the oldest and SQLite the newest.
* A platform message without name and time is a new message at each delivery.

Host, configuration, channels:

* A notice about a file may be written after `dispose()` (`runtime-core.ts:425`);
  a reload that was asked for before a stop waits behind it.
* A patch of a channel and a reload are not in one queue (`channel-manager.ts:134`).
* A webhook that does not wait is confirmed before its event is handled
  (`qq-official-webhook.ts:113`).
* A catalog that is told to wait takes the latest `Retry-After`, also if it is
  shorter than what it was told before (`catalog.ts:68`).
* The roots of `files.mounts` in the workspace's and the user's configuration are
  resolved against the directory of the deployment's file (`loader.ts:200`),
  although each source keeps its own directory (`loader.ts:87`).
* A listener of `ConfigManager` that sets a value inside a notification is itself
  told the older value last.
* The official channel reports any answer that is not OK as failed, also a 5xx.
  OneBot makes unknown parts of a list "unknown" segments and unknown CQ codes
  text; a message of files with only a mention or a reply besides succeeds
  without sending the rest.

Files:

* Two crashes in a row may leave both revisions of a file final
  (`artifacts.ts:130`); the recovery event of an automatic upload is keyed once
  per run (`recover-tools.ts:79`).
* A list of assets by their last change may miss one that changes while it is
  read page by page.

## 6. Not modelled

* The wording of prompts, replies and notices; the output policy; redaction.
* Parsing and validation of the protocol, of signatures and of uploads; HTTP.
* The user interfaces beyond how a page follows a run: they present the
  administration protocol and keep no state the runtime depends on.
* The insides of tools, models and platforms, which the execution layer sees as
  calls with an answer. Web and MCP tools are calls that may act once and
  answer, fail or not answer.
* Patches of a single channel against a reload, concurrent refreshes of a
  platform token, a profile store used by several processes, listeners of
  `ConfigManager`, MCP connections of capabilities.
* The quotas on bytes of the execution store, its listing queries, the page of
  100 due schedules and the quota of schedules.
* The window between the last look of a save and its rename, in which a writer
  from outside is overwritten.

`PROJECT.json` says of each component what is left out of it.

## 7. Plan

1. `Execution` with `Effects`, `Schedules`, and their proofs (done).
2. The components next to it as state machines, the functions with `Rules`
   (done).
3. The recorded past of `Execution` and the components of `Parts_proofs` (done).
4. What is stored: `Interaction`, `Assets`, `Artifacts` (done), and the
   conversation stores with the refinement of `Ledger` (done).
5. `Watching`, the commits and paths of `ContextGraph`, and `Saving` (done). Every
   safety property of the runs is now proved.
6. A model of a channel patch that races with a reload, once the code says which
   of them should win.
