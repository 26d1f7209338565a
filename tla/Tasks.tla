------------------------------- MODULE Tasks -------------------------------
(* One durable task, the runs that advance it, a chat run of the same person *)
(* that may revise it and a user at the management interface                 *)
(* (execution/tasks.ts, execution/tools.ts, execution/store.ts claim and     *)
(* readTask).                                                              *)
(*                                                                         *)
(* Whoever changes the task names the revision it expects.  A run that       *)
(* reports a result also names, through its intent, the revision it adopted: *)
(* at its claim, or when it last read the task with task.get.  A model may    *)
(* learn a newer revision from task.list without adopting it.                *)
EXTENDS Naturals, FiniteSets

CONSTANTS TaskRuns,      \* runs accepted for the task
          MaxRevision    \* bound: revisions of the task

ASSUME TasksAssumption == MaxRevision \in Nat \ {0}

VARIABLES task,     \* the record in agent_tasks
          advance,  \* the intents of TaskRuns: state and taskRevision
          expects,  \* the revision each actor knows
          goals     \* history: the goal at each revision, by the revision that set it

taskVars == <<task, advance, expects, goals>>

TaskActors == TaskRuns \union {"chat", "user"}
TaskStatuses == {"open", "paused", "completed", "cancelled"}
TaskFinal(t) == t.status \in {"completed", "cancelled"}

TasksTypeOK ==
  /\ task \in [status : TaskStatuses, revision : 1..MaxRevision, by : TaskRuns \union {"none"}]
  /\ advance \in [TaskRuns -> [state : {"queued", "claimed", "done"}, revision : 1..MaxRevision]]
  /\ expects \in [TaskActors -> 1..MaxRevision]
  /\ goals \in [1..MaxRevision -> 1..MaxRevision]

\* createTask, then accept() for each run
TasksInit ==
  /\ task = [status |-> "open", revision |-> 1, by |-> "none"]
  /\ advance = [r \in TaskRuns |-> [state |-> "queued", revision |-> 1]]
  /\ expects = [a \in TaskActors |-> 1]
  /\ goals = [v \in 1..MaxRevision |-> 1]

\* the open task's revision is adopted, that of a task which is not open is kept
Adopt(r) ==
  IF task.status = "open" THEN [advance[r] EXCEPT !.revision = task.revision] ELSE advance[r]

\* validateIntent for a run of the task
Authorized(r) == task.status = "open" \/ (task.status = "completed" /\ task.by = r)

\* claim(): a run that is no longer authorized is blocked
ClaimTask(r) ==
  /\ advance[r].state = "queued"
  /\ \/ ~Authorized(r) /\ advance' = [advance EXCEPT ![r].state = "done"]
     \/ /\ Authorized(r)
        /\ \A other \in TaskRuns : advance[other].state # "claimed"
        /\ advance' = [advance EXCEPT ![r] = [Adopt(r) EXCEPT !.state = "claimed"]]
  /\ UNCHANGED <<task, expects, goals>>

\* the run ends, or is queued again after a model failure or a crash
LeaveTask(r) ==
  /\ advance[r].state = "claimed"
  /\ \E next \in {"queued", "done"} : advance' = [advance EXCEPT ![r].state = next]
  /\ UNCHANGED <<task, expects, goals>>

\* the tools' scope(): the run is claimed and still authorized
Acting(a) ==
  a \in TaskRuns => advance[a].state = "claimed" /\ Authorized(a)

\* task.list, and the management interface: the revision is seen, not adopted
ListTasks(a) ==
  /\ Acting(a) /\ expects[a] # task.revision
  /\ expects' = [expects EXCEPT ![a] = task.revision]
  /\ UNCHANGED <<task, advance, goals>>

\* task.get: readTask
ReadTask(r) ==
  /\ Acting(r)
  /\ expects' = [expects EXCEPT ![r] = task.revision]
  /\ advance' = [advance EXCEPT ![r] = Adopt(r)]
  /\ UNCHANGED <<task, goals>>

WrongConflict(a, status, reports) == task.revision # expects[a]

Conflict(a, status, reports) ==
  \/ task.revision # expects[a]
  \/ status = "completed" /\ reports /\ advance[a].revision # task.revision

Advance(next, revised) ==
  /\ task.revision < MaxRevision
  /\ task' = next
  /\ goals' = IF revised THEN [v \in DOMAIN goals |-> IF v >= next.revision THEN next.revision
                                                                           ELSE goals[v]]
                         ELSE goals

\* updateTask by a tool.  status "same": not given; revised: goal or acceptance
\* is given; reports: a result is given; none of them: progress.  Results, kept whether or not the
\* revision conflicts, are left out
UpdateTask(a, status, revised, reports) ==
  /\ a # "user" /\ Acting(a)
  /\ reports => a \in TaskRuns
  /\ status = "completed" => reports /\ ~revised
  /\ IF Conflict(a, status, reports)
       THEN UNCHANGED <<task, goals>>
       ELSE /\ ~TaskFinal(task)
            /\ Advance([task EXCEPT !.revision = @ + 1,
                          !.status = IF status = "same" THEN @ ELSE status,
                          !.by = IF status = "completed" THEN a ELSE @], revised)
  /\ UNCHANGED <<advance, expects>>

\* controlTask by the user
ControlTask(status) ==
  /\ task.revision = expects["user"]
  /\ ~TaskFinal(task)
  /\ status \in {"open", "paused", "cancelled"}
  /\ Advance([task EXCEPT !.status = status, !.revision = @ + 1], FALSE)
  /\ UNCHANGED <<advance, expects>>

TasksNext ==
  \/ \E r \in TaskRuns : ClaimTask(r) \/ LeaveTask(r) \/ ReadTask(r)
  \/ \E a \in TaskActors : ListTasks(a)
  \/ \E a \in TaskActors, status \in TaskStatuses \union {"same"}, revised, reports \in BOOLEAN :
        UpdateTask(a, status, revised, reports)
  \/ \E status \in TaskStatuses : ControlTask(status)

TasksSpec == TasksInit /\ [][TasksNext]_taskVars

\* A completed task was completed by a run that had adopted its goal as it now
\* stands: a goal revised after the adoption, even one the run has seen in a
\* list, turns the completion into a recorded fact (tasks.ts 176-185).
CompletedOnGoal ==
  task.status = "completed" => goals[advance[task.by].revision] = goals[task.revision]
=============================================================================
