------------------------------ MODULE Harness ------------------------------
(***************************************************************************)
(* The agent harness: the task graph (services/harness/tasks.py), the      *)
(* background runs that execute its tasks on a thread pool                 *)
(* (services/harness/background.py) and the HTTP handlers that call both   *)
(* (api/v1/endpoints/tasks.py).                                            *)
(*                                                                         *)
(* Handlers and pool threads run at the same time and share only the       *)
(* database and the executor's queue.  Every step below is what one thread *)
(* does between two points where another may get in: one SELECT, one       *)
(* commit, one call of the executor.  A run is followed from the request   *)
(* that starts it, through the queue, to the end of its pool thread;       *)
(* `stage' says where its one thread is.  An editor is a handler of        *)
(* PATCH /tasks/{task_id}.                                                 *)
(***************************************************************************)
EXTENDS TaskRows, Sequences, FiniteSets

CONSTANTS Runs, Editors,
          NoTask,          \* task_id of a run started without a task
          NoEdit,          \* an editor with no request in hand
          PoolSize,        \* max_workers of the ThreadPoolExecutor
          Creations,       \* the POST /tasks requests that clients may send
          Patches,         \* the PATCH /tasks/{task_id} requests they may send
          MaxFaults,       \* bound on database errors
          MaxCrashes       \* bound on process crashes

ASSUME HarnessAssumption ==
    /\ Runs \cap Editors = {}
    /\ NoTask \notin Tasks
    /\ PoolSize \in Nat \ {0}
    /\ Keep \notin BlockerBags \cup TaskStatus
    /\ Creations \subseteq [task : Tasks, bag : BlockerBags]
    /\ Patches \subseteq [task : Tasks, bag : BlockerBags \cup {Keep},
                          status : TaskStatus \cup {Keep}]
    /\ MaxFaults \in Nat
    /\ MaxCrashes \in Nat

Actors == Runs \cup Editors
\* A request being served, and whether its session has loaded every task.
Edits == [req : Patches, children : BOOLEAN]
ASSUME NoEditAssumption == NoEdit \notin Edits

VARIABLES tasks,      \* agent_tasks: a row for each task id
          runStatus,  \* background_runs.status
          taskOf,     \* background_runs.task_id, from the moment a start is accepted
          stage,      \* where the thread that works for a run is
          queue,      \* work items submitted to the executor and not yet taken
          seen,       \* the task rows loaded by the open session of each actor
          edit,       \* the PATCH request that each editor is serving
          faults, crashes,
          declared,   \* history: the blockers a task was created with
          done        \* history: tasks whose row has ever been completed

table == <<tasks, declared, done>>
vars == <<tasks, runStatus, taskOf, stage, queue, seen, edit, faults, crashes,
          declared, done>>

Terminal == {"completed", "failed"}
RunStatus == {"none", "pending", "running"} \cup Terminal

\* In the handler of POST /tasks/{task_id}/start, before the run is in the queue.
Starting == {"accepted", "created", "opening", "opened"}
\* On a pool thread.
Executing == {"picked", "running", "succeeded", "raised", "closing", "settling",
              "clearing"}
Stage == {"idle", "queued", "done", "dead"} \cup Starting \cup Executing

Exists(t) == tasks[t].status # "none"

Init ==
    /\ tasks = [t \in Tasks |-> Absent]
    /\ runStatus = [r \in Runs |-> "none"]
    /\ taskOf = [r \in Runs |-> NoTask]
    /\ stage = [r \in Runs |-> "idle"]
    /\ queue = <<>>
    /\ seen = [a \in Actors |-> Unread]
    /\ edit = [e \in Editors |-> NoEdit]
    /\ faults = 0
    /\ crashes = 0
    /\ declared = [t \in Tasks |-> {}]
    /\ done = {}

---------------------------------------------------------------------------
(* Sessions on agent_tasks.                                                *)

\* SELECT of one row, the first of its session.
Load(a, t) == seen' = [seen EXCEPT ![a] = [Unread EXCEPT ![t] = tasks[t]]]

\* SELECT of every row: one that the session already holds keeps its loaded values.
LoadAll(a, t) ==
    seen' = [seen EXCEPT ![a] = [u \in Tasks |-> IF u = t THEN seen[a][t] ELSE tasks[u]]]

Close(a) == seen' = [seen EXCEPT ![a] = Unread]

Commit(a, new) ==
    /\ tasks' = Flush(tasks, seen[a], new)
    /\ done' = done \cup {t \in Tasks : tasks'[t].status = "completed"}
    /\ Close(a)

---------------------------------------------------------------------------
(* Tasks: POST /tasks and PATCH /tasks/{task_id}.                          *)

\* Nothing is asked of the ids that a request lists: they may be of no task, or the
\* task's own.
Create(t, bag) ==
    /\ ~Exists(t)
    /\ tasks' = [tasks EXCEPT ![t] = NewRow(bag)]
    /\ declared' = [declared EXCEPT ![t] = Listed(bag)]
    /\ UNCHANGED <<runStatus, taskOf, stage, queue, seen, edit, faults, crashes, done>>

EditRead(e, p) ==
    /\ edit[e] = NoEdit
    /\ Exists(p.task)
    /\ Load(e, p.task)
    /\ edit' = [edit EXCEPT ![e] = [req |-> p, children |-> FALSE]]
    /\ UNCHANGED <<table, runStatus, taskOf, stage, queue, faults, crashes>>

EditReadAll(e) ==
    /\ edit[e] # NoEdit
    /\ edit[e].req.status = "completed"
    /\ ~edit[e].children
    /\ LoadAll(e, edit[e].req.task)
    /\ edit' = [edit EXCEPT ![e].children = TRUE]
    /\ UNCHANGED <<table, runStatus, taskOf, stage, queue, faults, crashes>>

\* A PATCH of blocked_by takes the dependencies into the client's hands: the
\* history says nothing more of them.
EditCommit(e) ==
    LET p == edit[e].req
    IN  /\ edit[e] # NoEdit
        /\ p.status = "completed" => edit[e].children
        /\ Commit(e, Patched(seen[e], p.task, p.bag, p.status))
        /\ declared' = IF p.bag = Keep THEN declared
                       ELSE [declared EXCEPT ![p.task] = {}]
        /\ edit' = [edit EXCEPT ![e] = NoEdit]
        /\ UNCHANGED <<runStatus, taskOf, stage, queue, faults, crashes>>

---------------------------------------------------------------------------
(* Starting a run: POST /tasks/{task_id}/start and /tasks/background-runs. *)

Goto(r, s) == stage' = [stage EXCEPT ![r] = s]

\* Mutant: start_task does not look at blocked_by.
Startable_StatusOnly(row) == row.status \in {"pending", "failed"}

Startable(row) == row.status \in {"pending", "failed"} /\ Listed(row.blockedBy) = {}

\* start_task reads the task and checks it; the session is closed again.
Accept(r, t) ==
    /\ stage[r] = "idle"
    /\ Startable(tasks[t])
    /\ taskOf' = [taskOf EXCEPT ![r] = t]
    /\ Goto(r, "accepted")
    /\ UNCHANGED <<table, runStatus, queue, seen, edit, faults, crashes>>

AcceptDetached(r) ==
    /\ stage[r] = "idle"
    /\ Goto(r, "accepted")
    /\ UNCHANGED <<table, runStatus, taskOf, queue, seen, edit, faults, crashes>>

CreateRun(r) ==
    /\ stage[r] = "accepted"
    /\ runStatus' = [runStatus EXCEPT ![r] = "pending"]
    /\ Goto(r, IF taskOf[r] = NoTask THEN "opened" ELSE "created")
    /\ UNCHANGED <<table, taskOf, queue, seen, edit, faults, crashes>>

OpenRead(r) ==
    /\ stage[r] = "created"
    /\ Load(r, taskOf[r])
    /\ Goto(r, "opening")
    /\ UNCHANGED <<table, runStatus, taskOf, queue, edit, faults, crashes>>

OpenCommit(r) ==
    /\ stage[r] = "opening"
    /\ Commit(r, SetStatus(seen[r], taskOf[r], "in_progress"))
    /\ Goto(r, "opened")
    /\ UNCHANGED <<runStatus, taskOf, queue, edit, faults, crashes, declared>>

Submit(r) ==
    /\ stage[r] = "opened"
    /\ queue' = Append(queue, r)
    /\ Goto(r, "queued")
    /\ UNCHANGED <<table, runStatus, taskOf, seen, edit, faults, crashes>>

---------------------------------------------------------------------------
(* The pool thread: _run_background.                                       *)

\* Mutant: a finished work item keeps its pool thread.
Busy_Leaks == {r \in Runs : stage[r] \in Executing \cup {"done"}}

Busy == {r \in Runs : stage[r] \in Executing}

Pick(r) ==
    /\ queue # <<>>
    /\ r = Head(queue)
    /\ Cardinality(Busy) < PoolSize
    /\ queue' = Tail(queue)
    /\ Goto(r, "picked")
    /\ UNCHANGED <<table, runStatus, taskOf, seen, edit, faults, crashes>>

MarkRunning(r) ==
    /\ stage[r] = "picked"
    /\ runStatus' = [runStatus EXCEPT ![r] = "running"]
    /\ Goto(r, "running")
    /\ UNCHANGED <<table, taskOf, queue, seen, edit, faults, crashes>>

\* AutomationFlow().run returns, or raises whatever it raises.
FlowEnds(r) ==
    /\ stage[r] = "running"
    /\ \E s \in {"succeeded", "raised"} : Goto(r, s)
    /\ UNCHANGED <<table, runStatus, taskOf, queue, seen, edit, faults, crashes>>

MarkTerminal(r, from, status) ==
    /\ stage[r] = from
    /\ runStatus' = [runStatus EXCEPT ![r] = status]
    /\ Goto(r, IF taskOf[r] = NoTask THEN "done" ELSE "closing")
    /\ UNCHANGED <<table, taskOf, queue, seen, edit, faults, crashes>>

MarkCompleted(r) == MarkTerminal(r, "succeeded", "completed")

\* Mutant: _mark_failed leaves the task alone.
MarkFailed_RunOnly(r) ==
    /\ stage[r] = "raised"
    /\ runStatus' = [runStatus EXCEPT ![r] = "failed"]
    /\ Goto(r, "done")
    /\ UNCHANGED <<table, taskOf, queue, seen, edit, faults, crashes>>

MarkFailed(r) == MarkTerminal(r, "raised", "failed")

\* mark_status gives the task the run's verdict in a session of its own.
CloseRead(r) ==
    /\ stage[r] = "closing"
    /\ Load(r, taskOf[r])
    /\ Goto(r, "settling")
    /\ UNCHANGED <<table, runStatus, taskOf, queue, edit, faults, crashes>>

CloseReadAll(r) ==
    /\ stage[r] = "settling"
    /\ runStatus[r] = "completed"
    /\ LoadAll(r, taskOf[r])
    /\ Goto(r, "clearing")
    /\ UNCHANGED <<table, runStatus, taskOf, queue, edit, faults, crashes>>

\* Mutant: the task of a failed run is marked completed as well.
CloseCommit_AlwaysCompleted(r) ==
    /\ \/ stage[r] = "clearing"
       \/ stage[r] = "settling" /\ runStatus[r] = "failed"
    /\ Commit(r, SetStatus(seen[r], taskOf[r], "completed"))
    /\ Goto(r, "done")
    /\ UNCHANGED <<runStatus, taskOf, queue, edit, faults, crashes, declared>>

CloseCommit(r) ==
    /\ \/ stage[r] = "clearing"
       \/ stage[r] = "settling" /\ runStatus[r] = "failed"
    /\ Commit(r, SetStatus(seen[r], taskOf[r], runStatus[r]))
    /\ Goto(r, "done")
    /\ UNCHANGED <<runStatus, taskOf, queue, edit, faults, crashes, declared>>

---------------------------------------------------------------------------
(* Database errors, and a crash of the process.                            *)

Fault(r, s) ==
    /\ faults < MaxFaults
    /\ faults' = faults + 1
    /\ Close(r)
    /\ Goto(r, s)
    /\ UNCHANGED <<table, runStatus, taskOf, queue, edit, crashes>>

\* Inside _run_background's try, the handler turns it into a failed run.
CaughtFault(r) ==
    /\ \/ stage[r] = "succeeded"
       \/ stage[r] \in {"closing", "settling", "clearing"} /\ runStatus[r] = "completed"
    /\ Fault(r, "raised")

\* Anywhere else it ends the handler (500) or the work item (the Future keeps it).
FatalFault(r) ==
    /\ \/ stage[r] \in {"accepted", "created", "opening", "picked", "raised"}
       \/ stage[r] \in {"closing", "settling"} /\ runStatus[r] = "failed"
    /\ Fault(r, "dead")

Crash ==
    /\ crashes < MaxCrashes
    /\ crashes' = crashes + 1
    /\ stage' = [r \in Runs |-> IF stage[r] \in {"idle", "done"} THEN stage[r] ELSE "dead"]
    /\ queue' = <<>>
    /\ seen' = [a \in Actors |-> Unread]
    /\ edit' = [e \in Editors |-> NoEdit]
    /\ UNCHANGED <<table, runStatus, taskOf, faults>>

---------------------------------------------------------------------------
\* What a thread does on its own, once a request or the pool has started it.
Handler(r) == CreateRun(r) \/ OpenRead(r) \/ OpenCommit(r) \/ Submit(r)

Worker(r) ==
    \/ MarkRunning(r) \/ FlowEnds(r) \/ MarkCompleted(r) \/ MarkFailed(r)
    \/ CloseRead(r) \/ CloseReadAll(r) \/ CloseCommit(r)

Editor(e) == EditReadAll(e) \/ EditCommit(e)

Clients ==
    \/ \E n \in Creations : Create(n.task, n.bag)
    \/ \E r \in Runs, t \in Tasks : Accept(r, t)
    \/ \E r \in Runs : AcceptDetached(r)
    \/ \E e \in Editors, p \in Patches : EditRead(e, p)

Next ==
    \/ Clients
    \/ \E r \in Runs : Handler(r) \/ Pick(r) \/ Worker(r)
    \/ \E e \in Editors : Editor(e)
    \/ \E r \in Runs : CaughtFault(r) \/ FatalFault(r)
    \/ Crash

Spec == Init /\ [][Next]_vars

(***************************************************************************)
(* Threads that have work to do are scheduled; the flow a run executes     *)
(* ends, because each call it makes to a model or a provider has a         *)
(* timeout.  Nobody is obliged to send a request, and errors and crashes   *)
(* need not happen.                                                        *)
(***************************************************************************)
FairSpec ==
    /\ Spec
    /\ \A r \in Runs : WF_vars(Handler(r)) /\ WF_vars(Pick(r)) /\ WF_vars(Worker(r))
    /\ \A e \in Editors : WF_vars(Editor(e))

---------------------------------------------------------------------------
(* Properties.                                                             *)

\* Every variable stays in its type.
TypeOK ==
    /\ tasks \in Snapshots
    /\ runStatus \in [Runs -> RunStatus]
    /\ taskOf \in [Runs -> Tasks \cup {NoTask}]
    /\ stage \in [Runs -> Stage]
    /\ queue \in Seq(Runs)
    /\ seen \in [Actors -> Snapshots]
    /\ edit \in [Editors -> Edits \cup {NoEdit}]
    /\ faults \in 0..MaxFaults
    /\ crashes \in 0..MaxCrashes
    /\ declared \in [Tasks -> SUBSET Tasks]
    /\ done \subseteq Tasks

Begun == {taskOf[r] : r \in Runs} \ {NoTask}

\* A run is accepted for a task only when every task that its POST listed in
\* blocked_by has been completed: lost updates between concurrent sessions of
\* AgentTaskStore may keep a blocker for ever but never lose one.  (A client that
\* PATCHes blocked_by takes the task out of this promise.)
NoDependencySkipped == \A t \in Begun : declared[t] \subseteq done

\* The thread of the run still has the last word on its task's status to come.
Unsettled(r) == stage[r] \in Executing \cup {"opened", "queued"}

\* A task is in_progress only while some run started for it is queued or on its way
\* to mark_status, or was cut off by a crash or a database error: nothing in the
\* ordinary interleavings of handlers, pool threads and PATCHes leaves the status
\* behind, although start_task would refuse such a task for ever.
InProgressHasRun ==
    \A t \in Tasks : tasks[t].status = "in_progress" =>
        \E r \in Runs : taskOf[r] = t /\ (Unsettled(r) \/ stage[r] = "dead")

\* Two runs have completed u: the session of the later one may hold u's children as
\* they were before the earlier one released them.
CompletedTwice(u) ==
    \E r1, r2 \in Runs :
        /\ r1 # r2
        /\ \A r \in {r1, r2} :
               taskOf[r] = u /\ stage[r] = "done" /\ runStatus[r] = "completed"

\* No client may PATCH the task or one of its blockers.
Unpatched(t) == \A p \in Patches : p.task \notin {t} \cup declared[t]

\* The verdict of a task's only run is the task's status once the run's thread is
\* done: `completed' in background_runs and `failed' in agent_tasks, or the reverse, is
\* never a final answer, and no other session puts the task back.  Clients who PATCH
\* the task or a blocker may; and so may a second run of a blocker, which releases
\* from the rows it had loaded.
VerdictAgrees ==
    \A r \in Runs : stage[r] = "done" /\ taskOf[r] # NoTask =>
        \/ tasks[taskOf[r]].status = runStatus[r]
        \/ \E r2 \in Runs \ {r} : taskOf[r2] = taskOf[r]
        \/ ~Unpatched(taskOf[r])
        \/ \E u \in declared[taskOf[r]] : CompletedTwice(u)

\* A background run that has a row reaches completed or failed, unless a crash or a
\* database error cuts its thread off: no run waits for ever for a pool thread.
RunsEnd ==
    \A r \in Runs : runStatus[r] = "pending" ~>
        (runStatus[r] \in Terminal \/ stage[r] = "dead")

\* A task that a run has put in_progress leaves that status, or one of its runs was
\* cut off.
InProgressEnds ==
    \A t \in Tasks : tasks[t].status = "in_progress" ~>
        (\/ tasks[t].status # "in_progress"
         \/ \E r \in Runs : taskOf[r] = t /\ stage[r] = "dead")

---------------------------------------------------------------------------
(* What the documents say, and some interleavings do not keep.             *)

\* When no request is being served and every run is over, a task that is still blocked
\* waits for a task that has not been completed.
Quiet ==
    /\ \A r \in Runs : stage[r] \in {"idle", "done"}
    /\ \A e \in Editors : edit[e] = NoEdit

BlockedHasOpenParent ==
    Quiet => \A t \in Tasks : tasks[t].status = "blocked" =>
                 ~ (Listed(tasks[t].blockedBy) \subseteq done)

\* Refinement: forget rows, sessions and threads, and the harness is a task graph
\* that begins tasks in dependency order.
Graph == INSTANCE Dependencies WITH begun <- Begun
ImplementsGraph == Graph!Spec
=============================================================================
