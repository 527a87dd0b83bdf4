--------------------------- MODULE HarnessProofs ---------------------------
(***************************************************************************)
(* Theorems about the harness, for any number of tasks, runs, editors and  *)
(* pool threads, any requests and any bound on errors and crashes.         *)
(***************************************************************************)
EXTENDS Harness, TLAPS

---------------------------------------------------------------------------
(* What the operators of TaskRows return.                                  *)

LEMMA ReleasedType ==
    ASSUME NEW row \in Row, NEW p \in Tasks, p \in Listed(row.blockedBy)
    PROVE  ReleasedFrom(row, p) \in Row
<1>1. RemoveOne(row.blockedBy, p) \in BlockerBags
  BY DEF RemoveOne, BlockerBags, Row, Listed
<1>2. QED
  BY <1>1 DEF ReleasedFrom, Row, TaskStatus

LEMMA SetStatusType ==
    ASSUME NEW rows \in Snapshots, NEW t \in Tasks, NEW status \in TaskStatus
    PROVE  SetStatus(rows, t, status) \in Snapshots
<1> DEFINE set == [rows EXCEPT ![t].status = status]
<1>1. set \in Snapshots
  BY DEF Snapshots, Row
<1>2. ClearDependency(set, t) \in Snapshots
  BY <1>1, ReleasedType DEF ClearDependency, Snapshots
<1>3. QED
  BY <1>1, <1>2 DEF SetStatus

LEMMA PatchedType ==
    ASSUME NEW rows \in Snapshots, NEW t \in Tasks,
           NEW bag \in BlockerBags \cup {Keep}, NEW status \in TaskStatus \cup {Keep}
    PROVE  Patched(rows, t, bag, status) \in Snapshots
<1> DEFINE reblocked == IF bag = Keep THEN rows
                        ELSE [rows EXCEPT ![t] = Reblocked(rows[t], bag)]
<1>1. reblocked \in Snapshots
  <2>1. ASSUME bag \in BlockerBags PROVE Reblocked(rows[t], bag) \in Row
    BY <2>1 DEF Reblocked, Row, Snapshots, TaskStatus
  <2>2. QED
    BY <2>1 DEF Snapshots
<1>2. status # Keep => SetStatus(reblocked, t, status) \in Snapshots
  BY <1>1, SetStatusType
<1>3. QED
  BY <1>1, <1>2 DEF Patched

LEMMA FlushType ==
    ASSUME NEW db \in Snapshots, NEW loaded \in Snapshots, NEW new \in Snapshots
    PROVE  Flush(db, loaded, new) \in Snapshots
<1>1. \A u \in Tasks : FlushRow(db[u], loaded[u], new[u]) \in Row
  BY DEF FlushRow, Snapshots, Row
<1>2. QED
  BY <1>1 DEF Flush, Snapshots

LEMMA AbsentType == Unread \in Snapshots /\ Absent \in Row
  BY DEF Unread, Snapshots, Absent, Row, NoBlockers, BlockerBags

---------------------------------------------------------------------------
(* Types.  The stage of a run tells what its thread has in hand.           *)

StageOK ==
    \A r \in Runs :
        /\ stage[r] = "idle" => taskOf[r] = NoTask
        /\ stage[r] \in {"created", "opening", "closing", "settling", "clearing"} =>
               taskOf[r] \in Tasks
        /\ stage[r] \in {"closing", "settling"} => runStatus[r] \in Terminal
        /\ stage[r] = "clearing" => runStatus[r] = "completed"

TypeInv == TypeOK /\ StageOK

LEMMA InitTypeInv == Init => TypeInv
  BY HarnessAssumption, AbsentType
  DEF Init, TypeInv, TypeOK, StageOK, Snapshots, RunStatus, Stage, Starting, Executing

LEMMA LoadType ==
    ASSUME TypeOK, NEW a \in Actors, NEW t \in Tasks, Load(a, t)
    PROVE  seen' \in [Actors -> Snapshots]
<1>1. [Unread EXCEPT ![t] = tasks[t]] \in Snapshots
  BY AbsentType DEF TypeOK, Snapshots
<1>2. QED
  BY <1>1 DEF Load, TypeOK

LEMMA LoadAllType ==
    ASSUME TypeOK, NEW a \in Actors, NEW t \in Tasks, LoadAll(a, t)
    PROVE  seen' \in [Actors -> Snapshots]
<1> DEFINE snap == [u \in Tasks |-> IF u = t THEN seen[a][t] ELSE tasks[u]]
<1>1. snap \in Snapshots
  BY DEF TypeOK, Snapshots
<1>2. QED
  BY <1>1 DEF LoadAll, TypeOK

LEMMA CommitType ==
    ASSUME TypeOK, NEW a \in Actors, NEW new \in Snapshots, Commit(a, new)
    PROVE  /\ tasks' \in Snapshots
           /\ seen' \in [Actors -> Snapshots]
           /\ done' \subseteq Tasks
<1>1. seen[a] \in Snapshots
  BY DEF TypeOK
<1>2. tasks' \in Snapshots
  BY <1>1, FlushType DEF Commit, TypeOK
<1>3. QED
  BY <1>2, AbsentType DEF Commit, Close, TypeOK

LEMMA NewRowType ==
    ASSUME NEW bag \in BlockerBags
    PROVE  NewRow(bag) \in Row
  BY DEF NewRow, Row, TaskStatus

LEMMA NextTypeInv == TypeInv /\ [Next]_vars => TypeInv'
<1> SUFFICES ASSUME TypeInv, [Next]_vars PROVE TypeInv'
  OBVIOUS
<1> USE HarnessAssumption DEF TypeInv
<1>1. ASSUME NEW n \in Creations, Create(n.task, n.bag) PROVE TypeInv'
  <2>1. NewRow(n.bag) \in Row
    BY NewRowType
  <2>2. QED
    BY <1>1, <2>1 DEF Create, TypeOK, StageOK, Snapshots, Listed
<1>2. ASSUME NEW r \in Runs, NEW t \in Tasks, Accept(r, t) PROVE TypeInv'
  BY <1>2 DEF Accept, Goto, table, TypeOK, StageOK, Stage, Starting, Executing
<1>3. ASSUME NEW r \in Runs, AcceptDetached(r) PROVE TypeInv'
  BY <1>3 DEF AcceptDetached, Goto, table, TypeOK, StageOK, Stage, Starting, Executing
<1>4. ASSUME NEW e \in Editors, NEW p \in Patches, EditRead(e, p) PROVE TypeInv'
  <2>1. seen' \in [Actors -> Snapshots]
    BY <1>4, LoadType DEF EditRead, Actors
  <2>2. QED
    BY <1>4, <2>1 DEF EditRead, table, TypeOK, StageOK, Edits
<1>5. ASSUME NEW e \in Editors, EditReadAll(e) PROVE TypeInv'
  <2>1. edit[e] \in Edits
    BY <1>5 DEF EditReadAll, TypeOK
  <2>2. seen' \in [Actors -> Snapshots]
    BY <1>5, <2>1, LoadAllType DEF EditReadAll, Actors, Edits
  <2>3. edit' \in [Editors -> Edits \cup {NoEdit}]
    BY <1>5, <2>1 DEF EditReadAll, TypeOK, Edits
  <2>4. QED
    BY <1>5, <2>2, <2>3 DEF EditReadAll, table, TypeOK, StageOK
<1>6. ASSUME NEW e \in Editors, EditCommit(e) PROVE TypeInv'
  <2> DEFINE p == edit[e].req
             new == Patched(seen[e], p.task, p.bag, p.status)
  <2>1. edit[e] \in Edits
    BY <1>6 DEF EditCommit, TypeOK
  <2>2. new \in Snapshots
    BY <2>1, PatchedType DEF TypeOK, Actors, Edits
  <2>3. Commit(e, new)
    BY <1>6 DEF EditCommit
  <2>4. tasks' \in Snapshots /\ seen' \in [Actors -> Snapshots] /\ done' \subseteq Tasks
    BY <2>2, <2>3, CommitType DEF Actors
  <2>5. declared' \in [Tasks -> SUBSET Tasks]
    BY <1>6 DEF EditCommit, TypeOK
  <2>6. QED
    BY <1>6, <2>4, <2>5 DEF EditCommit, TypeOK, StageOK
<1>7. ASSUME NEW r \in Runs, Handler(r) PROVE TypeInv'
  <2>1. CASE CreateRun(r)
    BY <2>1 DEF CreateRun, Goto, table, TypeOK, StageOK, Stage, Starting, Executing,
                RunStatus, Terminal
  <2>2. CASE OpenRead(r)
    <3>1. seen' \in [Actors -> Snapshots]
      BY <2>2, LoadType DEF OpenRead, Actors, StageOK
    <3>2. QED
      BY <2>2, <3>1 DEF OpenRead, Goto, table, TypeOK, StageOK, Stage, Starting, Executing
  <2>3. CASE OpenCommit(r)
    <3>1. SetStatus(seen[r], taskOf[r], "in_progress") \in Snapshots
      BY <2>3, SetStatusType DEF OpenCommit, StageOK, TypeOK, Actors, TaskStatus
    <3>2. tasks' \in Snapshots /\ seen' \in [Actors -> Snapshots] /\ done' \subseteq Tasks
      BY <2>3, <3>1, CommitType DEF OpenCommit, Actors
    <3>3. QED
      BY <2>3, <3>2 DEF OpenCommit, Goto, TypeOK, StageOK, Stage, Starting, Executing
  <2>4. CASE Submit(r)
    BY <2>4 DEF Submit, Goto, table, TypeOK, StageOK, Stage, Starting, Executing
  <2>5. QED
    BY <1>7, <2>1, <2>2, <2>3, <2>4 DEF Handler
<1>8. ASSUME NEW r \in Runs, Pick(r) PROVE TypeInv'
  <2>1. queue' \in Seq(Runs)
    BY <1>8 DEF Pick, TypeOK
  <2>2. QED
    BY <1>8, <2>1 DEF Pick, Goto, table, TypeOK, StageOK, Stage, Starting, Executing
<1>9. ASSUME NEW r \in Runs, Worker(r) PROVE TypeInv'
  <2>1. CASE MarkRunning(r) \/ FlowEnds(r)
    BY <2>1 DEF MarkRunning, FlowEnds, Goto, table, TypeOK, StageOK, Stage, Starting,
                Executing, RunStatus, Terminal
  <2>2. CASE MarkCompleted(r) \/ MarkFailed(r)
    BY <2>2 DEF MarkCompleted, MarkFailed, MarkTerminal, Goto, table, TypeOK, StageOK,
                Stage, Starting, Executing, RunStatus, Terminal
  <2>3. CASE CloseRead(r)
    <3>1. seen' \in [Actors -> Snapshots]
      BY <2>3, LoadType DEF CloseRead, Actors, StageOK
    <3>2. QED
      BY <2>3, <3>1 DEF CloseRead, Goto, table, TypeOK, StageOK, Stage, Starting, Executing
  <2>4. CASE CloseReadAll(r)
    <3>1. seen' \in [Actors -> Snapshots]
      BY <2>4, LoadAllType DEF CloseReadAll, Actors, StageOK
    <3>2. QED
      BY <2>4, <3>1
      DEF CloseReadAll, Goto, table, TypeOK, StageOK, Stage, Starting, Executing
  <2>5. CASE CloseCommit(r)
    <3>1. SetStatus(seen[r], taskOf[r], runStatus[r]) \in Snapshots
      BY <2>5, SetStatusType DEF CloseCommit, StageOK, TypeOK, Actors, TaskStatus, Terminal
    <3>2. tasks' \in Snapshots /\ seen' \in [Actors -> Snapshots] /\ done' \subseteq Tasks
      BY <2>5, <3>1, CommitType DEF CloseCommit, Actors
    <3>3. QED
      BY <2>5, <3>2 DEF CloseCommit, Goto, TypeOK, StageOK, Stage, Starting, Executing
  <2>6. QED
    BY <1>9, <2>1, <2>2, <2>3, <2>4, <2>5 DEF Worker
<1>10. ASSUME NEW r \in Runs, CaughtFault(r) \/ FatalFault(r) PROVE TypeInv'
  <2>1. PICK s \in {"raised", "dead"} : Fault(r, s)
    BY <1>10 DEF CaughtFault, FatalFault
  <2>2. seen' \in [Actors -> Snapshots]
    BY <2>1, AbsentType DEF Fault, Close, TypeOK, Actors
  <2>3. stage' \in [Runs -> Stage] /\ faults' \in 0..MaxFaults
    BY <2>1 DEF Fault, Goto, TypeOK, Stage, Executing
  <2>4. StageOK'
    BY <2>1 DEF Fault, Goto, TypeOK, StageOK
  <2>5. QED
    BY <2>1, <2>2, <2>3, <2>4 DEF Fault, table, TypeOK
<1>11. ASSUME Crash PROVE TypeInv'
  BY <1>11, AbsentType DEF Crash, table, TypeOK, StageOK, Stage, Starting, Executing
<1>12. CASE UNCHANGED vars
  BY <1>12 DEF vars, table, TypeOK, StageOK
<1>13. QED
  BY <1>1, <1>2, <1>3, <1>4, <1>5, <1>6, <1>7, <1>8, <1>9, <1>10, <1>11, <1>12
  DEF Next, Clients, Editor

\* The state of the harness is always well formed, and a thread that is about to
\* touch a task row has a task.
THEOREM TypeCorrect == Spec => []TypeOK
<1>1. Spec => []TypeInv
  BY InitTypeInv, NextTypeInv, PTL DEF Spec
<1>2. TypeInv => TypeOK
  BY DEF TypeInv
<1>3. QED
  BY <1>1, <1>2, PTL

---------------------------------------------------------------------------
(***************************************************************************)
(* The harness begins tasks in dependency order, and implements the        *)
(* abstract task graph of Dependencies.                                    *)
(*                                                                         *)
(* The argument: a session removes from a row's blocked_by only the task   *)
(* whose completion it is committing, and what it writes is computed from  *)
(* rows it loaded earlier.  A stale session can therefore put a blocker    *)
(* back, but each blocker missing from what anybody loaded, and hence from *)
(* what anybody may still write, has been completed.                       *)
(***************************************************************************)

\* A row, in the table or in a session, from which no declared dependency of t is
\* missing unless that dependency is done.
Keeps(row, t) ==
    /\ row.status = "completed" => t \in done
    /\ \A q \in declared[t] : row.blockedBy[q] > 0 \/ q \in done

\* A row that is not in the table, or not loaded.
Blank(row) == row.status = "none" /\ Listed(row.blockedBy) = {}

\* A session that is about to write a task has loaded its row.
SessionOK ==
    /\ \A r \in Runs : stage[r] \in {"opening", "settling", "clearing"} =>
           seen[r][taskOf[r]].status # "none"
    /\ \A e \in Editors : edit[e] # NoEdit =>
           seen[e][edit[e].req.task].status # "none"

OrderInv ==
    /\ \A t \in Tasks : Keeps(tasks[t], t)
    /\ \A t \in Tasks : ~Exists(t) =>
           Blank(tasks[t]) /\ declared[t] = {} /\ t \notin Begun
    /\ \A a \in Actors, t \in Tasks :
           Blank(seen[a][t]) \/ (Exists(t) /\ Keeps(seen[a][t], t))
    /\ NoDependencySkipped

---------------------------------------------------------------------------
(* What a session writes.                                                  *)

\* Compared with the rows it loaded, a session that acts on task t has taken nobody
\* out of a blocked_by list of `kept' but t, and that only when it completes t; it
\* completes no other task and removes no row.
OnlyCompletes(loaded, new, t, kept) ==
    /\ \A u \in Tasks :
          /\ new[u].status = "completed" => u = t \/ loaded[u].status = "completed"
          /\ new[u].status = "none" => loaded[u].status = "none"
    /\ \A u \in kept :
          /\ \A q \in Tasks : loaded[u].blockedBy[q] > 0 =>
                 new[u].blockedBy[q] > 0 \/ (q = t /\ new[t].status = "completed")
          /\ Listed(loaded[u].blockedBy) = {} => new[u].blockedBy = loaded[u].blockedBy

LEMMA ClearDependencyEffect ==
    ASSUME NEW rows \in Snapshots, NEW t \in Tasks, rows[t].status = "completed"
    PROVE  /\ OnlyCompletes(rows, ClearDependency(rows, t), t, Tasks)
           /\ ClearDependency(rows, t)[t].status = "completed"
<1> DEFINE new == ClearDependency(rows, t)
<1>1. new[t].status = "completed"
  BY DEF ClearDependency, ReleasedFrom
<1>2. ASSUME NEW u \in Tasks
      PROVE  /\ new[u].status \in {rows[u].status, "pending"}
             /\ \A q \in Tasks \ {t} : new[u].blockedBy[q] = rows[u].blockedBy[q]
             /\ Listed(rows[u].blockedBy) = {} => new[u] = rows[u]
  BY DEF ClearDependency, ReleasedFrom, RemoveOne, Snapshots, Row, BlockerBags
<1>3. ASSUME NEW u \in Tasks, new[u].status = "none" PROVE rows[u].status = "none"
  BY <1>2, <1>3
<1>4. QED
  BY <1>1, <1>2, <1>3 DEF OnlyCompletes

LEMMA SetStatusEffect ==
    ASSUME NEW rows \in Snapshots, NEW t \in Tasks, NEW status \in TaskStatus
    PROVE  /\ OnlyCompletes(rows, SetStatus(rows, t, status), t, Tasks)
           /\ SetStatus(rows, t, status)[t].status = status
<1> DEFINE set == [rows EXCEPT ![t].status = status]
<1>1. /\ set \in Snapshots
      /\ set[t].status = status
      /\ \A u \in Tasks : set[u].blockedBy = rows[u].blockedBy
      /\ \A u \in Tasks \ {t} : set[u] = rows[u]
  BY DEF Snapshots, Row
<1>2. OnlyCompletes(rows, set, t, Tasks)
  BY <1>1 DEF OnlyCompletes, TaskStatus
<1>3. CASE status = "completed"
  <2> DEFINE new == ClearDependency(set, t)
  <2>1. OnlyCompletes(set, new, t, Tasks) /\ new[t].status = "completed"
    BY <1>1, <1>3, ClearDependencyEffect
  <2>2. OnlyCompletes(rows, new, t, Tasks)
    BY <1>1, <1>2, <1>3, <2>1 DEF OnlyCompletes
  <2>3. QED
    BY <1>3, <2>1, <2>2 DEF SetStatus
<1>4. CASE status # "completed"
  BY <1>1, <1>2, <1>4 DEF SetStatus
<1>5. QED
  BY <1>3, <1>4

LEMMA PatchedEffect ==
    ASSUME NEW rows \in Snapshots, NEW t \in Tasks,
           NEW bag \in BlockerBags \cup {Keep}, NEW status \in TaskStatus \cup {Keep}
    PROVE  OnlyCompletes(rows, Patched(rows, t, bag, status), t,
                         IF bag = Keep THEN Tasks ELSE Tasks \ {t})
<1> DEFINE kept == IF bag = Keep THEN Tasks ELSE Tasks \ {t}
           reblocked == IF bag = Keep THEN rows
                        ELSE [rows EXCEPT ![t] = Reblocked(rows[t], bag)]
           new == Patched(rows, t, bag, status)
<1>1. reblocked \in Snapshots
  <2>1. ASSUME bag \in BlockerBags PROVE Reblocked(rows[t], bag) \in Row
    BY <2>1 DEF Reblocked, Row, Snapshots, TaskStatus
  <2>2. QED
    BY <2>1 DEF Snapshots
<1>2. /\ \A u \in Tasks \ {t} : reblocked[u] = rows[u]
      /\ bag = Keep => reblocked = rows
      /\ reblocked[t].status \in {rows[t].status, "blocked", "pending"}
  BY DEF Reblocked, Snapshots, Row
<1>3. OnlyCompletes(rows, reblocked, t, kept)
  BY <1>2 DEF OnlyCompletes
<1>4. CASE status = Keep
  BY <1>3, <1>4 DEF Patched
<1>5. CASE status # Keep
  <2>1. new = SetStatus(reblocked, t, status)
    BY <1>5 DEF Patched
  <2>2. OnlyCompletes(reblocked, new, t, Tasks) /\ new[t].status = status
    BY <1>1, <1>5, <2>1, SetStatusEffect
  <2>3. OnlyCompletes(rows, new, t, kept)
    BY <1>2, <1>3, <2>2 DEF OnlyCompletes
  <2>4. QED
    BY <2>3
<1>6. QED
  BY <1>4, <1>5

---------------------------------------------------------------------------
(* A commit keeps the invariant.                                           *)

LEMMA CommitOrder ==
    ASSUME TypeOK, OrderInv, NEW a \in Actors, NEW t \in Tasks, NEW new \in Snapshots,
           NEW kept \in SUBSET Tasks, Tasks \ {t} \subseteq kept,
           OnlyCompletes(seen[a], new, t, kept), seen[a][t].status # "none",
           Commit(a, new), declared' \in [Tasks -> SUBSET Tasks], UNCHANGED taskOf,
           \A u \in Tasks : declared'[u] \subseteq declared[u],
           \A u \in Tasks \ kept : declared'[u] = {}
    PROVE  OrderInv' /\ done' \in {done, done \cup {t}}
<1> DEFINE loaded == seen[a]
<1>1. loaded \in Snapshots
  BY DEF TypeOK
<1>2. ASSUME NEW u \in Tasks
      PROVE  /\ tasks'[u].status = IF new[u].status = loaded[u].status
                                   THEN tasks[u].status ELSE new[u].status
             /\ tasks'[u].blockedBy = IF new[u].blockedBy = loaded[u].blockedBy
                                      THEN tasks[u].blockedBy ELSE new[u].blockedBy
  BY DEF Commit, Flush, FlushRow
<1>3. done \subseteq done' /\ \A u \in Tasks : tasks'[u].status = "completed" => u \in done'
  BY DEF Commit
<1>4. ASSUME NEW u \in Tasks, Exists(u) PROVE Exists(u)'
  BY <1>2, <1>4 DEF Exists, OnlyCompletes
<1>5. new[t].status = "completed" => t \in done'
  <2>1. CASE loaded[t].status = "completed"
    BY <1>3, <2>1 DEF OrderInv, Keeps, Blank
  <2>2. CASE loaded[t].status # "completed"
    BY <1>2, <1>3, <2>2
  <2>3. QED
    BY <2>1, <2>2
<1>6. done' \in {done, done \cup {t}}
  <2>1. ASSUME NEW u \in Tasks, tasks'[u].status = "completed", u # t PROVE u \in done
    BY <1>2, <2>1 DEF OnlyCompletes, OrderInv, Keeps, Blank
  <2>2. QED
    BY <2>1 DEF Commit
<1>7. ASSUME NEW u \in Tasks PROVE Keeps(tasks[u], u)'
  <2>1. ASSUME NEW q \in declared'[u], tasks'[u].blockedBy = new[u].blockedBy,
               new[u].blockedBy # loaded[u].blockedBy
        PROVE  new[u].blockedBy[q] > 0 \/ q \in done'
    <3>1. u \in kept /\ q \in Tasks /\ q \in declared[u]
      BY DEF TypeOK
    <3>2. ~Blank(loaded[u])
      BY <2>1, <3>1 DEF OnlyCompletes, Blank
    <3>3. loaded[u].blockedBy[q] > 0 \/ q \in done
      BY <3>1, <3>2 DEF OrderInv, Keeps
    <3>4. QED
      BY <1>3, <1>5, <3>1, <3>3 DEF OnlyCompletes
  <2>2. ASSUME NEW q \in declared'[u], tasks'[u].blockedBy = tasks[u].blockedBy
        PROVE  tasks'[u].blockedBy[q] > 0 \/ q \in done'
    BY <1>3, <2>2 DEF OrderInv, Keeps
  <2>3. QED
    BY <1>2, <1>3, <2>1, <2>2 DEF Keeps
<1>8. ASSUME NEW u \in Tasks, ~Exists(u)'
      PROVE  Blank(tasks[u])' /\ declared'[u] = {} /\ u \notin Begun'
  <2>1. ~Exists(u)
    BY <1>4, <1>8
  <2>2. u # t /\ Blank(loaded[u])
    BY <2>1 DEF OrderInv, Blank
  <2>3. tasks'[u].blockedBy = tasks[u].blockedBy
    BY <1>2, <2>2 DEF OnlyCompletes, Blank
  <2>4. QED
    BY <1>8, <2>1, <2>3 DEF OrderInv, Blank, Exists, Begun, Listed
<1>9. \A x \in Actors, u \in Tasks :
          Blank(seen'[x][u]) \/ (Exists(u)' /\ Keeps(seen[x][u], u)')
  <2> SUFFICES ASSUME NEW x \in Actors, NEW u \in Tasks, ~Blank(seen'[x][u])
               PROVE  Exists(u)' /\ Keeps(seen[x][u], u)'
    OBVIOUS
  <2>1. seen'[x] = seen[x]
    BY DEF Commit, Close, TypeOK, Unread, Absent, NoBlockers, Blank, Listed
  <2>2. Exists(u) /\ Keeps(seen[x][u], u)
    BY <2>1 DEF OrderInv
  <2>3. Exists(u)'
    BY <1>4, <2>2
  <2>4. Keeps(seen[x][u], u)'
    BY <1>3, <2>1, <2>2 DEF Keeps
  <2>5. QED
    BY <2>3, <2>4
<1>10. NoDependencySkipped'
  BY <1>3 DEF OrderInv, NoDependencySkipped, Begun, TypeOK
<1>11. QED
  BY <1>6, <1>7, <1>8, <1>9, <1>10 DEF OrderInv, Blank, Listed

\* A step that loads rows, closes a session or does not touch one keeps it too.
LEMMA QuietOrder ==
    ASSUME TypeOK, OrderInv, UNCHANGED <<table, taskOf>>,
           \A x \in Actors, u \in Tasks :
               seen'[x][u] \in {seen[x][u], tasks[u]} \/ Blank(seen'[x][u])
    PROVE  OrderInv' /\ UNCHANGED <<declared, done, Begun>>
<1>1. UNCHANGED <<tasks, declared, done, Begun>> /\ \A t \in Tasks : Exists(t)' <=> Exists(t)
  BY DEF table, Begun, Exists
<1>2. \A t \in Tasks : Keeps(tasks[t], t)'
  BY <1>1 DEF OrderInv, Keeps
<1>3. ASSUME NEW x \in Actors, NEW u \in Tasks
      PROVE  Blank(seen'[x][u]) \/ (Exists(u)' /\ Keeps(seen[x][u], u)')
  BY <1>1 DEF OrderInv, Keeps
<1>4. QED
  BY <1>1, <1>2, <1>3 DEF OrderInv, NoDependencySkipped, Blank, Listed

---------------------------------------------------------------------------
(* The steps.                                                              *)

LEMMA NextSession ==
    ASSUME TypeInv, OrderInv, SessionOK, [Next]_vars
    PROVE  SessionOK'
<1> USE HarnessAssumption DEF TypeInv
<1>1. \A r \in Runs : taskOf[r] \in Tasks => Exists(taskOf[r])
  BY DEF OrderInv, Begun
<1>2. ASSUME NEW r \in Runs, OpenRead(r) \/ CloseRead(r) PROVE SessionOK'
  <2>1. taskOf[r] \in Tasks
    BY <1>2 DEF OpenRead, CloseRead, StageOK
  <2>2. seen' = [seen EXCEPT ![r] = [Unread EXCEPT ![taskOf[r]] = tasks[taskOf[r]]]]
    BY <1>2 DEF OpenRead, CloseRead, Load
  <2>3. seen'[r][taskOf[r]].status # "none"
    BY <1>1, <2>1, <2>2 DEF TypeOK, Actors, Unread, Exists
  <2>4. \A x \in Actors \ {r} : seen'[x] = seen[x]
    BY <2>2 DEF TypeOK
  <2>5. UNCHANGED <<taskOf, edit>> /\ \A x \in Runs \ {r} : stage'[x] = stage[x]
    BY <1>2 DEF OpenRead, CloseRead, Goto, TypeOK
  <2>6. QED
    BY <2>3, <2>4, <2>5 DEF SessionOK, Actors
<1>3. ASSUME NEW r \in Runs, CloseReadAll(r) PROVE SessionOK'
  <2>1. taskOf[r] \in Tasks
    BY <1>3 DEF CloseReadAll, StageOK
  <2>2. seen'[r][taskOf[r]] = seen[r][taskOf[r]]
    BY <1>3, <2>1 DEF CloseReadAll, LoadAll, TypeOK, Actors
  <2>3. \A x \in Actors \ {r} : seen'[x] = seen[x]
    BY <1>3 DEF CloseReadAll, LoadAll, TypeOK
  <2>4. UNCHANGED <<taskOf, edit>> /\ \A x \in Runs \ {r} : stage'[x] = stage[x]
    BY <1>3 DEF CloseReadAll, Goto, TypeOK
  <2>5. stage[r] = "settling"
    BY <1>3 DEF CloseReadAll
  <2>6. QED
    BY <2>2, <2>3, <2>4, <2>5 DEF SessionOK, Actors
<1>4. ASSUME NEW e \in Editors, NEW p \in Patches, EditRead(e, p) PROVE SessionOK'
  <2>1. seen' = [seen EXCEPT ![e] = [Unread EXCEPT ![p.task] = tasks[p.task]]]
    BY <1>4 DEF EditRead, Load
  <2>2. seen'[e][p.task].status # "none" /\ edit'[e].req = p
    BY <1>4, <2>1 DEF EditRead, TypeOK, Actors, Unread, Exists
  <2>3. \A x \in Actors \ {e} : seen'[x] = seen[x]
    BY <2>1 DEF TypeOK
  <2>4. UNCHANGED <<taskOf, stage>> /\ \A x \in Editors \ {e} : edit'[x] = edit[x]
    BY <1>4 DEF EditRead, TypeOK
  <2>5. QED
    BY <2>2, <2>3, <2>4 DEF SessionOK, Actors
<1>5. ASSUME NEW e \in Editors, EditReadAll(e) PROVE SessionOK'
  <2>1. edit[e] \in Edits /\ edit'[e].req = edit[e].req
    BY <1>5 DEF EditReadAll, TypeOK, Edits
  <2>2. seen'[e][edit[e].req.task] = seen[e][edit[e].req.task]
    BY <1>5, <2>1 DEF EditReadAll, LoadAll, TypeOK, Actors, Edits
  <2>3. \A x \in Actors \ {e} : seen'[x] = seen[x]
    BY <1>5 DEF EditReadAll, LoadAll, TypeOK
  <2>4. UNCHANGED <<taskOf, stage>> /\ \A x \in Editors \ {e} : edit'[x] = edit[x]
    BY <1>5 DEF EditReadAll, TypeOK
  <2>5. edit[e] # NoEdit
    BY <1>5 DEF EditReadAll
  <2>6. QED
    BY <2>1, <2>2, <2>3, <2>4, <2>5 DEF SessionOK, Actors
<1>6. ASSUME NEW e \in Editors, EditCommit(e) PROVE SessionOK'
  BY <1>6 DEF EditCommit, Commit, Close, SessionOK, TypeOK, Actors
<1>7. ASSUME NEW r \in Runs, OpenCommit(r) \/ CloseCommit(r) PROVE SessionOK'
  BY <1>7 DEF OpenCommit, CloseCommit, Commit, Close, Goto, SessionOK, TypeOK, Actors
<1>8. ASSUME NEW r \in Runs,
             \/ CreateRun(r) \/ Submit(r) \/ Pick(r) \/ MarkRunning(r) \/ FlowEnds(r)
             \/ MarkCompleted(r) \/ MarkFailed(r) \/ AcceptDetached(r)
      PROVE  SessionOK'
  BY <1>8 DEF CreateRun, Submit, Pick, MarkRunning, FlowEnds, MarkCompleted, MarkFailed,
              MarkTerminal, AcceptDetached, Goto, SessionOK, TypeOK
<1>9. ASSUME NEW r \in Runs, NEW t \in Tasks, Accept(r, t) PROVE SessionOK'
  BY <1>9 DEF Accept, Goto, SessionOK, TypeOK
<1>10. ASSUME NEW r \in Runs, CaughtFault(r) \/ FatalFault(r) PROVE SessionOK'
  BY <1>10 DEF CaughtFault, FatalFault, Fault, Close, Goto, SessionOK, TypeOK, Actors
<1>11. ASSUME NEW n \in Creations, Create(n.task, n.bag) PROVE SessionOK'
  BY <1>11 DEF Create, SessionOK
<1>12. ASSUME Crash PROVE SessionOK'
  BY <1>12 DEF Crash, SessionOK
<1>13. CASE UNCHANGED vars
  BY <1>13 DEF vars, SessionOK
<1>14. QED
  BY <1>2, <1>3, <1>4, <1>5, <1>6, <1>7, <1>8, <1>9, <1>10, <1>11, <1>12, <1>13
  DEF Next, Clients, Handler, Worker, Editor

LEMMA InitOrder == Init => OrderInv /\ SessionOK /\ Graph!Init
<1> SUFFICES ASSUME Init PROVE OrderInv /\ SessionOK /\ Graph!Init
  OBVIOUS
<1>1. Begun = {}
  BY DEF Init, Begun
<1>2. Blank(Absent) /\ Absent.status = "none"
  BY DEF Blank, Absent, Listed, NoBlockers
<1>3. QED
  BY <1>1, <1>2, HarnessAssumption
  DEF Init, OrderInv, SessionOK, Keeps, Blank, Exists, Unread, NoDependencySkipped,
      Graph!Init

\* One step of the harness: the invariant is kept, and the step is one of the
\* graph or none at all.
StepOK == OrderInv' /\ [Graph!Next]_(Graph!dvars)

LEMMA CreateOrder ==
    ASSUME TypeOK, OrderInv, NEW n \in Creations, Create(n.task, n.bag)
    PROVE  StepOK
<1> DEFINE t == n.task
           row == NewRow(n.bag)
<1> USE HarnessAssumption
<1>1. t \in Tasks /\ n.bag \in BlockerBags /\ ~Exists(t) /\ t \notin Begun
  BY DEF Create, OrderInv
<1>2. /\ UNCHANGED <<done, Begun, seen>>
      /\ tasks' = [tasks EXCEPT ![t] = row]
      /\ declared' = [declared EXCEPT ![t] = Listed(n.bag)]
  BY DEF Create, Begun
<1>3. row.status \notin {"completed", "none"} /\ \A q \in Listed(n.bag) : row.blockedBy[q] > 0
  BY DEF NewRow, Listed
<1>4. \A u \in Tasks : Keeps(tasks[u], u)'
  BY <1>1, <1>2, <1>3 DEF OrderInv, Keeps, TypeOK, Snapshots
<1>5. \A u \in Tasks : ~Exists(u)' =>
          Blank(tasks[u])' /\ declared'[u] = {} /\ u \notin Begun'
  BY <1>1, <1>2, <1>3 DEF OrderInv, Exists, Blank, TypeOK, Snapshots, Listed
<1>6. ASSUME NEW x \in Actors, NEW u \in Tasks
      PROVE  Blank(seen'[x][u]) \/ (Exists(u)' /\ Keeps(seen[x][u], u)')
  BY <1>1, <1>2, <1>3 DEF OrderInv, Exists, Keeps, TypeOK, Snapshots
<1>7. NoDependencySkipped'
  <2>1. \A u \in Begun : declared'[u] = declared[u]
    BY <1>1, <1>2 DEF TypeOK, Begun
  <2>2. QED
    BY <1>2, <2>1 DEF OrderInv, NoDependencySkipped
<1>8. Graph!Declare(t, Listed(n.bag))
  BY <1>1, <1>2 DEF Graph!Declare
<1>9. Listed(n.bag) \in SUBSET Tasks
  BY DEF Listed
<1>10. QED
  BY <1>1, <1>4, <1>5, <1>6, <1>7, <1>8, <1>9 DEF StepOK, OrderInv, Blank, Listed, Graph!Next

LEMMA AcceptOrder ==
    ASSUME TypeInv, OrderInv, NEW r \in Runs, NEW t \in Tasks, Accept(r, t)
    PROVE  StepOK
<1> USE HarnessAssumption DEF TypeInv
<1>1. /\ UNCHANGED <<tasks, declared, done, seen>>
      /\ taskOf' = [taskOf EXCEPT ![r] = t]
      /\ Listed(tasks[t].blockedBy) = {} /\ Exists(t)
      /\ taskOf[r] = NoTask
  BY DEF Accept, table, Startable, Exists, StageOK
<1>2. Begun' = Begun \cup {t}
  BY <1>1 DEF Begun, TypeOK
<1>3. declared[t] \subseteq done
  BY <1>1 DEF OrderInv, Keeps, Listed, TypeOK
<1>4. NoDependencySkipped'
  BY <1>1, <1>2, <1>3 DEF OrderInv, NoDependencySkipped
<1>5. \A u \in Tasks : ~Exists(u)' =>
          Blank(tasks[u])' /\ declared'[u] = {} /\ u \notin Begun'
  BY <1>1, <1>2 DEF OrderInv, Exists, Blank, Listed
<1>6. \A x \in Actors, u \in Tasks :
          Blank(seen'[x][u]) \/ (Exists(u)' /\ Keeps(seen[x][u], u)')
  BY <1>1 DEF OrderInv, Exists, Keeps
<1>7. OrderInv'
  BY <1>1, <1>4, <1>5, <1>6 DEF OrderInv, Keeps, Blank, Listed
<1>8. Graph!Begin(t)
  BY <1>1, <1>2, <1>3 DEF Graph!Begin
<1>9. QED
  BY <1>7, <1>8 DEF StepOK, Graph!Next

LEMMA EditOrder ==
    ASSUME TypeInv, OrderInv, SessionOK, NEW e \in Editors, EditCommit(e)
    PROVE  StepOK
<1> USE HarnessAssumption DEF TypeInv
<1> DEFINE p == edit[e].req
           t == p.task
           new == Patched(seen[e], t, p.bag, p.status)
           kept == IF p.bag = Keep THEN Tasks ELSE Tasks \ {t}
<1>1. edit[e] \in Edits /\ edit[e] # NoEdit
  BY DEF EditCommit, TypeOK
<1>2. /\ t \in Tasks /\ p.bag \in BlockerBags \cup {Keep} /\ p.status \in TaskStatus \cup {Keep}
      /\ e \in Actors /\ seen[e] \in Snapshots /\ seen[e][t].status # "none"
  BY <1>1 DEF Edits, Actors, TypeOK, SessionOK
<1>3. new \in Snapshots /\ OnlyCompletes(seen[e], new, t, kept)
  BY <1>2, PatchedType, PatchedEffect
<1>4. /\ Commit(e, new) /\ UNCHANGED taskOf
      /\ declared' = IF p.bag = Keep THEN declared ELSE [declared EXCEPT ![t] = {}]
  BY DEF EditCommit
<1>5. /\ declared' \in [Tasks -> SUBSET Tasks]
      /\ \A u \in Tasks : declared'[u] \subseteq declared[u]
      /\ \A u \in Tasks \ kept : declared'[u] = {}
  BY <1>2, <1>4 DEF TypeOK
<1>6. kept \in SUBSET Tasks /\ Tasks \ {t} \subseteq kept
  OBVIOUS
<1> HIDE DEF new, kept
<1>7. OrderInv' /\ done' \in {done, done \cup {t}}
  BY <1>2, <1>3, <1>4, <1>5, <1>6, CommitOrder
<1>8. UNCHANGED Begun
  BY <1>4 DEF Begun
<1>9. Graph!Edit(t)
  BY <1>4, <1>7, <1>8 DEF Graph!Edit
<1>10. QED
  BY <1>2, <1>7, <1>9 DEF StepOK, Graph!Next

\* The two commits of a run's thread: the one of start, and that of the verdict.
LEMMA RunOrder ==
    ASSUME TypeInv, OrderInv, SessionOK, NEW r \in Runs, OpenCommit(r) \/ CloseCommit(r)
    PROVE  StepOK
<1> USE HarnessAssumption DEF TypeInv
<1> DEFINE t == taskOf[r]
<1>1. PICK status \in TaskStatus : Commit(r, SetStatus(seen[r], t, status))
  BY DEF OpenCommit, CloseCommit, TaskStatus, StageOK
<1> DEFINE new == SetStatus(seen[r], t, status)
<1>2. /\ t \in Tasks /\ r \in Actors /\ seen[r] \in Snapshots
      /\ seen[r][t].status # "none" /\ t \in Begun
  BY DEF OpenCommit, CloseCommit, StageOK, SessionOK, Actors, TypeOK, Begun
<1>3. new \in Snapshots /\ OnlyCompletes(seen[r], new, t, Tasks)
  BY <1>2, SetStatusType, SetStatusEffect
<1>4. Commit(r, new) /\ UNCHANGED <<taskOf, declared>>
  BY <1>1 DEF OpenCommit, CloseCommit
<1> HIDE DEF new
<1>5. OrderInv' /\ done' \in {done, done \cup {t}}
  BY <1>2, <1>3, <1>4, CommitOrder DEF TypeOK
<1>6. UNCHANGED Begun
  BY <1>4 DEF Begun
<1>7. Graph!Finish(t) \/ UNCHANGED Graph!dvars
  BY <1>2, <1>4, <1>5, <1>6 DEF Graph!Finish, Graph!dvars
<1>8. QED
  BY <1>2, <1>5, <1>7 DEF StepOK, Graph!Next

LEMMA NextOrder ==
    ASSUME TypeInv, OrderInv, SessionOK, [Next]_vars
    PROVE  StepOK
<1> USE HarnessAssumption DEF TypeInv
<1> DEFINE Silent == /\ UNCHANGED <<table, taskOf>>
                     /\ \A x \in Actors, u \in Tasks :
                            seen'[x][u] \in {seen[x][u], tasks[u]} \/ Blank(seen'[x][u])
<1>1. Silent => StepOK
  BY QuietOrder DEF StepOK, Graph!dvars
<1>2. \A u \in Tasks : Blank(Unread[u])
  BY DEF Blank, Unread, Absent, Listed, NoBlockers
<1>3. ASSUME NEW a \in Actors, NEW t \in Tasks, Load(a, t) \/ LoadAll(a, t),
             UNCHANGED <<table, taskOf>>
      PROVE  Silent
  <2>1. CASE Load(a, t)
    BY <1>2, <1>3, <2>1 DEF Load, TypeOK, Unread
  <2>2. CASE LoadAll(a, t)
    BY <1>3, <2>2 DEF LoadAll, TypeOK
  <2>3. QED
    BY <1>3, <2>1, <2>2
<1>4. ASSUME NEW r \in Runs, OpenRead(r) \/ CloseRead(r) \/ CloseReadAll(r) PROVE Silent
  <2>1. taskOf[r] \in Tasks
    BY <1>4 DEF OpenRead, CloseRead, CloseReadAll, StageOK
  <2>2. QED
    BY <1>3, <1>4, <2>1 DEF OpenRead, CloseRead, CloseReadAll, Actors
<1>5. ASSUME NEW e \in Editors, NEW p \in Patches, EditRead(e, p) PROVE Silent
  BY <1>3, <1>5 DEF EditRead, Actors
<1>6. ASSUME NEW e \in Editors, EditReadAll(e) PROVE Silent
  <2>1. edit[e].req.task \in Tasks
    BY <1>6 DEF EditReadAll, TypeOK, Edits
  <2>2. QED
    BY <1>3, <1>6, <2>1 DEF EditReadAll, Actors
<1>7. ASSUME NEW r \in Runs,
             \/ CreateRun(r) \/ Submit(r) \/ Pick(r) \/ MarkRunning(r) \/ FlowEnds(r)
             \/ MarkCompleted(r) \/ MarkFailed(r) \/ AcceptDetached(r)
      PROVE  Silent
  BY <1>7 DEF CreateRun, Submit, Pick, MarkRunning, FlowEnds, MarkCompleted, MarkFailed,
              MarkTerminal, AcceptDetached
<1>8. ASSUME NEW r \in Runs, CaughtFault(r) \/ FatalFault(r) PROVE Silent
  BY <1>2, <1>8 DEF CaughtFault, FatalFault, Fault, Close, TypeOK
<1>9. ASSUME Crash PROVE Silent
  BY <1>2, <1>9 DEF Crash
<1>10. CASE UNCHANGED vars
  BY <1>1, <1>10 DEF vars, table
<1> HIDE DEF Silent
<1>11. QED
  BY <1>1, <1>4, <1>5, <1>6, <1>7, <1>8, <1>9, <1>10,
     CreateOrder, AcceptOrder, EditOrder, RunOrder
  DEF Next, Clients, Handler, Worker, Editor

---------------------------------------------------------------------------
\* Every session, stale or not, keeps the blockers it must keep, so that no run is
\* accepted for a task before the tasks it was declared to depend on.
THEOREM DependenciesRespected == Spec => []NoDependencySkipped
<1> DEFINE Inv == TypeInv /\ OrderInv /\ SessionOK
<1>1. Init => Inv
  BY InitTypeInv, InitOrder
<1>2. Inv /\ [Next]_vars => Inv'
  BY NextTypeInv, NextOrder, NextSession DEF StepOK
<1>3. Inv => NoDependencySkipped
  BY DEF OrderInv
<1>4. QED
  BY <1>1, <1>2, <1>3, PTL DEF Spec

\* With its rows, sessions and threads forgotten, the harness is the task graph of
\* Dependencies: each of its steps declares, edits, begins or finishes one task, or
\* does nothing that the graph can see.
THEOREM HarnessImplementsGraph == Spec => ImplementsGraph
<1> DEFINE Inv == TypeInv /\ OrderInv /\ SessionOK
<1>1. Init => Inv /\ Graph!Init
  BY InitTypeInv, InitOrder
<1>2. Inv /\ [Next]_vars => Inv'
  BY NextTypeInv, NextOrder, NextSession DEF StepOK
<1>3. Inv /\ [Next]_vars => [Graph!Next]_(Graph!dvars)
  BY NextOrder DEF StepOK
<1>4. QED
  BY <1>1, <1>2, <1>3, PTL DEF Spec, ImplementsGraph, Graph!Spec

---------------------------------------------------------------------------
(***************************************************************************)
(* The status of a task and its runs: no ordinary interleaving leaves a    *)
(* task in_progress with nobody at work on it, and what a task's only run  *)
(* concluded is what the task says.                                        *)
(*                                                                         *)
(* InProgressHasRun is not inductive: a run whose session has loaded the   *)
(* status it is about to write will write nothing, as the column is not    *)
(* dirty, and so does not count as one that will take the task out of      *)
(* in_progress.  HeldInv counts only the threads that will.                *)
(***************************************************************************)

\* The thread of r will write the status of its task t, or was cut off before it did.
Holds(r, t) ==
    /\ taskOf[r] = t
    /\ \/ stage[r] \in {"opened", "queued", "picked", "running", "succeeded", "raised",
                        "closing", "dead"}
       \/ stage[r] \in {"settling", "clearing"} /\ seen[r][t].status = "in_progress"

HeldInv ==
    \A t \in Tasks : tasks[t].status = "in_progress" => \E r \in Runs : Holds(r, t)

\* Only start writes in_progress; a client who sends it takes over the bookkeeping.
NoManualStart == \A p \in Patches : p.status # "in_progress"

---------------------------------------------------------------------------
LEMMA SetStatusNotBegins ==
    ASSUME NEW rows \in Snapshots, NEW t \in Tasks, NEW status \in TaskStatus,
           NEW u \in Tasks, SetStatus(rows, t, status)[u].status = "in_progress"
    PROVE  rows[u].status = "in_progress" \/ (u = t /\ status = "in_progress")
<1> DEFINE set == [rows EXCEPT ![t].status = status]
<1>1. set[u].status = IF u = t THEN status ELSE rows[u].status
  BY DEF Snapshots, Row
<1>2. ClearDependency(set, t)[u].status \in {set[u].status, "pending"}
  BY DEF ClearDependency, ReleasedFrom
<1>3. QED
  BY <1>1, <1>2 DEF SetStatus

LEMMA PatchedNotBegins ==
    ASSUME NEW rows \in Snapshots, NEW t \in Tasks, NEW bag \in BlockerBags \cup {Keep},
           NEW status \in TaskStatus \cup {Keep}, status # "in_progress", NEW u \in Tasks,
           Patched(rows, t, bag, status)[u].status = "in_progress"
    PROVE  rows[u].status = "in_progress"
<1> DEFINE reblocked == IF bag = Keep THEN rows
                        ELSE [rows EXCEPT ![t] = Reblocked(rows[t], bag)]
<1>1. ASSUME bag \in BlockerBags PROVE Reblocked(rows[t], bag) \in Row
  BY <1>1 DEF Reblocked, Row, Snapshots, TaskStatus
<1>2. reblocked \in Snapshots
  BY <1>1 DEF Snapshots
<1>3. reblocked[u].status \in {rows[u].status, "blocked", "pending"}
  BY DEF Reblocked, Snapshots
<1>4. CASE status = Keep
  BY <1>3, <1>4 DEF Patched
<1>5. CASE status # Keep
  BY <1>2, <1>3, <1>5, SetStatusNotBegins DEF Patched
<1>6. QED
  BY <1>4, <1>5

---------------------------------------------------------------------------
LEMMA NextHeld ==
    ASSUME NoManualStart, TypeInv, HeldInv, [Next]_vars
    PROVE  HeldInv'
<1> USE HarnessAssumption DEF TypeInv
<1> SUFFICES ASSUME NEW t \in Tasks, tasks'[t].status = "in_progress"
             PROVE  \E r \in Runs : Holds(r, t)'
  BY DEF HeldInv
<1> DEFINE Kept == \E r \in Runs : Holds(r, t)'
<1>1. ASSUME NEW x \in Runs, tasks'[t].status = tasks[t].status,
             \A r \in Runs \ {x} : UNCHANGED <<stage[r], taskOf[r], seen[r]>>,
             Holds(x, t) => Holds(x, t)'
      PROVE  Kept
  BY <1>1 DEF HeldInv, Holds
<1>2. ASSUME NEW n \in Creations, Create(n.task, n.bag) PROVE Kept
  <2>1. t # n.task
    BY <1>2 DEF Create, NewRow, TypeOK, Snapshots
  <2>2. tasks[t].status = "in_progress"
    BY <1>2, <2>1 DEF Create, TypeOK
  <2>3. QED
    BY <1>2, <2>2 DEF Create, HeldInv, Holds
<1>3. ASSUME NEW e \in Editors, NEW p \in Patches, EditRead(e, p) PROVE Kept
  BY <1>3 DEF EditRead, Load, table, HeldInv, Holds, TypeOK, Actors
<1>4. ASSUME NEW e \in Editors, EditReadAll(e) PROVE Kept
  BY <1>4 DEF EditReadAll, LoadAll, table, HeldInv, Holds, TypeOK, Actors
<1>5. ASSUME NEW e \in Editors, EditCommit(e) PROVE Kept
  <2> DEFINE p == edit[e].req
             new == Patched(seen[e], p.task, p.bag, p.status)
  <2>1. /\ p \in Patches /\ seen[e] \in Snapshots
        /\ Commit(e, new)
    BY <1>5 DEF EditCommit, TypeOK, Edits, Actors
  <2>2. new[t].status = "in_progress" => seen[e][t].status = "in_progress"
    BY <2>1, PatchedNotBegins DEF NoManualStart
  <2>3. tasks[t].status = "in_progress"
    BY <2>1, <2>2 DEF Commit, Flush, FlushRow
  <2>4. \A r \in Runs : UNCHANGED <<stage[r], taskOf[r], seen[r]>>
    BY <1>5 DEF EditCommit, Commit, Close, TypeOK, Actors
  <2>5. QED
    BY <2>3, <2>4 DEF HeldInv, Holds
<1>6. ASSUME NEW r \in Runs, OpenCommit(r) PROVE Kept
  <2>1. taskOf[r] \in Tasks /\ seen[r] \in Snapshots
    BY <1>6 DEF OpenCommit, StageOK, TypeOK, Actors
  <2>2. stage'[r] = "opened" /\ UNCHANGED taskOf
    BY <1>6 DEF OpenCommit, Goto, TypeOK
  <2>3. CASE t = taskOf[r]
    BY <2>2, <2>3 DEF Holds
  <2>4. CASE t # taskOf[r]
    <3>1. tasks[t].status = "in_progress"
      BY <1>6, <2>1, <2>4, SetStatusNotBegins
      DEF OpenCommit, Commit, Flush, FlushRow, TaskStatus
    <3>2. PICK x \in Runs : Holds(x, t)
      BY <3>1 DEF HeldInv
    <3>3. x # r /\ stage'[x] = stage[x] /\ seen'[x] = seen[x]
      BY <1>6, <2>4, <3>2 DEF Holds, OpenCommit, Commit, Close, Goto, TypeOK, Actors
    <3>4. QED
      BY <2>2, <3>2, <3>3 DEF Holds
  <2>5. QED
    BY <2>3, <2>4
<1>7. ASSUME NEW r \in Runs, CloseCommit(r) PROVE Kept
  <2> DEFINE new == SetStatus(seen[r], taskOf[r], runStatus[r])
  <2>1. /\ taskOf[r] \in Tasks /\ seen[r] \in Snapshots /\ runStatus[r] \in Terminal
        /\ Commit(r, new) /\ UNCHANGED taskOf
    BY <1>7 DEF CloseCommit, StageOK, TypeOK, Actors, Terminal
  <2>2. new[t].status = "in_progress" => seen[r][t].status = "in_progress"
    BY <2>1, SetStatusNotBegins DEF Terminal, TaskStatus
  <2>3. tasks[t].status = "in_progress"
    BY <2>1, <2>2 DEF Commit, Flush, FlushRow
  <2>4. PICK x \in Runs : Holds(x, t)
    BY <2>3 DEF HeldInv
  <2>5. x # r
    <3> SUFFICES ASSUME x = r PROVE FALSE
      OBVIOUS
    <3>1. seen[r][t].status = "in_progress" /\ t = taskOf[r]
      BY <1>7, <2>4 DEF Holds, CloseCommit
    <3>2. new[t].status # "in_progress"
      <4>1. [seen[r] EXCEPT ![t].status = runStatus[r]][t].status = runStatus[r]
        BY <2>1 DEF Snapshots, Row
      <4>2. new[t].status \in {runStatus[r], "pending"}
        BY <3>1, <4>1 DEF SetStatus, ClearDependency, ReleasedFrom
      <4>3. QED
        BY <2>1, <4>2 DEF Terminal
    <3>3. QED
      BY <2>1, <3>1, <3>2 DEF Commit, Flush, FlushRow
  <2>6. stage'[x] = stage[x] /\ seen'[x] = seen[x]
    BY <1>7, <2>5 DEF CloseCommit, Commit, Close, Goto, TypeOK, Actors
  <2>7. QED
    BY <2>1, <2>4, <2>6 DEF Holds
<1>8. ASSUME NEW r \in Runs, OpenRead(r) \/ CloseRead(r) \/ CloseReadAll(r) PROVE Kept
  <2>1. taskOf[r] \in Tasks /\ UNCHANGED <<tasks, taskOf>>
    BY <1>8 DEF OpenRead, CloseRead, CloseReadAll, StageOK, table
  <2>2. \A x \in Runs \ {r} : UNCHANGED <<stage[x], taskOf[x], seen[x]>>
    BY <1>8 DEF OpenRead, CloseRead, CloseReadAll, Load, LoadAll, Goto, TypeOK, Actors
  <2>3. Holds(r, t) => Holds(r, t)'
    BY <1>8, <2>1 DEF Holds, OpenRead, CloseRead, CloseReadAll, Load, LoadAll, Goto,
                      TypeOK, Actors, Unread
  <2>4. QED
    BY <1>1, <2>1, <2>2, <2>3
<1>9. ASSUME NEW r \in Runs,
             \/ CreateRun(r) \/ Submit(r) \/ Pick(r) \/ MarkRunning(r) \/ FlowEnds(r)
             \/ MarkCompleted(r) \/ MarkFailed(r)
      PROVE  Kept
  BY <1>1, <1>9 DEF CreateRun, Submit, Pick, MarkRunning, FlowEnds, MarkCompleted,
                    MarkFailed, MarkTerminal, Goto, Holds, TypeOK, table
<1>10. ASSUME NEW r \in Runs,
              AcceptDetached(r) \/ (\E u \in Tasks : Accept(r, u))
       PROVE  Kept
  <2>1. stage[r] = "idle" /\ ~Holds(r, t)
    BY <1>10 DEF AcceptDetached, Accept, Holds
  <2>2. UNCHANGED <<tasks, seen>>
    BY <1>10 DEF AcceptDetached, Accept, table
  <2>3. \A x \in Runs \ {r} : UNCHANGED <<stage[x], taskOf[x], seen[x]>>
    BY <1>10 DEF AcceptDetached, Accept, Goto, TypeOK
  <2>4. QED
    BY <1>1, <2>1, <2>2, <2>3
<1>11. ASSUME NEW r \in Runs, CaughtFault(r) \/ FatalFault(r) PROVE Kept
  <2>1. PICK s \in {"raised", "dead"} : Fault(r, s)
    BY <1>11 DEF CaughtFault, FatalFault
  <2>2. UNCHANGED <<tasks, taskOf>> /\ stage'[r] \in {"raised", "dead"}
    BY <2>1 DEF Fault, Goto, table, TypeOK
  <2>3. \A x \in Runs \ {r} : UNCHANGED <<stage[x], taskOf[x], seen[x]>>
    BY <2>1 DEF Fault, Goto, Close, table, TypeOK
  <2>4. Holds(r, t) => Holds(r, t)'
    BY <2>2 DEF Holds
  <2>5. QED
    BY <1>1, <2>2, <2>3, <2>4
<1>12. ASSUME Crash PROVE Kept
  <2>1. PICK x \in Runs : Holds(x, t)
    BY <1>12 DEF Crash, table, HeldInv
  <2>2. stage'[x] = "dead" /\ UNCHANGED taskOf
    BY <1>12, <2>1 DEF Crash, Holds
  <2>3. QED
    BY <2>1, <2>2 DEF Holds
<1>13. CASE UNCHANGED vars
  BY <1>13 DEF vars, HeldInv, Holds
<1>14. QED
  BY <1>2, <1>3, <1>4, <1>5, <1>6, <1>7, <1>8, <1>9, <1>10, <1>11, <1>12, <1>13
  DEF Next, Clients, Handler, Worker, Editor

\* Unless a client writes in_progress by hand, a task is in_progress only while one of
\* its runs is queued or executing, or was cut off by an error or a crash.
THEOREM InProgressIsHeld ==
    ASSUME NoManualStart
    PROVE  Spec => []InProgressHasRun
<1> DEFINE Inv == TypeInv /\ HeldInv
<1>1. Init => Inv
  BY InitTypeInv DEF Init, HeldInv, Absent
<1>2. Inv /\ [Next]_vars => Inv'
  BY NextTypeInv, NextHeld
<1>3. Inv => InProgressHasRun
  BY DEF TypeInv, HeldInv, Holds, InProgressHasRun, Unsettled, Executing
<1>4. QED
  BY <1>1, <1>2, <1>3, PTL DEF Spec

---------------------------------------------------------------------------
(***************************************************************************)
(* The verdict of a task's only run.  Another session can undo it only by  *)
(* releasing the task once more, from a row that it loaded while the task  *)
(* was still blocked.  RowsInv says what a loaded row knows of the         *)
(* blockers: one that it does not list was completed by a run that is      *)
(* over.  LateInv concludes that a session which would still release a     *)
(* task that has left `blocked' has a rival, an earlier run of the same    *)
(* blocker; VerdictInv, that otherwise the task follows its run.           *)
(***************************************************************************)

Untouched == {t \in Tasks : \A p \in Patches : p.task # t}

Over(r) == stage[r] = "done" /\ runStatus[r] = "completed"

Finished(u) == \E r \in Runs : taskOf[r] = u /\ Over(r)

\* The blockers in the bag were declared, and the others are finished.
BagOK(t, bag) ==
    /\ Listed(bag) \subseteq declared[t]
    /\ \A u \in declared[t] \ Listed(bag) : Finished(u)

RowOK(t, row) ==
    /\ row.status = "none" => row = Absent
    /\ row.status # "none" /\ Unpatched(t) => BagOK(t, row.blockedBy)

RowsInv ==
    \A t \in Untouched :
        /\ RowOK(t, tasks[t])
        /\ \A k \in Actors :
               RowOK(t, seen[k][t]) /\ (seen[k][t].status # "none" => Exists(t))

\* A session that completes p releases the row.
Frees(row, p) ==
    /\ row.status = "blocked"
    /\ p \in Listed(row.blockedBy)
    /\ Listed(RemoveOne(row.blockedBy, p)) = {}

LateInv ==
    \A t \in Untouched, x \in Runs :
        /\ Unpatched(t) /\ Exists(t) /\ tasks[t].status # "blocked"
        /\ stage[x] = "clearing" /\ taskOf[x] # t /\ Frees(seen[x][t], taskOf[x])
        => \E y \in Runs \ {x} : taskOf[y] = taskOf[x] /\ Over(y)

\* Nobody but r decides on its task.
Alone(r) ==
    /\ taskOf[r] \in Untouched
    /\ \A x \in Runs \ {r} : taskOf[x] # taskOf[r]
    /\ Unpatched(taskOf[r])
    /\ \A u \in declared[taskOf[r]] : ~CompletedTwice(u)

Restartable == {"pending", "failed"}

RunVerdict(r, t) ==
    /\ stage[r] \in {"accepted", "created", "opening"} => tasks[t].status \in Restartable
    /\ stage[r] = "opening" => seen[r][t].status \in Restartable
    /\ stage[r] \in {"opened", "queued"} \cup Executing => tasks[t].status = "in_progress"
    /\ stage[r] \in {"settling", "clearing"} => seen[r][t].status = "in_progress"
    /\ stage[r] = "done" => tasks[t].status = runStatus[r]

VerdictInv ==
    \A r \in Runs :
        /\ taskOf[r] \in Untouched =>
               Exists(taskOf[r]) /\ tasks[taskOf[r]].status # "blocked"
        /\ Alone(r) => RunVerdict(r, taskOf[r])

---------------------------------------------------------------------------
(* What one commit does to the row of a task.                              *)

LEMMA RemoveOneLeaves ==
    ASSUME NEW bag \in BlockerBags, NEW p \in Tasks, p \in Listed(bag)
    PROVE  /\ Listed(RemoveOne(bag, p)) \subseteq Listed(bag)
           /\ Listed(bag) \ Listed(RemoveOne(bag, p)) \subseteq {p}
  BY DEF Listed, RemoveOne, BlockerBags

\* The row of another task after p was given its status: as it was, or released from p.
RowAfter(old, loaded, new, p) ==
    \/ new = old
    \/ /\ p \in Listed(loaded.blockedBy)
       /\ new.status \in {old.status, "pending"}
       /\ new.status = old.status \/ Frees(loaded, p)
       /\ new.blockedBy \in {old.blockedBy, RemoveOne(loaded.blockedBy, p)}

LEMMA SetStatusRow ==
    ASSUME NEW db \in Snapshots, NEW rows \in Snapshots, NEW loaded \in Snapshots,
           NEW p \in Tasks, NEW status \in TaskStatus, NEW t \in Tasks, t # p,
           rows[t] = loaded[t]
    PROVE  LET new == Flush(db, loaded, SetStatus(rows, p, status))[t]
           IN  /\ RowAfter(db[t], loaded[t], new, p)
               /\ status # "completed" => new = db[t]
<1> DEFINE set == [rows EXCEPT ![p].status = status]
           new == SetStatus(rows, p, status)[t]
<1>1. set[t] = loaded[t]
  BY DEF Snapshots
<1>2. \/ new = loaded[t]
      \/ /\ status = "completed" /\ p \in Listed(loaded[t].blockedBy)
         /\ new = ReleasedFrom(loaded[t], p)
  BY <1>1 DEF SetStatus, ClearDependency
<1>3. db[t] \in Row /\ db[t] = [status |-> db[t].status, blockedBy |-> db[t].blockedBy]
  BY DEF Snapshots, Row
<1>4. Flush(db, loaded, SetStatus(rows, p, status))[t] = FlushRow(db[t], loaded[t], new)
  BY DEF Flush
<1>5. CASE new = loaded[t]
  BY <1>3, <1>4, <1>5 DEF FlushRow, RowAfter
<1>6. CASE /\ status = "completed" /\ p \in Listed(loaded[t].blockedBy)
           /\ new = ReleasedFrom(loaded[t], p)
  BY <1>4, <1>6 DEF FlushRow, RowAfter, ReleasedFrom, Frees
<1>7. QED
  BY <1>2, <1>5, <1>6

LEMMA SetStatusOwnRow ==
    ASSUME NEW db \in Snapshots, NEW loaded \in Snapshots, NEW p \in Tasks,
           NEW status \in {"in_progress", "completed", "failed"}
    PROVE  LET new == Flush(db, loaded, SetStatus(loaded, p, status))[p]
           IN  /\ new.status = IF loaded[p].status = status THEN db[p].status ELSE status
               /\ \/ new.blockedBy = db[p].blockedBy
                  \/ /\ status = "completed" /\ p \in Listed(loaded[p].blockedBy)
                     /\ new.blockedBy = RemoveOne(loaded[p].blockedBy, p)
<1> DEFINE set == [loaded EXCEPT ![p].status = status]
           new == SetStatus(loaded, p, status)[p]
<1>1. set[p].status = status /\ set[p].blockedBy = loaded[p].blockedBy
  BY DEF Snapshots, Row
<1>2. /\ new.status = status
      /\ \/ new.blockedBy = loaded[p].blockedBy
         \/ /\ status = "completed" /\ p \in Listed(loaded[p].blockedBy)
            /\ new.blockedBy = RemoveOne(loaded[p].blockedBy, p)
  BY <1>1 DEF SetStatus, ClearDependency, ReleasedFrom
<1>3. Flush(db, loaded, SetStatus(loaded, p, status))[p] = FlushRow(db[p], loaded[p], new)
  BY DEF Flush
<1>4. QED
  BY <1>2, <1>3 DEF FlushRow

\* A PATCH of p leaves the other rows to the completion of p.
LEMMA PatchedRow ==
    ASSUME NEW db \in Snapshots, NEW loaded \in Snapshots, NEW p \in Tasks,
           NEW bag \in BlockerBags \cup {Keep}, NEW status \in TaskStatus \cup {Keep},
           NEW t \in Tasks, t # p
    PROVE  RowAfter(db[t], loaded[t], Flush(db, loaded, Patched(loaded, p, bag, status))[t], p)
<1> DEFINE reblocked == IF bag = Keep THEN loaded
                        ELSE [loaded EXCEPT ![p] = Reblocked(loaded[p], bag)]
<1>1. ASSUME bag \in BlockerBags PROVE Reblocked(loaded[p], bag) \in Row
  BY <1>1 DEF Reblocked, Row, Snapshots, TaskStatus
<1>2. reblocked \in Snapshots /\ reblocked[t] = loaded[t]
  BY <1>1 DEF Snapshots
<1>3. CASE status = Keep
  <2>1. Flush(db, loaded, Patched(loaded, p, bag, status))[t] =
            FlushRow(db[t], loaded[t], loaded[t])
    BY <1>2, <1>3 DEF Flush, Patched
  <2>2. QED
    BY <2>1 DEF FlushRow, RowAfter, Snapshots, Row
<1>4. CASE status # Keep
  BY <1>2, <1>4, SetStatusRow DEF Patched
<1>5. QED
  BY <1>3, <1>4

---------------------------------------------------------------------------
(* The steps: two commit, one posts a task, and the rest leave the table alone. *)

RunCommits(r) == OpenCommit(r) \/ CloseCommit(r)

Still ==
    /\ UNCHANGED <<tasks, declared>>
    /\ \A k \in Actors, t \in Tasks : seen'[k][t] \in {seen[k][t], tasks[t], Absent}

LEMMA NextKinds ==
    ASSUME TypeInv, [Next]_vars
    PROVE  \/ Still
           \/ \E n \in Creations : Create(n.task, n.bag)
           \/ \E r \in Runs : RunCommits(r)
           \/ \E e \in Editors : EditCommit(e)
<1> USE DEF TypeInv, table
<1>1. ASSUME NEW k \in Actors, NEW t \in Tasks, Load(k, t) \/ LoadAll(k, t) \/ Close(k)
      PROVE  \A j \in Actors, u \in Tasks : seen'[j][u] \in {seen[j][u], tasks[u], Absent}
  BY <1>1 DEF Load, LoadAll, Close, TypeOK, Snapshots, Unread
<1>2. ASSUME NEW e \in Editors, NEW p \in Patches, EditRead(e, p) PROVE Still
  BY <1>1, <1>2, HarnessAssumption DEF EditRead, Still, Actors
<1>3. ASSUME NEW e \in Editors, EditReadAll(e) PROVE Still
  <2>1. edit[e].req.task \in Tasks
    BY <1>3, HarnessAssumption DEF EditReadAll, TypeOK, Edits
  <2>2. QED
    BY <1>1, <1>3, <2>1 DEF EditReadAll, Still, Actors
<1>4. ASSUME NEW r \in Runs, OpenRead(r) \/ CloseRead(r) \/ CloseReadAll(r) PROVE Still
  <2>1. taskOf[r] \in Tasks
    BY <1>4 DEF OpenRead, CloseRead, CloseReadAll, StageOK
  <2>2. QED
    BY <1>1, <1>4, <2>1 DEF OpenRead, CloseRead, CloseReadAll, Still, Actors
<1>5. ASSUME NEW r \in Runs, CaughtFault(r) \/ FatalFault(r) PROVE Still
  BY <1>5 DEF CaughtFault, FatalFault, Fault, Close, Still, TypeOK, Snapshots, Unread
<1>6. ASSUME Crash PROVE Still
  BY <1>6 DEF Crash, Still, Unread
<1>7. ASSUME NEW r \in Runs,
             \/ AcceptDetached(r) \/ (\E t \in Tasks : Accept(r, t))
             \/ CreateRun(r) \/ Submit(r) \/ Pick(r) \/ MarkRunning(r) \/ FlowEnds(r)
             \/ MarkCompleted(r) \/ MarkFailed(r)
      PROVE  Still
  BY <1>7 DEF AcceptDetached, Accept, CreateRun, Submit, Pick, MarkRunning, FlowEnds,
              MarkCompleted, MarkFailed, MarkTerminal, Still
<1>8. UNCHANGED vars => Still
  BY DEF vars, Still
<1>9. QED
  BY <1>2, <1>3, <1>4, <1>5, <1>6, <1>7, <1>8
  DEF Next, Clients, Handler, Worker, Editor, RunCommits

\* The queue holds runs that are queued, each once.
QueueInv ==
    /\ \A i \in DOMAIN queue : stage[queue[i]] = "queued"
    /\ \A i, j \in DOMAIN queue : queue[i] = queue[j] => i = j

LEMMA NextQueue ==
    ASSUME TypeInv, QueueInv, [Next]_vars
    PROVE  QueueInv'
<1> USE DEF TypeInv, table, TypeOK
<1>1. \A i \in DOMAIN queue : queue[i] \in Runs
  OBVIOUS
<1>2. ASSUME NEW x \in Runs, stage[x] # "queued", queue' = queue,
             \A y \in Runs \ {x} : stage'[y] = stage[y]
      PROVE  QueueInv'
  BY <1>1, <1>2 DEF QueueInv
<1>3. ASSUME NEW x \in Runs,
             \/ AcceptDetached(x) \/ (\E t \in Tasks : Accept(x, t))
             \/ CreateRun(x) \/ MarkRunning(x) \/ FlowEnds(x)
             \/ MarkCompleted(x) \/ MarkFailed(x)
             \/ OpenRead(x) \/ CloseRead(x) \/ CloseReadAll(x) \/ RunCommits(x)
             \/ CaughtFault(x) \/ FatalFault(x)
      PROVE  QueueInv'
  <2>1. stage[x] # "queued" /\ queue' = queue
    BY <1>3 DEF AcceptDetached, Accept, CreateRun, MarkRunning, FlowEnds, MarkCompleted,
                MarkFailed, MarkTerminal, OpenRead, CloseRead, CloseReadAll, RunCommits,
                OpenCommit, CloseCommit, CaughtFault, FatalFault, Fault
  <2>2. \A y \in Runs \ {x} : stage'[y] = stage[y]
    BY <1>3 DEF AcceptDetached, Accept, CreateRun, MarkRunning, FlowEnds, MarkCompleted,
                MarkFailed, MarkTerminal, OpenRead, CloseRead, CloseReadAll, RunCommits,
                OpenCommit, CloseCommit, CaughtFault, FatalFault, Fault, Goto
  <2>3. QED
    BY <1>2, <2>1, <2>2
<1>4. ASSUME NEW x \in Runs, Submit(x) PROVE QueueInv'
  <2>1. /\ queue' = Append(queue, x) /\ stage[x] = "opened"
        /\ stage' = [stage EXCEPT ![x] = "queued"]
    BY <1>4 DEF Submit, Goto
  <2>2. \A i \in DOMAIN queue : queue[i] # x
    BY <2>1 DEF QueueInv
  <2>3. \A i \in DOMAIN queue' :
            \/ i \in DOMAIN queue /\ queue'[i] = queue[i]
            \/ i = Len(queue) + 1 /\ queue'[i] = x
    BY <2>1
  <2>4. QED
    BY <1>1, <2>1, <2>2, <2>3 DEF QueueInv
<1>5. ASSUME NEW x \in Runs, Pick(x) PROVE QueueInv'
  <2>1. /\ queue # <<>> /\ x = queue[1] /\ queue' = Tail(queue)
        /\ stage' = [stage EXCEPT ![x] = "picked"]
    BY <1>5 DEF Pick, Goto
  <2>2. \A i \in DOMAIN queue' : i + 1 \in DOMAIN queue /\ queue'[i] = queue[i + 1]
    BY <2>1
  <2>3. 1 \in DOMAIN queue
    BY <2>1
  <2>4. \A i \in DOMAIN queue' : i \in Nat \ {0} /\ queue'[i] # x
    BY <2>1, <2>2, <2>3 DEF QueueInv
  <2>5. QED
    BY <1>1, <2>1, <2>2, <2>4 DEF QueueInv
<1>6. ASSUME Crash PROVE QueueInv'
  BY <1>6 DEF Crash, QueueInv
<1>7. ASSUME \/ \E n \in Creations : Create(n.task, n.bag)
             \/ \E e \in Editors, p \in Patches : EditRead(e, p)
             \/ \E e \in Editors : Editor(e)
             \/ UNCHANGED vars
      PROVE  QueueInv'
  BY <1>7 DEF Create, EditRead, Editor, EditReadAll, EditCommit, vars, QueueInv
<1>8. QED
  BY <1>3, <1>4, <1>5, <1>6, <1>7 DEF Next, Clients, Handler, Worker, RunCommits

\* A run keeps its task, and one that is over stays so.
LEMMA OverStays ==
    ASSUME TypeInv, QueueInv, [Next]_vars, NEW r \in Runs
    PROVE  /\ stage[r] # "idle" => taskOf'[r] = taskOf[r]
           /\ Over(r) => Over(r)'
<1> USE DEF TypeInv, table, Over, TypeOK
<1>1. ASSUME NEW x \in Runs,
             \/ AcceptDetached(x) \/ (\E t \in Tasks : Accept(x, t))
             \/ CreateRun(x) \/ Submit(x) \/ Pick(x) \/ MarkRunning(x) \/ FlowEnds(x)
             \/ MarkCompleted(x) \/ MarkFailed(x)
      PROVE  (stage[r] # "idle" => taskOf'[r] = taskOf[r]) /\ (Over(r) => Over(r)')
  <2>1. CASE x = r
    <3>1. Pick(r) => stage[r] = "queued"
      BY DEF Pick, QueueInv
    <3>2. stage[r] # "done"
      BY <1>1, <2>1, <3>1 DEF AcceptDetached, Accept, CreateRun, Submit, Pick, MarkRunning,
                        FlowEnds, MarkCompleted, MarkFailed, MarkTerminal
    <3>3. stage[r] # "idle" => taskOf'[r] = taskOf[r]
      BY <1>1, <2>1 DEF AcceptDetached, Accept, CreateRun, Submit, Pick, MarkRunning,
                        FlowEnds, MarkCompleted, MarkFailed, MarkTerminal
    <3>4. QED
      BY <3>2, <3>3
  <2>2. CASE x # r
    BY <1>1, <2>2 DEF AcceptDetached, Accept, CreateRun, Submit, Pick, MarkRunning,
                      FlowEnds, MarkCompleted, MarkFailed, MarkTerminal, Goto
  <2>3. QED
    BY <2>1, <2>2
<1>2. ASSUME NEW x \in Runs,
             \/ OpenRead(x) \/ CloseRead(x) \/ CloseReadAll(x) \/ RunCommits(x)
             \/ CaughtFault(x) \/ FatalFault(x)
      PROVE  UNCHANGED taskOf /\ (Over(r) => Over(r)')
  BY <1>2 DEF OpenRead, CloseRead, CloseReadAll, RunCommits, OpenCommit, CloseCommit,
              CaughtFault, FatalFault, Fault, Goto
<1>3. ASSUME Crash PROVE UNCHANGED taskOf /\ (Over(r) => Over(r)')
  BY <1>3 DEF Crash
<1>4. ASSUME \/ \E n \in Creations : Create(n.task, n.bag)
             \/ \E e \in Editors, p \in Patches : EditRead(e, p)
             \/ \E e \in Editors : Editor(e)
             \/ UNCHANGED vars
      PROVE  UNCHANGED <<taskOf, stage, runStatus>>
  BY <1>4 DEF Create, EditRead, Editor, EditReadAll, EditCommit, vars
<1>5. QED
  BY <1>1, <1>2, <1>3, <1>4 DEF Next, Clients, Handler, Worker, RunCommits

LEMMA RunCommitsRows ==
    ASSUME TypeInv, NEW r \in Runs, RunCommits(r)
    PROVE  /\ taskOf[r] \in Tasks
           /\ UNCHANGED <<taskOf, runStatus, declared>>
           /\ \A k \in Actors \ {r} : seen'[k] = seen[k]
           /\ seen'[r] = Unread
           /\ \A x \in Runs \ {r} : stage'[x] = stage[x]
           /\ \/ stage[r] = "opening" /\ stage'[r] = "opened"
              \/ stage[r] \in {"settling", "clearing"} /\ stage'[r] = "done"
           /\ \A t \in Tasks \ {taskOf[r]} :
                  /\ RowAfter(tasks[t], seen[r][t], tasks'[t], taskOf[r])
                  /\ tasks'[t] # tasks[t] => stage[r] = "clearing" /\ Over(r)'
<1> DEFINE p == taskOf[r]
           st == IF stage[r] = "opening" THEN "in_progress" ELSE runStatus[r]
<1>1. /\ p \in Tasks /\ seen[r] \in Snapshots /\ tasks \in Snapshots
      /\ st \in {"in_progress", "completed", "failed"}
      /\ stage[r] = "settling" => st = "failed"
  BY DEF RunCommits, OpenCommit, CloseCommit, TypeInv, TypeOK, StageOK, Actors, Terminal
<1>2. Commit(r, SetStatus(seen[r], p, st))
  BY DEF RunCommits, OpenCommit, CloseCommit
<1>3. /\ UNCHANGED <<taskOf, runStatus, declared>>
      /\ \A x \in Runs \ {r} : stage'[x] = stage[x]
      /\ \/ stage[r] = "opening" /\ stage'[r] = "opened"
         \/ stage[r] \in {"settling", "clearing"} /\ stage'[r] = "done"
  BY DEF RunCommits, OpenCommit, CloseCommit, Goto, TypeInv, TypeOK
<1>4. (\A k \in Actors \ {r} : seen'[k] = seen[k]) /\ seen'[r] = Unread
  BY <1>2 DEF Commit, Close, TypeInv, TypeOK, Actors
<1>5. ASSUME NEW t \in Tasks \ {p}
      PROVE  /\ RowAfter(tasks[t], seen[r][t], tasks'[t], p)
             /\ st # "completed" => tasks'[t] = tasks[t]
  BY <1>1, <1>2, SetStatusRow DEF Commit, TaskStatus
<1>6. st = "completed" => stage[r] = "clearing" /\ Over(r)'
  BY <1>1, <1>3 DEF Over
<1>7. QED
  BY <1>1, <1>3, <1>4, <1>5, <1>6

LEMMA RunCommitsOwnRow ==
    ASSUME TypeInv, NEW r \in Runs, RunCommits(r)
    PROVE  LET p == taskOf[r]
               st == IF stage[r] = "opening" THEN "in_progress" ELSE runStatus[r]
           IN  /\ st \in {"in_progress", "completed", "failed"}
               /\ tasks'[p].status = IF seen[r][p].status = st THEN tasks[p].status ELSE st
               /\ \/ tasks'[p].blockedBy = tasks[p].blockedBy
                  \/ /\ p \in Listed(seen[r][p].blockedBy)
                     /\ tasks'[p].blockedBy = RemoveOne(seen[r][p].blockedBy, p)
                     /\ Over(r)'
<1> DEFINE p == taskOf[r]
           st == IF stage[r] = "opening" THEN "in_progress" ELSE runStatus[r]
<1>1. /\ p \in Tasks /\ seen[r] \in Snapshots /\ tasks \in Snapshots
      /\ st \in {"in_progress", "completed", "failed"}
  BY DEF RunCommits, OpenCommit, CloseCommit, TypeInv, TypeOK, StageOK, Actors, Terminal
<1>2. tasks' = Flush(tasks, seen[r], SetStatus(seen[r], p, st))
  BY DEF RunCommits, OpenCommit, CloseCommit, Commit
<1>3. st = "completed" => Over(r)'
  BY RunCommitsRows DEF Over
<1>4. QED
  BY <1>1, <1>2, <1>3, SetStatusOwnRow

LEMMA EditCommitsRows ==
    ASSUME TypeInv, NEW e \in Editors, EditCommit(e)
    PROVE  LET p == edit[e].req.task
           IN  /\ p \in Tasks \ Untouched
               /\ UNCHANGED <<taskOf, runStatus, stage>>
               /\ \A k \in Actors \ {e} : seen'[k] = seen[k]
               /\ seen'[e] = Unread
               /\ \A t \in Untouched :
                      /\ declared'[t] = declared[t]
                      /\ RowAfter(tasks[t], seen[e][t], tasks'[t], p)
<1> DEFINE q == edit[e].req
<1>1. /\ q \in Patches /\ seen[e] \in Snapshots /\ tasks \in Snapshots
      /\ q.task \in Tasks /\ q.bag \in BlockerBags \cup {Keep}
      /\ q.status \in TaskStatus \cup {Keep}
  BY HarnessAssumption DEF EditCommit, TypeInv, TypeOK, Edits, Actors
<1>2. q.task \notin Untouched
  BY <1>1 DEF Untouched
<1>3. (\A k \in Actors \ {e} : seen'[k] = seen[k]) /\ seen'[e] = Unread
  BY DEF EditCommit, Commit, Close, TypeInv, TypeOK, Actors
<1>4. ASSUME NEW t \in Untouched
      PROVE  declared'[t] = declared[t] /\ RowAfter(tasks[t], seen[e][t], tasks'[t], q.task)
  <2>1. t \in Tasks /\ t # q.task
    BY <1>2 DEF Untouched
  <2>2. QED
    BY <1>1, <2>1, PatchedRow DEF EditCommit, Commit, TypeInv, TypeOK
<1>5. QED
  BY <1>1, <1>2, <1>3, <1>4 DEF EditCommit

---------------------------------------------------------------------------
(* What the loaded rows know.                                              *)

LEMMA UnpatchedIs ==
    ASSUME NEW t \in Untouched, TypeOK
    PROVE  Unpatched(t) <=> declared[t] \subseteq Untouched
  BY DEF Unpatched, Untouched, TypeOK

LEMMA BagsStay ==
    ASSUME TypeInv, QueueInv, [Next]_vars, NEW t \in Tasks, declared'[t] = declared[t]
    PROVE  /\ Unpatched(t)' = Unpatched(t)
           /\ \A bag \in BlockerBags : BagOK(t, bag) => BagOK(t, bag)'
           /\ \A row \in Row : RowOK(t, row) => RowOK(t, row)'
<1>1. Unpatched(t)' = Unpatched(t)
  BY DEF Unpatched
<1>2. \A u : Finished(u) => Finished(u)'
  <2> SUFFICES ASSUME NEW u, NEW r \in Runs, taskOf[r] = u /\ Over(r)
               PROVE  taskOf'[r] = u /\ Over(r)'
    BY DEF Finished
  <2> QED
    BY OverStays DEF Over
<1>3. \A bag \in BlockerBags : BagOK(t, bag) => BagOK(t, bag)'
  BY <1>2 DEF BagOK
<1>4. QED
  BY <1>1, <1>3 DEF RowOK, Row

LEMMA AbsentIsOK == ASSUME NEW t PROVE RowOK(t, Absent)
  BY DEF RowOK, Absent

\* A row released from the blocker of a run that is over now.
LEMMA RowAfterOK ==
    ASSUME TypeInv, QueueInv, [Next]_vars, NEW t \in Untouched, declared'[t] = declared[t],
           NEW loaded \in Row, NEW new \in Row, NEW p \in Tasks,
           RowOK(t, tasks[t]), RowOK(t, loaded), loaded.status # "none" => Exists(t),
           RowAfter(tasks[t], loaded, new, p),
           new = tasks[t] \/ p \notin Untouched \/ Finished(p)'
    PROVE  RowOK(t, new)' /\ (Exists(t) => new.status # "none")
<1> USE DEF TypeInv
<1>1. t \in Tasks /\ tasks[t] \in Row
  BY DEF Untouched, TypeOK, Snapshots
<1>2. CASE new = tasks[t]
  BY <1>1, <1>2, BagsStay DEF Exists
<1>3. CASE new # tasks[t]
  <2>1. p \in Listed(loaded.blockedBy) /\ loaded.blockedBy \in BlockerBags
    BY <1>3 DEF RowAfter, Row
  <2>2. loaded.status # "none"
    BY <2>1 DEF RowOK, Absent, NoBlockers, Listed
  <2>3. new.status # "none"
    BY <1>3, <2>2 DEF RowAfter, Exists
  <2>4. ASSUME Unpatched(t)' PROVE BagOK(t, new.blockedBy)'
    <3>1. Unpatched(t)
      BY <1>1, <2>4, BagsStay
    <3>2. BagOK(t, loaded.blockedBy) /\ BagOK(t, tasks[t].blockedBy)
      BY <2>2, <3>1 DEF RowOK, Exists
    <3>3. BagOK(t, loaded.blockedBy)'
      BY <1>1, <2>1, <3>2, BagsStay
    <3>4. p \in Untouched
      BY <2>1, <3>1, <3>2, UnpatchedIs DEF BagOK
    <3>5. Finished(p)'
      BY <1>3, <3>4
    <3>6. CASE new.blockedBy = tasks[t].blockedBy
      BY <1>1, <3>2, <3>6, BagsStay DEF Row
    <3>7. CASE new.blockedBy = RemoveOne(loaded.blockedBy, p)
      BY <2>1, <3>3, <3>5, <3>7, RemoveOneLeaves DEF BagOK
    <3>8. QED
      BY <1>3, <3>6, <3>7 DEF RowAfter
  <2>5. QED
    BY <2>3, <2>4 DEF RowOK
<1>4. QED
  BY <1>2, <1>3

LEMMA NextRows ==
    ASSUME TypeInv, QueueInv, RowsInv, VerdictInv, [Next]_vars
    PROVE  RowsInv'
<1> USE DEF TypeInv
<1>1. /\ Untouched \subseteq Tasks /\ Untouched' = Untouched
      /\ \A t \in Tasks : tasks[t] \in Row /\ \A k \in Actors : seen[k][t] \in Row
      /\ \A t \in Tasks : tasks'[t] \in Row /\ \A k \in Actors : seen'[k][t] \in Row
  <2>1. TypeOK'
    BY NextTypeInv
  <2>2. QED
    BY <2>1 DEF TypeOK, Snapshots, Untouched
<1>2. ASSUME Still, NEW t \in Untouched
      PROVE  /\ RowOK(t, tasks[t])'
             /\ \A k \in Actors :
                    RowOK(t, seen[k][t])' /\ (seen'[k][t].status # "none" => Exists(t)')
  <2>1. /\ declared'[t] = declared[t] /\ tasks'[t] = tasks[t]
        /\ \A k \in Actors : seen'[k][t] \in {seen[k][t], tasks[t], Absent}
    BY <1>1, <1>2 DEF Still
  <2>2. \A row \in Row : RowOK(t, row) => RowOK(t, row)'
    BY <1>1, <2>1, BagsStay
  <2>3. \A row \in {tasks[t], Absent} \cup {seen[k][t] : k \in Actors} : RowOK(t, row)'
    BY <1>1, <2>2, AbsentType, AbsentIsOK DEF RowsInv
  <2>4. \A k \in Actors : seen'[k][t].status # "none" => Exists(t)'
    BY <2>1 DEF RowsInv, Exists, Absent
  <2>5. QED
    BY <2>1, <2>3, <2>4 DEF RowOK, BagOK
<1>3. ASSUME NEW n \in Creations, Create(n.task, n.bag), NEW t \in Untouched
      PROVE  /\ RowOK(t, tasks[t])'
             /\ \A k \in Actors :
                    RowOK(t, seen[k][t])' /\ (seen'[k][t].status # "none" => Exists(t)')
  <2>1. n.task \in Tasks /\ n.bag \in BlockerBags
    BY HarnessAssumption
  <2>2. CASE t = n.task
    <3>1. tasks'[t] = NewRow(n.bag) /\ declared'[t] = Listed(n.bag) /\ seen' = seen
      BY <1>1, <1>3, <2>2 DEF Create, TypeOK, Snapshots
    <3>2. RowOK(t, tasks[t])' /\ Exists(t)'
      BY <3>1 DEF RowOK, BagOK, NewRow, Exists
    <3>3. \A k \in Actors : seen[k][t] = Absent
      BY <1>3, <2>2 DEF RowsInv, RowOK, Create
    <3>4. QED
      BY <3>1, <3>2, <3>3 DEF RowOK, Absent
  <2>3. CASE t # n.task
    <3>1. declared'[t] = declared[t] /\ tasks'[t] = tasks[t] /\ seen' = seen
      BY <1>1, <1>3, <2>3 DEF Create, TypeOK, Snapshots
    <3>2. \A row \in {tasks[t]} \cup {seen[k][t] : k \in Actors} : RowOK(t, row)'
      BY <1>1, <3>1, BagsStay DEF RowsInv
    <3>3. QED
      BY <3>1, <3>2 DEF RowOK, BagOK, Exists, RowsInv
  <2>4. QED
    BY <2>2, <2>3
<1>4. ASSUME NEW a \in Actors, NEW t \in Untouched, declared'[t] = declared[t],
             \A k \in Actors \ {a} : seen'[k] = seen[k], seen'[a] = Unread,
             RowOK(t, tasks[t])', Exists(t) => Exists(t)'
      PROVE  \A k \in Actors :
                 RowOK(t, seen[k][t])' /\ (seen'[k][t].status # "none" => Exists(t)')
  <2> SUFFICES ASSUME NEW k \in Actors
               PROVE  RowOK(t, seen[k][t])' /\ (seen'[k][t].status # "none" => Exists(t)')
    OBVIOUS
  <2>1. CASE k = a
    <3>1. seen'[k][t] = Absent
      BY <1>1, <1>4, <2>1 DEF Unread
    <3>2. QED
      BY <3>1 DEF RowOK, Absent
  <2>2. CASE k # a
    <3>1. seen'[k][t] = seen[k][t] /\ RowOK(t, seen[k][t])
      BY <1>4, <2>2 DEF RowsInv
    <3>2. \A row \in {seen[k][t]} : RowOK(t, row)'
      BY <1>1, <1>4, <3>1, BagsStay
    <3>3. QED
      BY <1>4, <2>2, <3>1, <3>2 DEF RowOK, BagOK, RowsInv
  <2>3. QED
    BY <2>1, <2>2
<1>5. ASSUME NEW e \in Editors, EditCommit(e), NEW t \in Untouched
      PROVE  /\ RowOK(t, tasks[t])'
             /\ \A k \in Actors :
                    RowOK(t, seen[k][t])' /\ (seen'[k][t].status # "none" => Exists(t)')
  <2> DEFINE p == edit[e].req.task
  <2>1. /\ p \in Tasks \ Untouched /\ declared'[t] = declared[t]
        /\ RowAfter(tasks[t], seen[e][t], tasks'[t], p)
        /\ (\A k \in Actors \ {e} : seen'[k] = seen[k]) /\ seen'[e] = Unread
    BY <1>5, EditCommitsRows
  <2>2. /\ RowOK(t, tasks[t]) /\ RowOK(t, seen[e][t])
        /\ seen[e][t].status # "none" => Exists(t)
    BY DEF RowsInv, Actors
  <2>3. \A row \in {tasks'[t]} : RowOK(t, row)' /\ (Exists(t) => row.status # "none")
    BY <1>1, <2>1, <2>2, RowAfterOK DEF Actors
  <2>4. RowOK(t, tasks[t])' /\ (Exists(t) => Exists(t)')
    BY <2>3 DEF RowOK, BagOK, Exists
  <2>5. QED
    BY <1>4, <2>1, <2>4 DEF Actors
<1>6. ASSUME NEW r \in Runs, RunCommits(r), NEW t \in Untouched
      PROVE  /\ RowOK(t, tasks[t])'
             /\ \A k \in Actors :
                    RowOK(t, seen[k][t])' /\ (seen'[k][t].status # "none" => Exists(t)')
  <2> DEFINE p == taskOf[r]
  <2>1. /\ p \in Tasks /\ UNCHANGED <<declared, taskOf>>
        /\ (\A k \in Actors \ {r} : seen'[k] = seen[k]) /\ seen'[r] = Unread
    BY <1>6, RunCommitsRows
  <2>2. /\ RowOK(t, tasks[t]) /\ RowOK(t, seen[r][t])
        /\ seen[r][t].status # "none" => Exists(t)
    BY DEF RowsInv, Actors
  <2>3. Over(r)' => Finished(p)'
    BY <2>1 DEF Finished
  <2>4. RowOK(t, tasks[t])' /\ (Exists(t) => Exists(t)')
    <3>1. CASE t # p
      <4>1. /\ RowAfter(tasks[t], seen[r][t], tasks'[t], p)
            /\ tasks'[t] = tasks[t] \/ Finished(p)'
        BY <1>1, <1>6, <2>3, <3>1, RunCommitsRows
      <4>2. \A row \in {tasks'[t]} : RowOK(t, row)' /\ (Exists(t) => row.status # "none")
        BY <1>1, <2>1, <2>2, <4>1, RowAfterOK DEF Actors
      <4>3. QED
        BY <4>2 DEF RowOK, BagOK, Exists
    <3>2. CASE t = p
      <4> DEFINE bag == seen[r][t].blockedBy
      <4>1. Exists(t)
        BY <3>2 DEF VerdictInv
      <4>2. /\ tasks'[t].status \in {tasks[t].status, "in_progress", "completed", "failed"}
            /\ \/ tasks'[t].blockedBy = tasks[t].blockedBy
               \/ /\ p \in Listed(bag) /\ Over(r)'
                  /\ tasks'[t].blockedBy = RemoveOne(bag, p)
        BY <1>6, <3>2, RunCommitsOwnRow
      <4>3. tasks'[t].status # "none"
        BY <4>1, <4>2 DEF Exists
      <4>4. ASSUME Unpatched(t)' PROVE BagOK(t, tasks[t].blockedBy)'
        <5>1. /\ Unpatched(t)
              /\ \A b \in BlockerBags : BagOK(t, b) => BagOK(t, b)'
          BY <1>1, <2>1, <4>4, BagsStay
        <5>2. BagOK(t, tasks[t].blockedBy)
          BY <2>2, <4>1, <5>1 DEF RowOK, Exists
        <5>3. \A b \in {tasks[t].blockedBy} : BagOK(t, b)'
          BY <1>1, <5>1, <5>2 DEF Row
        <5>4. CASE tasks'[t].blockedBy = tasks[t].blockedBy
          BY <5>3, <5>4 DEF BagOK
        <5>5. CASE /\ p \in Listed(bag) /\ Over(r)'
                   /\ tasks'[t].blockedBy = RemoveOne(bag, p)
          <6>1. bag \in BlockerBags /\ seen[r][t].status # "none"
            BY <1>1, <2>2, <5>5 DEF RowOK, Absent, NoBlockers, Listed, Row, Actors
          <6>2. \A b \in {bag} : BagOK(t, b)'
            BY <2>2, <5>1, <6>1 DEF RowOK
          <6>3. QED
            BY <2>1, <2>3, <5>5, <6>1, <6>2, RemoveOneLeaves DEF BagOK
        <5>6. QED
          BY <4>2, <5>4, <5>5
      <4>5. QED
        BY <4>3, <4>4 DEF RowOK, Exists
    <3>3. QED
      BY <3>1, <3>2
  <2>5. QED
    BY <1>4, <2>1, <2>4 DEF Actors
<1>7. QED
  BY <1>1, <1>2, <1>3, <1>5, <1>6, NextKinds DEF RowsInv

---------------------------------------------------------------------------
(* A session that is late has a rival.                                     *)

LEMMA EditsLeave ==
    ASSUME TypeInv, RowsInv, NEW e \in Editors, EditCommit(e),
           NEW t \in Untouched, Unpatched(t)
    PROVE  tasks'[t] = tasks[t]
<1> DEFINE p == edit[e].req.task
<1>1. p \in Tasks \ Untouched /\ RowAfter(tasks[t], seen[e][t], tasks'[t], p)
  BY EditCommitsRows
<1>2. p \notin Listed(seen[e][t].blockedBy)
  BY <1>1, UnpatchedIs
  DEF TypeInv, RowsInv, RowOK, BagOK, Absent, NoBlockers, Listed, Actors
<1>3. QED
  BY <1>1, <1>2 DEF RowAfter

LEMMA NextLate ==
    ASSUME TypeInv, QueueInv, RowsInv, LateInv, VerdictInv, [Next]_vars
    PROVE  LateInv'
<1> USE DEF TypeInv
<1> DEFINE Rival(x) == \E y \in Runs \ {x} : taskOf'[y] = taskOf'[x] /\ Over(y)'
<1>1. /\ Untouched \subseteq Tasks /\ Untouched' = Untouched
      /\ \A t \in Tasks : tasks[t] \in Row /\ \A k \in Actors : seen[k][t] \in Row
  BY DEF TypeOK, Snapshots, Untouched
<1> SUFFICES ASSUME NEW t \in Untouched, NEW x \in Runs,
                    Unpatched(t)', Exists(t)', tasks'[t].status # "blocked",
                    stage'[x] = "clearing", taskOf'[x] # t,
                    Frees(seen'[x][t], taskOf'[x])
             PROVE  Rival(x)
  BY <1>1 DEF LateInv, Frees
\* Where the late session has not moved and the task had left `blocked'.
<1>2. ASSUME Unpatched(t), Exists(t), tasks[t].status # "blocked",
             stage[x] = "clearing", seen'[x][t] = seen[x][t], taskOf'[x] = taskOf[x]
      PROVE  Rival(x)
  <2>1. PICK y \in Runs \ {x} : taskOf[y] = taskOf[x] /\ Over(y)
    BY <1>2 DEF LateInv
  <2>2. taskOf'[y] = taskOf[y] /\ Over(y)'
    BY <2>1, OverStays DEF Over
  <2>3. QED
    BY <1>2, <2>1, <2>2
<1>3. seen'[x][t].status = "blocked"
  BY DEF Frees
<1>4. CASE Still /\ (stage[x] # "clearing" => seen'[x][t] = tasks[t])
  <2>1. declared'[t] = declared[t] /\ tasks'[t] = tasks[t]
    BY <1>4 DEF Still
  <2>2. Unpatched(t) /\ Exists(t)
    BY <1>1, <2>1, BagsStay DEF Exists
  <2>3. stage[x] = "clearing"
    BY <1>3, <1>4, <2>1
  <2>4. seen'[x][t] = seen[x][t] /\ taskOf'[x] = taskOf[x]
    <3>1. seen'[x][t] \in {seen[x][t], tasks[t], Absent}
      BY <1>1, <1>4 DEF Still, Actors
    <3>2. QED
      BY <1>3, <2>1, <2>3, <3>1, OverStays DEF Absent
  <2>5. QED
    BY <1>2, <2>1, <2>2, <2>3, <2>4
<1>5. ASSUME Still, stage[x] # "clearing" PROVE seen'[x][t] = tasks[t]
  <2>1. CloseReadAll(x)
    BY <1>5
    DEF Next, Clients, Handler, Worker, Editor, vars, Create, EditRead, EditReadAll,
        EditCommit, Accept, AcceptDetached, CreateRun, OpenRead, OpenCommit, Submit, Pick,
        MarkRunning, FlowEnds, MarkCompleted, MarkFailed, MarkTerminal, CloseRead,
        CloseReadAll, CloseCommit, CaughtFault, FatalFault, Fault, Crash, Goto, TypeOK
  <2>2. QED
    BY <1>1, <2>1 DEF CloseReadAll, LoadAll, TypeOK, Actors
<1>6. ASSUME NEW n \in Creations, Create(n.task, n.bag) PROVE Rival(x)
  <2>1. /\ seen' = seen /\ stage' = stage /\ taskOf' = taskOf
        /\ t # n.task => declared'[t] = declared[t] /\ tasks'[t] = tasks[t]
    BY <1>1, <1>6, HarnessAssumption DEF Create, TypeOK, Snapshots
  <2>2. t # n.task
    BY <1>3, <1>6, <2>1 DEF RowsInv, Create, Exists, Actors
  <2>3. QED
    BY <1>1, <1>2, <2>1, <2>2, BagsStay DEF Exists
<1>7. ASSUME NEW e \in Editors, EditCommit(e) PROVE Rival(x)
  <2> DEFINE p == edit[e].req.task
  <2>1. /\ p \in Tasks \ Untouched /\ declared'[t] = declared[t]
        /\ RowAfter(tasks[t], seen[e][t], tasks'[t], p)
        /\ (\A k \in Actors \ {e} : seen'[k] = seen[k]) /\ UNCHANGED <<taskOf, stage>>
    BY <1>7, EditCommitsRows
  <2>2. Unpatched(t)
    BY <1>1, <2>1, BagsStay
  <2>3. tasks'[t] = tasks[t]
    BY <1>7, <2>2, EditsLeave
  <2>4. QED
    BY <1>2, <2>1, <2>2, <2>3, HarnessAssumption DEF Exists, Actors
<1>8. ASSUME NEW r \in Runs, RunCommits(r) PROVE Rival(x)
  <2> DEFINE p == taskOf[r]
             q == taskOf[x]
  <2>1. /\ p \in Tasks /\ UNCHANGED <<declared, taskOf, runStatus>>
        /\ \A k \in Actors \ {r} : seen'[k] = seen[k]
        /\ \A y \in Runs \ {r} : stage'[y] = stage[y]
        /\ stage'[r] # "clearing"
    BY <1>8, RunCommitsRows
  <2>2. x # r /\ stage[x] = "clearing" /\ seen'[x] = seen[x]
    BY <2>1 DEF Actors
  <2>3. Unpatched(t)
    BY <1>1, <2>1, BagsStay
  <2>4. CASE Exists(t) /\ tasks[t].status # "blocked"
    BY <1>2, <2>1, <2>2, <2>3, <2>4
  <2>5. CASE ~(Exists(t) /\ tasks[t].status # "blocked")
    <3>1. t # p
      BY <2>3, <2>5 DEF VerdictInv
    <3>2. RowAfter(tasks[t], seen[r][t], tasks'[t], p)
      BY <1>1, <1>8, <3>1, RunCommitsRows
    <3>3. tasks'[t].status # tasks[t].status
      BY <2>5 DEF Exists
    <3>4. Frees(seen[r][t], p) /\ Over(r)'
      BY <1>1, <1>8, <3>1, <3>2, <3>3, RunCommitsRows DEF RowAfter
    <3>5. CASE p = q
      BY <2>1, <2>2, <3>4, <3>5
    <3>6. CASE p # q
      <4>1. seen[r][t].blockedBy \in BlockerBags
        BY <1>1 DEF Row, Actors
      <4>2. Listed(seen[r][t].blockedBy) \subseteq {p}
        BY <2>1, <3>4, <4>1, RemoveOneLeaves DEF Frees
      <4>3. q \in declared[t] \ Listed(seen[r][t].blockedBy)
        <5>1. q \in Listed(seen[x][t].blockedBy) /\ seen[x][t].status = "blocked"
          BY <2>1, <2>2 DEF Frees
        <5>2. q \in declared[t]
          BY <2>3, <5>1 DEF RowsInv, RowOK, BagOK, Actors
        <5>3. QED
          BY <3>6, <4>2, <5>2
      <4>4. Finished(q)
        BY <2>3, <3>4, <4>3 DEF RowsInv, RowOK, BagOK, Frees, Actors
      <4>5. PICK y \in Runs : taskOf[y] = q /\ Over(y)
        BY <4>4 DEF Finished
      <4>6. y # x /\ Over(y)'
        BY <2>2, <4>5, OverStays DEF Over
      <4>7. QED
        BY <2>1, <4>5, <4>6
    <3>7. QED
      BY <3>5, <3>6
  <2>6. QED
    BY <2>4, <2>5
<1>9. QED
  BY <1>4, <1>5, <1>6, <1>7, <1>8, NextKinds

---------------------------------------------------------------------------
(* A run that is alone has the last word on its task.                      *)

LEMMA BegunStays ==
    ASSUME TypeInv, [Next]_vars, NEW t \in Untouched, Exists(t)
    PROVE  /\ declared'[t] = declared[t]
           /\ Exists(t)'
           /\ tasks[t].status # "blocked" => tasks'[t].status # "blocked"
<1>1. t \in Tasks
  BY DEF Untouched
<1>2. CASE Still
  BY <1>2 DEF Still, Exists
<1>3. ASSUME NEW n \in Creations, Create(n.task, n.bag)
      PROVE  declared'[t] = declared[t] /\ tasks'[t] = tasks[t]
  BY <1>1, <1>3, HarnessAssumption DEF Create, TypeInv, TypeOK, Snapshots
<1>4. ASSUME NEW e \in Editors, EditCommit(e)
      PROVE  declared'[t] = declared[t] /\ tasks'[t].status \in {tasks[t].status, "pending"}
  BY <1>4, EditCommitsRows DEF RowAfter
<1>5. ASSUME NEW r \in Runs, RunCommits(r)
      PROVE  /\ declared'[t] = declared[t]
             /\ tasks'[t].status \in
                    {tasks[t].status, "pending", "in_progress", "completed", "failed"}
  <2>1. CASE t = taskOf[r]
    BY <1>5, <2>1, RunCommitsRows, RunCommitsOwnRow
  <2>2. CASE t # taskOf[r]
    BY <1>1, <1>5, <2>2, RunCommitsRows DEF RowAfter
  <2>3. QED
    BY <2>1, <2>2
<1>6. QED
  BY <1>2, <1>3, <1>4, <1>5, NextKinds DEF Exists

LEMMA AloneBefore ==
    ASSUME TypeInv, QueueInv, VerdictInv, [Next]_vars, NEW r \in Runs,
           stage[r] # "idle", Alone(r)'
    PROVE  Alone(r) /\ declared'[taskOf[r]] = declared[taskOf[r]]
<1> DEFINE t == taskOf[r]
<1>1. taskOf'[r] = t /\ t \in Untouched /\ Exists(t) /\ t \in Tasks
  BY OverStays DEF Alone, Untouched, VerdictInv
<1>2. declared'[t] = declared[t]
  BY <1>1, BegunStays
<1>3. Unpatched(t)
  BY <1>1, <1>2, BagsStay DEF Alone
<1>4. \A x \in Runs \ {r} : taskOf[x] # t
  BY <1>1, OverStays, HarnessAssumption DEF Alone, TypeInv, StageOK
<1>5. ASSUME NEW u, CompletedTwice(u) PROVE CompletedTwice(u)'
  <2>1. PICK r1, r2 \in Runs :
            r1 # r2 /\ taskOf[r1] = u /\ taskOf[r2] = u /\ Over(r1) /\ Over(r2)
    BY <1>5 DEF CompletedTwice, Over
  <2>2. taskOf'[r1] = u /\ taskOf'[r2] = u /\ Over(r1)' /\ Over(r2)'
    BY <2>1, OverStays DEF Over
  <2>3. QED
    BY <2>1, <2>2 DEF CompletedTwice, Over
<1>6. QED
  BY <1>1, <1>2, <1>3, <1>4, <1>5 DEF Alone

\* While its run is alone, nobody else changes the status of its task.
LEMMA OthersLeave ==
    ASSUME TypeInv, QueueInv, RowsInv, LateInv, VerdictInv, NEW r \in Runs, Alone(r),
           NEW x \in Runs \ {r}, RunCommits(x), Alone(r)', taskOf'[r] = taskOf[r]
    PROVE  tasks'[taskOf[r]].status = tasks[taskOf[r]].status
<1> DEFINE t == taskOf[r]
           p == taskOf[x]
<1> SUFFICES ASSUME tasks'[t].status # tasks[t].status PROVE FALSE
  OBVIOUS
<1>1. t \in Untouched /\ t \in Tasks /\ p # t /\ Exists(t) /\ tasks[t].status # "blocked"
  BY DEF Alone, Untouched, VerdictInv
<1>2. /\ RowAfter(tasks[t], seen[x][t], tasks'[t], p)
      /\ stage[x] = "clearing" /\ Over(x)'
      /\ UNCHANGED <<taskOf, runStatus, declared>>
      /\ \A y \in Runs \ {x} : stage'[y] = stage[y]
  BY <1>1, RunCommitsRows
<1>3. Frees(seen[x][t], p)
  BY <1>2 DEF RowAfter
<1>4. PICK y \in Runs \ {x} : taskOf[y] = p /\ Over(y)
  BY <1>1, <1>2, <1>3 DEF LateInv, Alone
<1>5. CompletedTwice(p)'
  BY <1>2, <1>4 DEF CompletedTwice, Over
<1>6. p \in declared[t]
  BY <1>1, <1>3 DEF RowsInv, RowOK, BagOK, Frees, Alone, Actors
<1>7. QED
  BY <1>2, <1>5, <1>6 DEF Alone

LEMMA NextVerdict ==
    ASSUME TypeInv, QueueInv, RowsInv, LateInv, VerdictInv, [Next]_vars
    PROVE  VerdictInv'
<1> USE DEF TypeInv
<1>1. Untouched' = Untouched /\ Untouched \subseteq Tasks /\ NoTask \notin Untouched
  BY HarnessAssumption DEF Untouched
<1>2. ASSUME NEW r \in Runs, stage[r] = "idle", taskOf'[r] \in Untouched
      PROVE  /\ Exists(taskOf[r])' /\ tasks'[taskOf'[r]].status # "blocked"
             /\ RunVerdict(r, taskOf[r])'
  <2>1. PICK t \in Tasks : Accept(r, t)
    <3>1. taskOf[r] = NoTask
      BY <1>2 DEF StageOK
    <3>2. taskOf'[r] # taskOf[r]
      BY <1>1, <1>2, <3>1
    <3>3. QED
      BY <3>2
      DEF Next, Clients, Handler, Worker, Editor, vars, Create, EditRead, EditReadAll,
          EditCommit, Accept, AcceptDetached, CreateRun, OpenRead, OpenCommit, Submit,
          Pick, MarkRunning, FlowEnds, MarkCompleted, MarkFailed, MarkTerminal, CloseRead,
          CloseReadAll, CloseCommit, CaughtFault, FatalFault, Fault, Crash, TypeOK
  <2>2. taskOf'[r] = t /\ stage'[r] = "accepted" /\ tasks' = tasks /\ Startable(tasks[t])
    BY <2>1 DEF Accept, Goto, TypeOK, table
  <2>3. QED
    BY <2>2 DEF Startable, Exists, RunVerdict, Restartable, Executing
<1>3. ASSUME NEW r \in Runs, stage[r] # "idle", Alone(r)'
      PROVE  RunVerdict(r, taskOf[r])'
  <2> DEFINE t == taskOf[r]
  <2>1. /\ Alone(r) /\ declared'[t] = declared[t] /\ RunVerdict(r, t)
        /\ t \in Untouched /\ t \in Tasks /\ taskOf'[r] = t /\ Exists(t)
    BY <1>1, <1>3, AloneBefore, OverStays DEF VerdictInv, Alone
  <2>2. ASSUME tasks'[t].status = tasks[t].status,
               UNCHANGED <<stage[r], seen[r], runStatus[r]>>
        PROVE  RunVerdict(r, t)'
    BY <2>1, <2>2 DEF RunVerdict
  <2>3. ASSUME NEW n \in Creations, Create(n.task, n.bag) PROVE RunVerdict(r, t)'
    BY <2>1, <2>2, <2>3, HarnessAssumption DEF Create, TypeOK, Snapshots
  <2>4. ASSUME NEW e \in Editors, EditCommit(e) PROVE RunVerdict(r, t)'
    BY <2>1, <2>2, <2>4, EditsLeave, EditCommitsRows, HarnessAssumption
    DEF Alone, Actors
  <2>5. ASSUME NEW e \in Editors, EditReadAll(e) \/ \E p \in Patches : EditRead(e, p)
        PROVE  RunVerdict(r, t)'
    BY <2>2, <2>5, HarnessAssumption
    DEF EditReadAll, EditRead, Load, LoadAll, table, TypeOK, Actors
  <2>6. ASSUME NEW x \in Runs \ {r}, RunCommits(x) PROVE RunVerdict(r, t)'
    BY <1>3, <2>1, <2>2, <2>6, OthersLeave, RunCommitsRows DEF Actors
  <2>7. ASSUME RunCommits(r) PROVE RunVerdict(r, t)'
    <3>1. CASE stage[r] = "opening"
      <4>1. stage'[r] = "opened"
        BY <2>7, <3>1, RunCommitsRows
      <4>2. tasks'[t].status = "in_progress"
        BY <2>1, <2>7, <3>1, RunCommitsOwnRow DEF RunVerdict, Restartable
      <4>3. QED
        BY <2>1, <4>1, <4>2 DEF RunVerdict, Executing
    <3>2. CASE stage[r] # "opening"
      <4>1. stage'[r] = "done" /\ stage[r] \in {"settling", "clearing"}
        BY <2>7, <3>2, RunCommitsRows
      <4>2. tasks'[t].status = runStatus[r]
        <5>1. runStatus[r] # "in_progress" /\ seen[r][t].status = "in_progress"
          BY <2>1, <4>1 DEF RunVerdict, StageOK, Terminal
        <5>2. QED
          BY <2>7, <3>2, <5>1, RunCommitsOwnRow
      <4>3. QED
        BY <2>1, <2>7, <4>1, <4>2, RunCommitsRows DEF RunVerdict, Executing
    <3>3. QED
      BY <3>1, <3>2
  <2>8. ASSUME NEW x \in Runs \ {r},
               \/ AcceptDetached(x) \/ (\E u \in Tasks : Accept(x, u))
               \/ CreateRun(x) \/ OpenRead(x) \/ Submit(x) \/ Pick(x) \/ MarkRunning(x)
               \/ FlowEnds(x) \/ MarkCompleted(x) \/ MarkFailed(x) \/ CloseRead(x)
               \/ CloseReadAll(x) \/ CaughtFault(x) \/ FatalFault(x)
        PROVE  RunVerdict(r, t)'
    BY <2>2, <2>8
    DEF AcceptDetached, Accept, CreateRun, OpenRead, Submit, Pick, MarkRunning, FlowEnds,
        MarkCompleted, MarkFailed, MarkTerminal, CloseRead, CloseReadAll, CaughtFault,
        FatalFault, Fault, Goto, Load, LoadAll, Close, table, TypeOK, Actors
  <2>9. ASSUME \/ CreateRun(r) \/ OpenRead(r) \/ CloseRead(r) \/ CloseReadAll(r)
        PROVE  RunVerdict(r, t)'
    <3>1. tasks' = tasks
      BY <2>9 DEF CreateRun, OpenRead, CloseRead, CloseReadAll, table
    <3>2. CASE CreateRun(r) \/ OpenRead(r)
      <4>1. /\ stage[r] \in {"accepted", "created"}
            /\ stage'[r] \in {"created", "opened", "opening"}
            /\ stage'[r] = "opened" => t = NoTask
        BY <3>2 DEF CreateRun, OpenRead, Goto, TypeOK
      <4>2. stage'[r] = "opening" => seen'[r][t] = tasks[t]
        BY <2>1, <3>2 DEF CreateRun, OpenRead, Goto, Load, TypeOK, Actors, Unread
      <4>3. QED
        BY <1>1, <2>1, <3>1, <4>1, <4>2 DEF RunVerdict, Executing
    <3>3. CASE CloseRead(r) \/ CloseReadAll(r)
      <4>1. /\ stage[r] \in {"closing", "settling"}
            /\ stage'[r] \in {"settling", "clearing"}
        BY <3>3 DEF CloseRead, CloseReadAll, Goto, TypeOK
      <4>2. \/ stage[r] = "closing" /\ seen'[r][t] = tasks[t]
            \/ stage[r] = "settling" /\ seen'[r][t] = seen[r][t]
        BY <2>1, <3>3
        DEF CloseRead, CloseReadAll, Goto, Load, LoadAll, TypeOK, Actors, Unread
      <4>3. QED
        BY <2>1, <3>1, <4>1, <4>2 DEF RunVerdict, Executing
    <3>4. QED
      BY <2>9, <3>2, <3>3
  <2>10. ASSUME \/ Submit(r) \/ Pick(r) \/ MarkRunning(r) \/ FlowEnds(r)
                \/ MarkCompleted(r) \/ MarkFailed(r) \/ CaughtFault(r) \/ FatalFault(r)
         PROVE  RunVerdict(r, t)'
    <3>1. Pick(r) => stage[r] = "queued"
      BY DEF Pick, QueueInv
    <3>2. stage[r] \in {"opened", "queued"} \cup Executing \/ stage'[r] = "dead"
      BY <2>10, <3>1
      DEF Submit, MarkRunning, FlowEnds, MarkCompleted, MarkFailed, MarkTerminal,
          CaughtFault, FatalFault, Fault, Goto, Executing, TypeOK
    <3>3. /\ tasks' = tasks
          /\ stage'[r] \in {"queued", "picked", "running", "succeeded", "raised", "closing",
                            "dead"}
      BY <2>1, <2>10, HarnessAssumption
      DEF Submit, Pick, MarkRunning, FlowEnds, MarkCompleted, MarkFailed, MarkTerminal,
          CaughtFault, FatalFault, Fault, Goto, table, TypeOK
    <3>4. QED
      BY <2>1, <3>2, <3>3 DEF RunVerdict, Executing
  <2>11. ASSUME Crash PROVE RunVerdict(r, t)'
    BY <1>3, <2>1, <2>11 DEF Crash, RunVerdict, Executing, table
  <2>12. UNCHANGED vars => RunVerdict(r, t)'
    BY <2>2 DEF vars
  <2>13. ~(AcceptDetached(r) \/ \E u \in Tasks : Accept(r, u))
    BY <1>3 DEF AcceptDetached, Accept
  <2>14. QED
    BY <2>3, <2>4, <2>5, <2>6, <2>7, <2>8, <2>9, <2>10, <2>11, <2>12, <2>13
    DEF Next, Clients, Handler, Worker, Editor, RunCommits
<1>4. ASSUME NEW r \in Runs, stage[r] # "idle", taskOf[r] \in Untouched
      PROVE  Exists(taskOf[r])' /\ tasks'[taskOf'[r]].status # "blocked"
  BY <1>4, BegunStays, OverStays DEF VerdictInv, Exists
<1>5. QED
  <2> SUFFICES ASSUME NEW r \in Runs
               PROVE  /\ taskOf'[r] \in Untouched =>
                             Exists(taskOf[r])' /\ tasks'[taskOf'[r]].status # "blocked"
                      /\ Alone(r)' => RunVerdict(r, taskOf[r])'
    BY <1>1 DEF VerdictInv
  <2>1. CASE stage[r] = "idle"
    BY <1>1, <1>2, <2>1 DEF Alone
  <2>2. CASE stage[r] # "idle"
    <3>1. taskOf'[r] = taskOf[r]
      BY <2>2, OverStays
    <3>2. QED
      BY <1>3, <1>4, <2>2, <3>1
  <2>3. QED
    BY <2>1, <2>2

\* If no client PATCHes a task or one of its blockers, and no blocker is completed by two
\* runs, the verdict of the task's only run is the status of the task.
THEOREM VerdictsAgree == Spec => []VerdictAgrees
<1> DEFINE Inv == TypeInv /\ QueueInv /\ RowsInv /\ LateInv /\ VerdictInv
<1>1. Init => Inv
  <2> SUFFICES ASSUME Init PROVE Inv
    OBVIOUS
  <2>1. TypeInv
    BY InitTypeInv
  <2>2. QueueInv /\ LateInv /\ VerdictInv
    BY HarnessAssumption DEF Init, QueueInv, LateInv, VerdictInv, Alone, Untouched
  <2>3. RowsInv
    BY DEF Init, RowsInv, RowOK, Untouched, Unread, Absent, Exists
  <2>4. QED
    BY <2>1, <2>2, <2>3
<1>2. Inv /\ [Next]_vars => Inv'
  BY NextTypeInv, NextQueue, NextRows, NextLate, NextVerdict
<1>3. Inv => VerdictAgrees
  <2> SUFFICES ASSUME Inv, NEW r \in Runs, stage[r] = "done", taskOf[r] # NoTask,
                      \A r2 \in Runs \ {r} : taskOf[r2] # taskOf[r],
                      Unpatched(taskOf[r]),
                      \A u \in declared[taskOf[r]] : ~CompletedTwice(u)
               PROVE  tasks[taskOf[r]].status = runStatus[r]
    BY DEF VerdictAgrees
  <2>1. taskOf[r] \in Untouched
    BY DEF TypeInv, TypeOK, Unpatched, Untouched
  <2>2. Alone(r)
    BY <2>1 DEF Alone
  <2>3. QED
    BY <2>2 DEF VerdictInv, RunVerdict
<1>4. QED
  BY <1>1, <1>2, <1>3, PTL DEF Spec
=============================================================================
