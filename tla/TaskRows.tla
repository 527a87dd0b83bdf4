------------------------------ MODULE TaskRows ------------------------------
(***************************************************************************)
(* The rows of the agent_tasks table and what one database session of      *)
(* AgentTaskStore (services/harness/tasks.py) does to its copy of them.    *)
(*                                                                         *)
(* A row keeps the two columns that the task graph runs on.  blocked_by is *)
(* a JSON list whose order never matters but whose duplicates do, because  *)
(* list.remove takes out one occurrence: it is a bag, the number of times  *)
(* each task id is listed.                                                 *)
(***************************************************************************)
EXTENDS Naturals

CONSTANTS Tasks,   \* task ids
          Keep     \* a field that a PATCH request leaves out (None)

TaskStatus == {"pending", "in_progress", "completed", "blocked", "cancelled", "failed"}

BlockerBags == [Tasks -> Nat]
NoBlockers == [q \in Tasks |-> 0]
Listed(bag) == {q \in Tasks : bag[q] > 0}

\* "none" is the row that is not in the table, or not loaded by the session.
Row == [status : TaskStatus \cup {"none"}, blockedBy : BlockerBags]
Absent == [status |-> "none", blockedBy |-> NoBlockers]
Snapshots == [Tasks -> Row]
Unread == [t \in Tasks |-> Absent]

---------------------------------------------------------------------------
NewRow(bag) ==
    [status |-> IF Listed(bag) = {} THEN "pending" ELSE "blocked", blockedBy |-> bag]

\* list.remove takes one occurrence of the id out of the list.
RemoveOne(bag, p) == [bag EXCEPT ![p] = @ - 1]

\* Mutant: the list is emptied, where one id is to be removed.
ReleasedFrom_All(row, p) ==
    [status |-> IF row.status = "blocked" THEN "pending" ELSE row.status,
     blockedBy |-> NoBlockers]

ReleasedFrom(row, p) ==
    LET left == RemoveOne(row.blockedBy, p)
    IN  [status |-> IF row.status = "blocked" /\ Listed(left) = {}
                    THEN "pending" ELSE row.status,
         blockedBy |-> left]

\* Mutant: without `if completed_task_id not in blocked_by: continue'.
ClearDependency_Everywhere(rows, p) == [u \in Tasks |-> ReleasedFrom(rows[u], p)]

ClearDependency(rows, p) ==
    [u \in Tasks |-> IF p \in Listed(rows[u].blockedBy)
                     THEN ReleasedFrom(rows[u], p) ELSE rows[u]]

\* The status is overwritten whatever it was; completion releases the children.
SetStatus(rows, t, status) ==
    LET set == [rows EXCEPT ![t].status = status]
    IN  IF status = "completed" THEN ClearDependency(set, t) ELSE set

\* A PATCH replaces blocked_by first, which may move the row between pending and
\* blocked, and then the status, which wins.
Reblocked(row, bag) ==
    [status |-> CASE row.status = "pending" /\ Listed(bag) # {} -> "blocked"
                  [] row.status = "blocked" /\ Listed(bag) = {} -> "pending"
                  [] OTHER -> row.status,
     blockedBy |-> bag]

Patched(rows, t, bag, status) ==
    LET reblocked == IF bag = Keep THEN rows
                     ELSE [rows EXCEPT ![t] = Reblocked(rows[t], bag)]
    IN  IF status = Keep THEN reblocked ELSE SetStatus(reblocked, t, status)

---------------------------------------------------------------------------
(***************************************************************************)
(* The flush of a session.  SQLAlchemy's UPDATE names only the columns     *)
(* whose value differs from the one the session loaded: every other column *)
(* keeps what is in the database by then, whoever wrote it.                *)
(***************************************************************************)
FlushRow(db, loaded, new) ==
    [status |-> IF new.status = loaded.status THEN db.status ELSE new.status,
     blockedBy |-> IF new.blockedBy = loaded.blockedBy THEN db.blockedBy
                   ELSE new.blockedBy]

Flush(db, loaded, new) == [u \in Tasks |-> FlushRow(db[u], loaded[u], new[u])]
=============================================================================
