----------------------------- MODULE Approvals -----------------------------
(***************************************************************************)
(* Approval requests (services/harness/approvals.py) and the HTTP handlers *)
(* that create, list and answer them (api/v1/endpoints/approvals.py).      *)
(*                                                                         *)
(* There is no timer: an approval expires when some later request sweeps   *)
(* the table (expire_due) before it does its own work.  Handlers run at    *)
(* the same time; a handler here serves one request, and each step is one  *)
(* SELECT or one commit, or the reading of the clock.                      *)
(***************************************************************************)
EXTENDS Integers

CONSTANTS Approvals, Handlers,
          List,          \* the request GET /approvals
          NoRequest,     \* a handler that serves nothing yet
          Never,         \* expires_at of an approval without a deadline
          Expiries,      \* the expires_at of creations: [at : Int, offset : Int] or Never
          MaxTime        \* bound on the clock

ASSUME ApprovalsAssumption ==
    /\ Expiries \subseteq [at : Int, offset : Int] \cup {Never}
    /\ Never \notin Int /\ Never \notin [at : Int, offset : Int]
    /\ MaxTime \in Nat

ApprovalStatus == {"pending", "approved", "rejected", "expired"}
Responses == [approval : Approvals, approve : BOOLEAN]
ASSUME RequestAssumption ==
    /\ List \notin Responses \cup {NoRequest}
    /\ NoRequest \notin Responses

VARIABLES
    rows,     \* approval_requests: status and expires_at
    clock,
    stage,    \* where each handler is
    request,  \* what it serves
    since,    \* the `now' of its sweep
    due,      \* the rows its sweep has loaded
    view,     \* the approvals that a listing returned as pending
    late,     \* history: the approval was no longer pending when the response began
    inserted  \* history: the time of the commit that inserted the approval

vars == <<rows, inserted, clock, stage, request, since, due, view, late>>

Row == [status : ApprovalStatus \cup {"none"}, expiresAt : Int \cup {Never}]
Stage == {"idle", "entered", "sweeping", "swept", "deciding",
          "listed", "accepted", "refused", "dead"}

Exists(p) == rows[p].status # "none"

Init ==
    /\ rows = [p \in Approvals |-> [status |-> "none", expiresAt |-> Never]]
    /\ inserted = [p \in Approvals |-> 0]
    /\ clock = 0
    /\ stage = [h \in Handlers |-> "idle"]
    /\ request = [h \in Handlers |-> NoRequest]
    /\ since = [h \in Handlers |-> 0]
    /\ due = [h \in Handlers |-> {}]
    /\ view = [h \in Handlers |-> {}]
    /\ late = [h \in Handlers |-> FALSE]

---------------------------------------------------------------------------
Tick ==
    /\ clock < MaxTime
    /\ clock' = clock + 1
    /\ UNCHANGED <<rows, inserted, stage, request, since, due, view, late>>

\* expires_at keeps the wall-clock time that the client wrote and drops its UTC
\* offset; the sweep reads it as UTC.  It may be in the past.
Stored(x) == IF x = Never THEN Never ELSE x.at + x.offset

\* The commit of the row.  created_at, read from the clock before it, only orders the
\* listings and is left out.
Create(p, x) ==
    /\ ~Exists(p)
    /\ rows' = [rows EXCEPT ![p] = [status |-> "pending", expiresAt |-> Stored(x)]]
    /\ inserted' = [inserted EXCEPT ![p] = clock]
    /\ UNCHANGED <<clock, stage, request, since, due, view, late>>

Goto(h, s) == stage' = [stage EXCEPT ![h] = s]

\* The handler calls expire_due, which first reads the clock.
Enter(h, q) ==
    /\ stage[h] = "idle"
    /\ request' = [request EXCEPT ![h] = q]
    /\ since' = [since EXCEPT ![h] = clock]
    /\ Goto(h, "entered")

EnterList(h) ==
    /\ Enter(h, List)
    /\ UNCHANGED <<rows, inserted, clock, due, view, late>>

\* Mutant: respond does not call expire_due.
EnterRespond_NoSweep(h, q) ==
    /\ Exists(q.approval)
    /\ stage[h] = "idle"
    /\ request' = [request EXCEPT ![h] = q]
    /\ since' = [since EXCEPT ![h] = clock]
    /\ Goto(h, "swept")
    /\ late' = [late EXCEPT ![h] = rows[q.approval].status # "pending"]
    /\ UNCHANGED <<rows, inserted, clock, due, view>>

EnterRespond(h, q) ==
    /\ Exists(q.approval)
    /\ Enter(h, q)
    /\ late' = [late EXCEPT ![h] = rows[q.approval].status # "pending"]
    /\ UNCHANGED <<rows, inserted, clock, due, view>>

\* Mutant: expires_at < now.
Overdue_Strictly(p, now) ==
    /\ rows[p].status = "pending"
    /\ rows[p].expiresAt # Never
    /\ rows[p].expiresAt < now

Overdue(p, now) ==
    /\ rows[p].status = "pending"
    /\ rows[p].expiresAt # Never
    /\ rows[p].expiresAt <= now

SweepRead(h) ==
    /\ stage[h] = "entered"
    /\ due' = [due EXCEPT ![h] = {p \in Approvals : Overdue(p, since[h])}]
    /\ Goto(h, IF due'[h] = {} THEN "swept" ELSE "sweeping")
    /\ UNCHANGED <<rows, inserted, clock, request, since, view, late>>

\* Mutant: the session is closed without a commit.
SweepCommit_Forgotten(h) ==
    /\ stage[h] = "sweeping"
    /\ due' = [due EXCEPT ![h] = {}]
    /\ Goto(h, "swept")
    /\ UNCHANGED <<rows, inserted, clock, request, since, view, late>>

\* The status of each loaded row was pending: the column is dirty.
SweepCommit(h) ==
    /\ stage[h] = "sweeping"
    /\ rows' = [p \in Approvals |->
                   IF p \in due[h]
                   THEN [rows[p] EXCEPT !.status = "expired"] ELSE rows[p]]
    /\ due' = [due EXCEPT ![h] = {}]
    /\ Goto(h, "swept")
    /\ UNCHANGED <<inserted, clock, request, since, view, late>>

ListRead(h) ==
    /\ stage[h] = "swept"
    /\ request[h] = List
    /\ view' = [view EXCEPT ![h] = {p \in Approvals : rows[p].status = "pending"}]
    /\ Goto(h, "listed")
    /\ UNCHANGED <<rows, inserted, clock, request, since, due, late>>

\* Mutant: the status of the approval is not checked.
RespondRead_Unchecked(h) ==
    /\ stage[h] = "swept"
    /\ request[h] # List
    /\ Goto(h, "deciding")
    /\ UNCHANGED <<rows, inserted, clock, request, since, due, view, late>>

RespondRead(h) ==
    /\ stage[h] = "swept"
    /\ request[h] # List
    /\ Goto(h, IF rows[request[h].approval].status = "pending" THEN "deciding" ELSE "refused")
    /\ UNCHANGED <<rows, inserted, clock, request, since, due, view, late>>

\* Mutant: the action requested is stored, not its outcome.
Verdict_Verb(q) == IF q.approve THEN "approve" ELSE "reject"

Verdict(q) == IF q.approve THEN "approved" ELSE "rejected"

\* The status that the session loaded was pending: the column is dirty.
RespondCommit(h) ==
    LET q == request[h]
    IN  /\ stage[h] = "deciding"
        /\ rows' = [rows EXCEPT ![q.approval].status = Verdict(q)]
        /\ Goto(h, "accepted")
        /\ UNCHANGED <<inserted, clock, request, since, due, view, late>>

\* A database error or the end of the process: nothing more of this request is done.
Abort(h) ==
    /\ stage[h] \in {"entered", "sweeping", "swept", "deciding"}
    /\ Goto(h, "dead")
    /\ UNCHANGED <<rows, inserted, clock, request, since, due, view, late>>

Handle(h) ==
    SweepRead(h) \/ SweepCommit(h) \/ ListRead(h) \/ RespondRead(h) \/ RespondCommit(h)

Next ==
    \/ Tick
    \/ \E p \in Approvals, x \in Expiries : Create(p, x)
    \/ \E h \in Handlers : EnterList(h) \/ Handle(h) \/ Abort(h)
    \/ \E h \in Handlers, q \in Responses : EnterRespond(h, q)

Spec == Init /\ [][Next]_vars

\* The server goes on with a request it has begun; nobody has to send one.
FairSpec == Spec /\ \A h \in Handlers : WF_vars(Handle(h))

---------------------------------------------------------------------------
(* Properties.                                                             *)

TypeOK ==
    /\ rows \in [Approvals -> Row]
    /\ inserted \in [Approvals -> 0..MaxTime]
    /\ clock \in 0..MaxTime
    /\ stage \in [Handlers -> Stage]
    /\ request \in [Handlers -> Responses \cup {List, NoRequest}]
    /\ since \in [Handlers -> 0..MaxTime]
    /\ due \in [Handlers -> SUBSET Approvals]
    /\ view \in [Handlers -> SUBSET Approvals]
    /\ late \in [Handlers -> BOOLEAN]

LiveAt(p, now) == rows[p].expiresAt = Never \/ now < rows[p].expiresAt

\* An approval stands approved or rejected only by the word of a response that gave this
\* verdict, and that arrived before the deadline: expiry needs no timer to keep a
\* late response out, for the response itself sweeps first.
DecidedInTime ==
    \A p \in Approvals : rows[p].status \in {"approved", "rejected"} =>
        \E h \in Handlers :
            /\ stage[h] = "accepted"
            /\ request[h].approval = p
            /\ Verdict(request[h]) = rows[p].status
            /\ LiveAt(p, since[h])

\* A response that arrives when the approval has been decided or has expired is refused:
\* only requests already under way can still change a decision.
LateIsRefused == \A h \in Handlers : late[h] => stage[h] # "accepted"

\* A listing shows as pending no approval whose deadline had passed when the listing
\* began, but for one that was inserted with a past deadline since then.
FreshView ==
    \A h \in Handlers : \A p \in view[h] :
        LiveAt(p, since[h]) \/ inserted[p] >= since[h]

\* A request that arrives after the deadline of a pending approval, and is not cut off,
\* ends that approval's wait.
SweepExpires ==
    \A h \in Handlers, p \in Approvals :
        (stage[h] = "entered" /\ Overdue(p, since[h])) ~>
            (rows[p].status # "pending" \/ stage[h] = "dead")
=============================================================================
