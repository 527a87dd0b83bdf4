-------------------------- MODULE ApprovalsProofs --------------------------
(***************************************************************************)
(* Approvals are decided in time, for any number of approvals and requests *)
(* and any deadlines.                                                      *)
(*                                                                         *)
(* The argument: once a handler has swept, an approval that is still       *)
(* pending was not overdue when the request arrived, for a status that has *)
(* left pending never returns to it.  A response reads the status after    *)
(* its sweep; later commits of others change the status but not the        *)
(* deadline.  For a listing the same holds of every approval that was      *)
(* inserted before the listing arrived.                                    *)
(***************************************************************************)
EXTENDS Approvals, TLAPS

Answering(h) == request[h] \in Responses

\* The approval of a response exists; the sweep of the response has dealt with it.
SweptInv ==
    \A h \in Handlers :
        /\ stage[h] = "idle" <=> request[h] = NoRequest
        /\ Answering(h) =>
               LET p == request[h].approval
               IN  /\ Exists(p)
                   /\ stage[h] = "sweeping" /\ rows[p].status = "pending" =>
                          LiveAt(p, since[h]) \/ p \in due[h]
                   /\ stage[h] = "swept" /\ rows[p].status = "pending" => LiveAt(p, since[h])
                   /\ stage[h] = "deciding" => LiveAt(p, since[h])
                   /\ late[h] => rows[p].status # "pending"
        /\ late[h] => stage[h] \notin {"deciding", "accepted"}
        /\ stage[h] \in {"deciding", "accepted"} => Answering(h)

Fresh(h, p) == LiveAt(p, since[h]) \/ inserted[p] >= since[h]
Dealt(h, p) == rows[p].status = "pending" => Fresh(h, p)

\* The sweep of any request has dealt with every approval of the table.
FreshInv ==
    \A h \in Handlers :
        /\ since[h] <= clock
        /\ stage[h] = "idle" => view[h] = {}
        /\ \A p \in Approvals :
               /\ p \in due[h] => Exists(p)
               /\ stage[h] = "sweeping" => Dealt(h, p) \/ p \in due[h]
               /\ stage[h] = "swept" => Dealt(h, p)
               /\ p \in view[h] => Exists(p) /\ Fresh(h, p)

Inv == TypeOK /\ SweptInv /\ FreshInv /\ DecidedInTime

LEMMA InitInv == Init => Inv
  BY ApprovalsAssumption, RequestAssumption
  DEF Init, Inv, TypeOK, Row, Stage, SweptInv, FreshInv, Answering, DecidedInTime, ApprovalStatus

LEMMA NextTypeOK == TypeOK /\ [Next]_vars => TypeOK'
<1> SUFFICES ASSUME TypeOK, [Next]_vars PROVE TypeOK'
  OBVIOUS
<1> USE ApprovalsAssumption DEF TypeOK
<1>1. ASSUME Tick PROVE TypeOK'
  BY <1>1 DEF Tick
<1>2. ASSUME NEW p \in Approvals, NEW x \in Expiries, Create(p, x) PROVE TypeOK'
  <2>1. Stored(x) \in Int \cup {Never}
    BY DEF Stored
  <2>2. QED
    BY <1>2, <2>1 DEF Create, Row, ApprovalStatus
<1>3. ASSUME NEW h \in Handlers, EnterList(h) PROVE TypeOK'
  BY <1>3 DEF EnterList, Enter, Goto, Stage
<1>4. ASSUME NEW h \in Handlers, NEW q \in Responses, EnterRespond(h, q) PROVE TypeOK'
  BY <1>4 DEF EnterRespond, Enter, Goto, Stage
<1>5. ASSUME NEW h \in Handlers, SweepRead(h) PROVE TypeOK'
  BY <1>5 DEF SweepRead, Goto, Stage
<1>6. ASSUME NEW h \in Handlers, SweepCommit(h) PROVE TypeOK'
  BY <1>6 DEF SweepCommit, Goto, Stage, Row, ApprovalStatus
<1>7. ASSUME NEW h \in Handlers, ListRead(h) \/ RespondRead(h) \/ Abort(h) PROVE TypeOK'
  BY <1>7 DEF ListRead, RespondRead, Abort, Goto, Stage
<1>8. ASSUME NEW h \in Handlers, RespondCommit(h) PROVE TypeOK'
  <2> DEFINE v == Verdict(request[h])
             p == request[h].approval
  <2>1. v \in ApprovalStatus
    BY DEF Verdict, ApprovalStatus
  <2>2. rows' = [rows EXCEPT ![p].status = v]
    BY <1>8 DEF RespondCommit
  <2> HIDE DEF v, p
  <2>3. rows' \in [Approvals -> Row]
    BY <2>1, <2>2 DEF Row
  <2>4. QED
    BY <1>8, <2>3 DEF RespondCommit, Goto, Stage
<1>9. CASE UNCHANGED vars
  BY <1>9 DEF vars
<1>10. QED
  BY <1>1, <1>2, <1>3, <1>4, <1>5, <1>6, <1>7, <1>8, <1>9 DEF Next, Handle

\* No step brings a row back to pending, removes it or moves its deadline.
LEMMA RowsMoveOn ==
    ASSUME TypeOK, [Next]_vars, NEW p \in Approvals, Exists(p)
    PROVE  /\ Exists(p)'
           /\ rows'[p].expiresAt = rows[p].expiresAt
           /\ inserted'[p] = inserted[p]
           /\ rows[p].status # "pending" => rows'[p].status # "pending"
<1> USE DEF TypeOK, Row, Exists
<1>1. ASSUME NEW x \in Approvals, NEW y \in Expiries, Create(x, y), Exists(p)
      PROVE  rows'[p] = rows[p] /\ inserted'[p] = inserted[p]
  BY <1>1 DEF Create
<1>2. ASSUME NEW h \in Handlers, SweepCommit(h)
      PROVE  /\ rows'[p] \in {rows[p], [rows[p] EXCEPT !.status = "expired"]}
             /\ inserted' = inserted
  BY <1>2 DEF SweepCommit
<1>3. ASSUME NEW h \in Handlers, RespondCommit(h)
      PROVE  /\ rows'[p] = rows[p] \/ \E v \in {"approved", "rejected"} :
                                          rows'[p] = [rows[p] EXCEPT !.status = v]
             /\ inserted' = inserted
  BY <1>3 DEF RespondCommit, Verdict
<1>4. ASSUME NEW h \in Handlers,
             \/ Tick \/ EnterList(h) \/ (\E q \in Responses : EnterRespond(h, q))
             \/ SweepRead(h) \/ ListRead(h) \/ RespondRead(h) \/ Abort(h)
      PROVE  rows' = rows /\ inserted' = inserted
  BY <1>4 DEF Tick, EnterList, EnterRespond, SweepRead, ListRead, RespondRead, Abort
<1>5. CASE UNCHANGED vars \/ Tick
  BY <1>5 DEF vars, Tick
<1>6. QED
  BY <1>1, <1>2, <1>3, <1>4, <1>5 DEF Next, Handle

LEMMA NextSwept == TypeOK /\ SweptInv /\ [Next]_vars => SweptInv'
<1> SUFFICES ASSUME TypeOK, SweptInv, [Next]_vars PROVE SweptInv'
  OBVIOUS
<1> USE ApprovalsAssumption, RequestAssumption DEF TypeOK
<1> DEFINE Same(h) == UNCHANGED <<stage[h], request[h], since[h], due[h], late[h]>>
           Part(h) ==
               /\ stage[h] = "idle" <=> request[h] = NoRequest
               /\ Answering(h) =>
                      LET p == request[h].approval
                      IN  /\ Exists(p)
                          /\ stage[h] = "sweeping" /\ rows[p].status = "pending" =>
                                 LiveAt(p, since[h]) \/ p \in due[h]
                          /\ stage[h] = "swept" /\ rows[p].status = "pending" =>
                                 LiveAt(p, since[h])
                          /\ stage[h] = "deciding" => LiveAt(p, since[h])
                          /\ late[h] => rows[p].status # "pending"
               /\ late[h] => stage[h] \notin {"deciding", "accepted"}
               /\ stage[h] \in {"deciding", "accepted"} => Answering(h)
<1>1. ASSUME NEW h \in Handlers, Answering(h)
      PROVE  \E p \in Approvals :
                 /\ p = request[h].approval
                 /\ Exists(p) /\ Exists(p)'
                 /\ rows'[p].expiresAt = rows[p].expiresAt
                 /\ rows[p].status # "pending" => rows'[p].status # "pending"
  <2>1. PICK p \in Approvals : p = request[h].approval /\ Exists(p)
    BY <1>1 DEF Answering, Responses, SweptInv
  <2>2. QED
    BY <2>1, RowsMoveOn
<1>2. ASSUME NEW h \in Handlers, Same(h) PROVE Part(h)'
  BY <1>1, <1>2 DEF SweptInv, Answering, LiveAt
<1>3. ASSUME NEW h \in Handlers, EnterList(h) PROVE Part(h)'
  BY <1>3 DEF EnterList, Enter, Goto, Answering, SweptInv
<1>4. ASSUME NEW h \in Handlers, NEW q \in Responses, EnterRespond(h, q) PROVE Part(h)'
  BY <1>4 DEF EnterRespond, Enter, Goto, Answering, Exists
<1>5. ASSUME NEW h \in Handlers, SweepRead(h) PROVE Part(h)'
  <2>1. /\ stage[h] = "entered" /\ stage'[h] \in {"swept", "sweeping"}
        /\ due'[h] = {p \in Approvals : Overdue(p, since[h])}
        /\ stage'[h] = "swept" => due'[h] = {}
        /\ UNCHANGED <<rows, request, since, late>>
    BY <1>5 DEF SweepRead, Goto
  <2>2. ASSUME NEW p \in Approvals, p \notin due'[h], rows[p].status = "pending"
        PROVE  LiveAt(p, since[h])
    BY <2>1, <2>2 DEF Overdue, LiveAt, Row
  <2>3. QED
    BY <1>1, <2>1, <2>2 DEF Answering, SweptInv, LiveAt, Exists
<1>6. ASSUME NEW h \in Handlers, SweepCommit(h) PROVE Part(h)'
  <2>1. /\ stage[h] = "sweeping" /\ stage'[h] = "swept"
        /\ UNCHANGED <<request, since, late>>
        /\ \A p \in due[h] : rows'[p].status = "expired"
        /\ \A p \in Approvals \ due[h] : rows'[p] = rows[p]
    BY <1>6 DEF SweepCommit, Goto, Row
  <2>2. QED
    BY <1>1, <2>1 DEF Answering, SweptInv, LiveAt
<1>7. ASSUME NEW h \in Handlers, ListRead(h) \/ Abort(h) PROVE Part(h)'
  <2>1. /\ stage[h] # "idle" /\ stage'[h] \in {"listed", "dead"}
        /\ UNCHANGED <<rows, request, since, late>>
    BY <1>7 DEF ListRead, Abort, Goto
  <2>2. QED
    BY <2>1 DEF Answering, SweptInv, Exists
<1>8. ASSUME NEW h \in Handlers, RespondRead(h) PROVE Part(h)'
  <2>1. /\ stage[h] = "swept" /\ Answering(h)
        /\ UNCHANGED <<rows, request, since, late>>
    BY <1>8 DEF RespondRead, Answering, SweptInv
  <2>2. stage'[h] = IF rows[request[h].approval].status = "pending"
                    THEN "deciding" ELSE "refused"
    BY <1>8 DEF RespondRead, Goto
  <2>3. QED
    BY <2>1, <2>2 DEF Answering, SweptInv, Exists, LiveAt
<1>9. ASSUME NEW h \in Handlers, RespondCommit(h) PROVE Part(h)'
  <2>1. /\ stage[h] = "deciding" /\ stage'[h] = "accepted"
        /\ UNCHANGED <<request, since, late>>
    BY <1>9 DEF RespondCommit, Goto
  <2>2. QED
    BY <1>1, <2>1 DEF Answering, SweptInv, LiveAt
<1>10. ASSUME NEW h \in Handlers, EnterList(h) \/ Handle(h) \/ Abort(h)
               \/ (\E q \in Responses : EnterRespond(h, q))
       PROVE  \A g \in Handlers \ {h} : Same(g)
  BY <1>10 DEF EnterList, EnterRespond, Enter, Handle, SweepRead, SweepCommit, ListRead,
               RespondRead, RespondCommit, Abort, Goto
<1>11. ASSUME Tick \/ UNCHANGED vars \/ (\E p \in Approvals, x \in Expiries : Create(p, x))
       PROVE  \A h \in Handlers : Same(h)
  BY <1>11 DEF Tick, vars, Create
<1>12. \A h \in Handlers : Part(h)'
  <2>1. ASSUME NEW h \in Handlers, EnterList(h) \/ Handle(h) \/ Abort(h)
               \/ (\E q \in Responses : EnterRespond(h, q))
        PROVE  Part(h)'
    BY <2>1, <1>3, <1>4, <1>5, <1>6, <1>7, <1>8, <1>9 DEF Handle
  <2> HIDE DEF Part, Same
  <2>2. QED
    BY <2>1, <1>2, <1>10, <1>11 DEF Next
<1>13. QED
  BY <1>12 DEF SweptInv

\* A row that comes into being is inserted at the time that the clock shows.
LEMMA RowsBegin ==
    ASSUME TypeOK, SweptInv, FreshInv, [Next]_vars, NEW p \in Approvals, ~Exists(p), Exists(p)'
    PROVE  inserted'[p] = clock
<1> USE DEF TypeOK, Row, Exists
<1>1. ASSUME NEW x \in Approvals, NEW y \in Expiries, Create(x, y)
      PROVE  inserted'[p] = clock
  BY <1>1 DEF Create
<1>2. ASSUME NEW h \in Handlers, SweepCommit(h) PROVE FALSE
  BY <1>2 DEF SweepCommit, FreshInv
<1>3. ASSUME NEW h \in Handlers, RespondCommit(h) PROVE FALSE
  BY <1>3 DEF RespondCommit, SweptInv, Answering
<1>4. ASSUME NEW h \in Handlers,
             \/ EnterList(h) \/ (\E q \in Responses : EnterRespond(h, q))
             \/ SweepRead(h) \/ ListRead(h) \/ RespondRead(h) \/ Abort(h)
      PROVE  FALSE
  BY <1>4 DEF EnterList, EnterRespond, SweepRead, ListRead, RespondRead, Abort
<1>5. ASSUME Tick \/ UNCHANGED vars PROVE FALSE
  BY <1>5 DEF Tick, vars
<1> QED
  BY <1>1, <1>2, <1>3, <1>4, <1>5 DEF Next, Handle

LEMMA NextFresh == TypeOK /\ SweptInv /\ FreshInv /\ [Next]_vars => FreshInv'
<1> SUFFICES ASSUME TypeOK, SweptInv, FreshInv, [Next]_vars, NEW h \in Handlers
             PROVE  /\ since'[h] <= clock'
                    /\ stage'[h] = "idle" => view'[h] = {}
                    /\ \A p \in Approvals :
                           /\ p \in due'[h] => Exists(p)'
                           /\ stage'[h] = "sweeping" => Dealt(h, p)' \/ p \in due'[h]
                           /\ stage'[h] = "swept" => Dealt(h, p)'
                           /\ p \in view'[h] => Exists(p)' /\ Fresh(h, p)'
  BY DEF FreshInv
<1> DEFINE Part == /\ since[h] <= clock
                   /\ stage[h] = "idle" => view[h] = {}
                   /\ \A p \in Approvals :
                          /\ p \in due[h] => Exists(p)
                          /\ stage[h] = "sweeping" => Dealt(h, p) \/ p \in due[h]
                          /\ stage[h] = "swept" => Dealt(h, p)
                          /\ p \in view[h] => Exists(p) /\ Fresh(h, p)
<1>1. since[h] \in Int /\ clock \in Int /\ clock' \in Int /\ clock <= clock' /\ Part
  <2>1. clock' \in {clock, clock + 1}
    BY DEF Next, Tick, Create, EnterList, EnterRespond, Handle, SweepRead, SweepCommit, ListRead,
           RespondRead, RespondCommit, Abort, vars
  <2>2. since[h] \in Int /\ clock \in Int
    BY ApprovalsAssumption DEF TypeOK
  <2>3. Part
    BY DEF FreshInv
  <2> HIDE DEF Part
  <2> QED BY <2>1, <2>2, <2>3
<1> HIDE DEF Part
\* Time passes for a row: one that was dealt with stays so while the request goes on.
<1>2. ASSUME UNCHANGED since[h], NEW p \in Approvals
      PROVE  /\ Exists(p) /\ Fresh(h, p) => Exists(p)' /\ Fresh(h, p)'
             /\ Exists(p) => Exists(p)'
             /\ Dealt(h, p) => Dealt(h, p)'
  <2>1. Exists(p) => /\ Exists(p)' /\ (Fresh(h, p) => Fresh(h, p)')
                     /\ rows[p].status # "pending" => rows'[p].status # "pending"
    BY <1>2, RowsMoveOn DEF Fresh, LiveAt
  <2>2. ~Exists(p) /\ Exists(p)' => Fresh(h, p)'
    BY <1>1, <1>2, RowsBegin DEF Fresh, Part
  <2>3. ~Exists(p)' => rows'[p].status # "pending"
    BY DEF Exists
  <2> QED BY <2>1, <2>2, <2>3 DEF Dealt
<1>3. CASE UNCHANGED <<stage[h], since[h], due[h], view[h]>>
  BY <1>1, <1>2, <1>3 DEF Part
<1>4. CASE \E q : Enter(h, q) /\ UNCHANGED <<rows, clock, due, view>>
  BY <1>1, <1>4 DEF Part, Enter, Goto, TypeOK, Exists
<1>5. CASE SweepRead(h)
  <2>1. /\ stage'[h] = "swept" => due'[h] = {}
        /\ stage'[h] \in {"swept", "sweeping"}
        /\ due'[h] = {p \in Approvals : Overdue(p, since[h])}
        /\ UNCHANGED <<rows, clock, since, view>>
    BY <1>5 DEF SweepRead, Goto, TypeOK
  <2>2. ASSUME NEW p \in Approvals
        PROVE  /\ p \in due'[h] => Exists(p)
               /\ p \notin due'[h] => Dealt(h, p)
    BY <2>1 DEF Overdue, Exists, Dealt, Fresh, LiveAt, TypeOK, Row
  <2> QED BY <1>1, <1>2, <2>1, <2>2 DEF Part
<1>6. CASE SweepCommit(h)
  <2>1. /\ stage[h] = "sweeping" /\ stage'[h] = "swept" /\ due'[h] = {}
        /\ UNCHANGED <<clock, since, view>>
        /\ \A p \in due[h] : rows'[p].status = "expired"
    BY <1>6 DEF SweepCommit, Goto, TypeOK, Row
  <2> QED BY <1>1, <1>2, <2>1 DEF Part, Dealt
<1>7. CASE ListRead(h)
  <2>1. /\ stage[h] = "swept" /\ stage'[h] = "listed"
        /\ view'[h] = {p \in Approvals : rows[p].status = "pending"}
        /\ UNCHANGED <<rows, clock, since, due>>
    BY <1>7 DEF ListRead, Goto, TypeOK
  <2> QED BY <1>1, <1>2, <2>1 DEF Part, Dealt, Exists
<1>8. CASE RespondRead(h) \/ RespondCommit(h) \/ Abort(h)
  <2>1. /\ stage'[h] \in {"deciding", "refused", "accepted", "dead"}
        /\ UNCHANGED <<clock, since, due, view>>
    BY <1>8 DEF RespondRead, RespondCommit, Abort, Goto, TypeOK
  <2> QED BY <1>1, <1>2, <2>1 DEF Part
<1>9. ASSUME NEW g \in Handlers \ {h},
             EnterList(g) \/ Handle(g) \/ Abort(g) \/ (\E q \in Responses : EnterRespond(g, q))
      PROVE  UNCHANGED <<stage[h], since[h], due[h], view[h]>>
  BY <1>9 DEF EnterList, EnterRespond, Enter, Handle, SweepRead, SweepCommit, ListRead,
              RespondRead, RespondCommit, Abort, Goto, TypeOK
<1>10. ASSUME Tick \/ UNCHANGED vars \/ (\E p \in Approvals, x \in Expiries : Create(p, x))
       PROVE  UNCHANGED <<stage[h], since[h], due[h], view[h]>>
  BY <1>10 DEF Tick, vars, Create
<1>11. ASSUME EnterList(h) \/ (\E q \in Responses : EnterRespond(h, q))
       PROVE  \E q : Enter(h, q) /\ UNCHANGED <<rows, clock, due, view>>
  BY <1>11 DEF EnterList, EnterRespond
<1> QED
  BY <1>3, <1>4, <1>5, <1>6, <1>7, <1>8, <1>9, <1>10, <1>11 DEF Next, Handle, Part

LEMMA NextDecided == Inv /\ [Next]_vars => DecidedInTime'
<1> SUFFICES ASSUME Inv, [Next]_vars,
                    NEW p \in Approvals, rows'[p].status \in {"approved", "rejected"}
             PROVE  \E h \in Handlers :
                        /\ stage'[h] = "accepted"
                        /\ request'[h].approval = p
                        /\ Verdict(request'[h]) = rows'[p].status
                        /\ LiveAt(p, since[h])'
  BY DEF DecidedInTime
<1> USE DEF Inv, TypeOK
<1> DEFINE Decided(h) == /\ stage[h] = "accepted"
                         /\ request[h].approval = p
                         /\ Verdict(request[h]) = rows[p].status
                         /\ LiveAt(p, since[h])
<1>1. ASSUME NEW h \in Handlers, stage[h] = "accepted"
      PROVE  stage'[h] = "accepted" /\ UNCHANGED <<request[h], since[h]>>
  BY <1>1 DEF Next, Handle, Tick, Create, EnterList, EnterRespond, Enter, SweepRead,
              SweepCommit, ListRead, RespondRead, RespondCommit, Abort, Goto, vars
<1>2. ASSUME rows'[p] = rows[p] PROVE \E h \in Handlers : Decided(h)'
  BY <1>1, <1>2 DEF DecidedInTime, LiveAt
<1>3. ASSUME NEW h \in Handlers, RespondCommit(h) PROVE \E g \in Handlers : Decided(g)'
  <2>1. CASE p # request[h].approval
    BY <1>2, <1>3, <2>1 DEF RespondCommit
  <2>2. CASE p = request[h].approval
    <3>1. LiveAt(p, since[h]) /\ Answering(h)
      BY <1>3, <2>2 DEF RespondCommit, SweptInv
    <3>2. stage'[h] = "accepted" /\ UNCHANGED <<request, since>>
      BY <1>3 DEF RespondCommit, Goto
    <3>3. rows'[p] = [rows[p] EXCEPT !.status = Verdict(request[h])]
      BY <1>3, <2>2 DEF RespondCommit
    <3>4. QED
      BY <2>2, <3>1, <3>2, <3>3 DEF LiveAt, Row
  <2>3. QED
    BY <2>1, <2>2
<1>4. ASSUME NEW h \in Handlers, SweepCommit(h) PROVE rows'[p] = rows[p]
  BY <1>4 DEF SweepCommit, Row
<1>5. ASSUME NEW x \in Approvals, NEW y \in Expiries, Create(x, y) PROVE rows'[p] = rows[p]
  BY <1>5 DEF Create
<1>6. ASSUME NEW h \in Handlers,
             \/ EnterList(h) \/ (\E q \in Responses : EnterRespond(h, q))
             \/ SweepRead(h) \/ ListRead(h) \/ RespondRead(h) \/ Abort(h)
      PROVE  rows'[p] = rows[p]
  BY <1>6 DEF EnterList, EnterRespond, SweepRead, ListRead, RespondRead, Abort
<1>7. ASSUME Tick \/ UNCHANGED vars PROVE rows'[p] = rows[p]
  BY <1>7 DEF Tick, vars
<1> HIDE DEF Decided
<1>8. \E h \in Handlers : Decided(h)'
  <2>1. (\E h \in Handlers : RespondCommit(h)) \/ rows'[p] = rows[p]
    BY <1>4, <1>5, <1>6, <1>7 DEF Next, Handle
  <2>2. QED
    BY <1>2, <1>3, <2>1
<1>9. QED
  BY <1>8 DEF Decided

LEMMA NextInv == Inv /\ [Next]_vars => Inv'
  BY NextTypeOK, NextSwept, NextFresh, NextDecided DEF Inv

---------------------------------------------------------------------------
\* The table, the clock and what each request has in hand keep their types.
THEOREM TypeCorrect == Spec => []TypeOK
<1>1. Inv => TypeOK
  BY DEF Inv
<1> QED BY InitInv, NextInv, <1>1, PTL DEF Spec

\* An approval stands approved or rejected only by a response that arrived before its
\* deadline, however the sweeps, listings and responses interleave.
THEOREM ApprovalsDecidedInTime == Spec => []DecidedInTime
<1>1. Inv => DecidedInTime
  BY DEF Inv
<1> QED BY InitInv, NextInv, <1>1, PTL DEF Spec

\* A response that arrives after the decision or the expiry is never accepted.
THEOREM LateResponsesRefused == Spec => []LateIsRefused
<1>1. Inv => LateIsRefused
  BY DEF Inv, SweptInv, LateIsRefused
<1> QED BY InitInv, NextInv, <1>1, PTL DEF Spec

\* GET /approvals shows as pending no approval that was overdue when the listing arrived,
\* whatever other requests sweep, answer and create while it runs.
THEOREM ListingsAreFresh == Spec => []FreshView
<1>1. Inv => FreshView
  BY DEF Inv, FreshInv, Fresh, FreshView, TypeOK
<1> QED BY InitInv, NextInv, <1>1, PTL DEF Spec
=============================================================================
