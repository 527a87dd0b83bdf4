----------------------------- MODULE ChatProofs -----------------------------
(***************************************************************************)
(* Conversations, plans, records and titles agree, for any number of       *)
(* requests, conversations, edits and plans, any panel of agents, any      *)
(* retry and step limits and any number of refused writes and crashes.     *)
(*                                                                         *)
(* The argument: where a request is says what it has paid for, logged,     *)
(* remembered, filed and answered, until it fails; a request that has      *)
(* failed writes none of this again but its error message.  A plan and a   *)
(* title are shared: whoever has read one and was not crossed holds what   *)
(* the table holds, so that the columns it leaves out are the ones that    *)
(* have their new value already.                                           *)
(***************************************************************************)
EXTENDS Chat, FiniteSetTheorems, SequenceTheorems, TLAPS

---------------------------------------------------------------------------
(* The parts of the inductive invariant.                                   *)

Row == {NoPlan} \cup [status : {"active", "completed"}, steps : StepLists]
Update == [plan : Plans, steps : StepLists, loaded : Row, crossed : BOOLEAN]
Edit == [conversation : Conversations, loaded : Titles, crossed : BOOLEAN]
Message == [role : {"user", "assistant"}, status : {"completed", "error"}]

HistoryTypeOK ==
    /\ update \in [Jobs -> Update \cup {NoUpdate}]
    /\ edit \in [Editors -> Edit \cup {NoEdit}]
    /\ seen \in [Jobs -> [loaded : Titles, crossed : BOOLEAN]]

\* Every job is at a stage of its own kind of work.
ResearchStage == {"context", "thinking", "filing", "closing", "linked"}
ChatStage == {"recall", "choosing", "tool", "planning", "tracing", "retracing"}
SharedStage == {"logging", "remembering"}

KindOK(j) ==
    /\ work[j].kind = "none" => work[j].stage \in {"idle", "rejected"}
    /\ work[j].stage = "idle" => work[j].kind = "none" /\ work[j].agent = 1
    /\ work[j].stage \in ResearchStage => work[j].kind = "research"
    /\ work[j].stage \in ChatStage => work[j].kind = "chat"
    /\ work[j].stage \in SharedStage => work[j].kind \in {"research", "chat"}
    /\ work[j].stage = "running" => work[j].kind = "automation"

Stopped == {"failed", "errored", "unanswered", "lost"}

\* A response is without its row while the caller has it in hand, or when the row was
\* refused, which ends the request.
PaidOK(j) ==
    /\ call[j].stage # "none" => work[j].stage \in {"thinking", "choosing"}
    /\ call[j].stage \in {"calling", "recorded", "refused"} => unpaid[j] = 0
    /\ call[j].stage = "answered" => unpaid[j] = 1
    /\ unpaid[j] <= 1
    /\ call[j].stage = "none" /\ work[j].stage \notin Stopped => unpaid[j] = 0

Filed == {"filing", "closing", "delivered", "linked", "answered"}
FirstAgents(k) == {Panel[n] : n \in 1..k}

\* The entries of agent_runs and of the memory that a job has made on its way here.
Logged(j) ==
    CASE work[j].kind = "research" ->
            FirstAgents(IF work[j].stage \in Filed \cup {"remembering"}
                        THEN work[j].agent ELSE work[j].agent - 1)
            \cup {t \in {"research"} : work[j].stage \in {"delivered", "linked", "answered"}}
      [] work[j].kind = "chat" ->
            {t \in {"react_agent"} : work[j].stage \in {"remembering", "delivered", "answered"}}
      [] OTHER -> {}

Remembered(j) ==
    CASE work[j].kind = "research" ->
            FirstAgents(IF work[j].stage \in Filed THEN work[j].agent ELSE work[j].agent - 1)
      [] work[j].kind = "chat" ->
            {t \in {"react_agent"} : work[j].stage \in {"delivered", "answered"}}
      [] OTHER -> {}

CasesOf(s) == CASE s \in {"closing", "delivered"} -> <<"own">>
                [] s \in {"linked", "answered"} -> <<"own", "chat">>
                [] OTHER -> <<>>

Once(S) == [t \in RunTypes |-> IF t \in S THEN 1 ELSE 0]

LedgerOK(j) ==
    /\ \A t \in RunTypes : memories[j][t] <= runs[j][t] /\ runs[j][t] <= 1
    /\ work[j].stage \notin Stopped =>
        /\ runs[j] = Once(Logged(j))
        /\ memories[j] = Once(Remembered(j))
        /\ work[j].kind \in {"none", "research"} => cases[j] = CasesOf(work[j].stage)
        /\ work[j].kind = "research" /\ work[j].stage \in Filed => work[j].agent = Len(Panel)

Said(role, status) == [role |-> role, status |-> status]
Question == <<Said("user", "completed")>>
Answered(status) == <<Said("user", "completed"), Said("assistant", status)>>

MessagesOK(j) ==
    /\ work[j].stage \in {"idle", "preparing", "rejected"} => messages[j] = <<>>
    /\ work[j].stage = "lost" => messages[j] \in {<<>>, Question}
    /\ work[j].stage = "answered" => messages[j] = Answered("completed")
    /\ work[j].stage = "errored" => messages[j] = Answered("error")
    /\ work[j].stage \notin {"idle", "preparing", "rejected", "lost", "answered", "errored"} =>
            messages[j] = Question

JobOK(j) == KindOK(j) /\ PaidOK(j) /\ LedgerOK(j) /\ MessagesOK(j)
JobInv == \A j \in Jobs : JobOK(j)

\* An update that nobody has crossed holds the row as it is.
PlanInv ==
    /\ \A j \in Jobs : update[j] # NoUpdate =>
        /\ InProgress(update[j].steps) <= 1
        /\ update[j].loaded # NoPlan => plans[update[j].plan] # NoPlan
        /\ ~update[j].crossed => update[j].loaded = plans[update[j].plan]
    /\ PlanAgreesWhenApart

\* A title that nobody has crossed is the one in the table.
TitleInv ==
    /\ \A c \in Conversations : conversations[c].owner = "none" => wanted[c] = "none"
    /\ \A e \in Editors : edit[e] # NoEdit =>
        /\ conversations[edit[e].conversation].owner # "none"
        /\ ~edit[e].crossed => edit[e].loaded = conversations[edit[e].conversation].title
    /\ \A j \in Jobs : seen[j] # Unseen =>
        /\ conversations[Of(j)].owner # "none"
        /\ ~seen[j].crossed => seen[j].loaded = conversations[Of(j)].title
    /\ TitleKeptWhenApart

Inv == TypeOK /\ HistoryTypeOK /\ JobInv /\ PlanInv /\ TitleInv

---------------------------------------------------------------------------
(* What a step of one job writes: its own entries.                         *)

CallRow == [stage : CallStage, tries : 0..Attempts - 1]
WorkRow == [kind : Kinds, stage : Stages, agent : 1..Len(Panel), step : 1..5]
CaseList == Seq({"own", "chat"})

WorkMoves(j) == \E w \in WorkRow : work' = [work EXCEPT ![j] = w]
CallMoves(j) == /\ \E c \in CallRow : call' = [call EXCEPT ![j] = c]
                /\ \E u \in Nat : unpaid' = [unpaid EXCEPT ![j] = u]
LedgerMoves(j) == /\ \E r \in [RunTypes -> Nat] : runs' = [runs EXCEPT ![j] = r]
                  /\ \E m \in [RunTypes -> Nat] : memories' = [memories EXCEPT ![j] = m]
                  /\ \E k \in CaseList : cases' = [cases EXCEPT ![j] = k]
MessagesMove(j) == \E g \in Seq(Message) : messages' = [messages EXCEPT ![j] = g]

JobStep(j) == PrepareRead(j) \/ Reply(j)

\* The parts of the type invariant, by what writes them.
JobTypeOK ==
    /\ work \in [Jobs -> WorkRow]
    /\ call \in [Jobs -> CallRow] /\ unpaid \in [Jobs -> Nat]
    /\ runs \in [Jobs -> [RunTypes -> Nat]] /\ memories \in [Jobs -> [RunTypes -> Nat]]
    /\ cases \in [Jobs -> CaseList]
    /\ messages \in [Jobs -> Seq(Message)]

LEMMA TypeHasJobs == TypeOK => JobTypeOK
  BY DEF TypeOK, JobTypeOK, CallRow, WorkRow, CaseList, Message

LEMMA NoCallType == NoCall \in CallRow
  BY CallAssumption DEF NoCall, CallRow, CallStage, Attempts

\* Going to a stage, or staying, writes one row.
LEMMA GotoMoves ==
    ASSUME JobTypeOK, NEW j \in Jobs
    PROVE  /\ \A s \in Stages : Goto(j, s) => WorkMoves(j)
           /\ UNCHANGED work => WorkMoves(j)
<1>1. work[j] \in WorkRow
  BY DEF JobTypeOK
<1>2. ASSUME NEW s \in Stages, Goto(j, s) PROVE WorkMoves(j)
  <2>1. [work[j] EXCEPT !.stage = s] \in WorkRow
    BY <1>1 DEF WorkRow
  <2>2. work' = [work EXCEPT ![j] = [work[j] EXCEPT !.stage = s]]
    BY <1>2 DEF Goto
  <2> QED BY <2>1, <2>2 DEF WorkMoves
<1>3. ASSUME UNCHANGED work PROVE WorkMoves(j)
  <2>1. work' = [work EXCEPT ![j] = work[j]]
    BY <1>3 DEF JobTypeOK
  <2> QED BY <1>1, <2>1 DEF WorkMoves
<1> QED BY <1>2, <1>3

LEMMA ObserveMoves ==
    ASSUME JobTypeOK, NEW j \in Jobs, Observe(j)
    PROVE  WorkMoves(j)
<1>1. CASE Goto(j, "logging")
  BY <1>1, GotoMoves DEF Stages
<1>2. CASE work[j].step < MaxSteps[j]
           /\ work' = [work EXCEPT ![j].stage = "choosing", ![j].step = @ + 1]
  <2> DEFINE w == [work[j] EXCEPT !.stage = "choosing", !.step = @ + 1]
  <2>1. work[j] \in WorkRow /\ work[j].step + 1 \in 1..5
    BY <1>2, ReActAssumption DEF JobTypeOK, WorkRow
  <2>2. w \in WorkRow
    BY <2>1 DEF WorkRow, Stages
  <2>3. work' = [work EXCEPT ![j] = w]
    BY <1>2
  <2> HIDE DEF w
  <2> QED BY <2>2, <2>3 DEF WorkMoves
<1> QED BY <1>1, <1>2 DEF Observe

LEMMA JobWorkMoves == ASSUME JobTypeOK, JobInv, NEW j \in Jobs, JobStep(j) PROVE WorkMoves(j)
<1> USE DEF callVars, ledger, planVars, chatVars
<1>1. CASE \E s \in Stages : Goto(j, s)
  BY <1>1, GotoMoves
<1>2. CASE UNCHANGED work
  BY <1>2, GotoMoves
<1>3. CASE RememberResult(j)
  <2>1. CASE Goto(j, "filing")
    BY <2>1, GotoMoves DEF Stages
  <2>2. CASE work[j].agent < Len(Panel)
             /\ work' = [work EXCEPT ![j].stage = "context", ![j].agent = @ + 1]
    <3> DEFINE w == [work[j] EXCEPT !.stage = "context", !.agent = @ + 1]
    <3>1. work[j] \in WorkRow /\ work[j].agent + 1 \in 1..Len(Panel)
      BY <2>2, PanelAssumption DEF JobTypeOK, WorkRow
    <3>2. w \in WorkRow
      BY <3>1 DEF WorkRow, Stages
    <3>3. work' = [work EXCEPT ![j] = w]
      BY <2>2
    <3> HIDE DEF w
    <3> QED BY <3>2, <3>3 DEF WorkMoves
  <2> QED BY <1>3, <2>1, <2>2 DEF RememberResult
<1>4. CASE Observe(j)
  BY <1>4, ObserveMoves
<1>5. CASE PrepareRead(j)
  <2>1. CASE Goto(j, "rejected")
    BY <2>1, GotoMoves DEF Stages
  <2>2. CASE \E action \in Actions[j] :
                 work' = [work EXCEPT ![j].stage = "preparing", ![j].kind = action]
    <3>1. PICK action \in Actions[j] :
                 work' = [work EXCEPT ![j].stage = "preparing", ![j].kind = action]
      BY <2>2
    <3> DEFINE w == [work[j] EXCEPT !.stage = "preparing", !.kind = action]
    <3>2. work[j] \in WorkRow /\ action \in Kinds
      BY ChatAssumption DEF JobTypeOK
    <3>3. w \in WorkRow
      BY <3>2 DEF WorkRow, Stages
    <3>4. work' = [work EXCEPT ![j] = w]
      BY <3>1
    <3> HIDE DEF w
    <3> QED BY <3>3, <3>4 DEF WorkMoves
  <2> QED BY <1>5, <2>1, <2>2 DEF PrepareRead
<1>6. CASE Begin(j)
  <2>1. work[j].kind \in {"chat", "research", "automation"}
    BY <1>6 DEF Begin, JobInv, JobOK, KindOK, JobTypeOK, WorkRow, Kinds
  <2> QED BY <1>1, <1>6, <2>1 DEF Begin, Stages
<1>7. CASE Research(j)
  BY <1>1, <1>2, <1>3, <1>7
  DEF Research, GatherContext, Judge, LogAgent, FileCase, LogWorkflow, WriteRefused, Stages
<1>8. CASE React(j)
  BY <1>1, <1>2, <1>4, <1>8
  DEF React, Recall, Choose, UseTool, ReadPlan, CommitPlan, PlanRefused, Trace, LogReact,
      RememberTrace, Stages
<1>9. CASE PrepareCommit(j) \/ RunAutomation(j) \/ LinkCase(j) \/ Answer(j)
           \/ AnswerError(j) \/ ChatRefused(j)
  BY <1>1, <1>9
  DEF PrepareCommit, RunAutomation, LinkCase, Answer, AnswerError, ChatRefused, Stages
<1> QED BY <1>5, <1>6, <1>7, <1>8, <1>9 DEF JobStep, Reply

\* A call goes from stage to stage; its retries are counted below the limit.
LEMMA CallingMoves ==
    ASSUME JobTypeOK, JobInv, NEW j \in Jobs, Calling(j)
    PROVE  CallMoves(j)
<1>1. call[j] \in CallRow /\ unpaid[j] \in Nat /\ call \in [Jobs -> CallRow]
      /\ unpaid \in [Jobs -> Nat]
  BY DEF JobTypeOK
<1>2. ASSUME NEW s \in CallStage, call' = [call EXCEPT ![j].stage = s]
      PROVE  \E c \in CallRow : call' = [call EXCEPT ![j] = c]
  <2>1. [call[j] EXCEPT !.stage = s] \in CallRow
    BY <1>1 DEF CallRow
  <2> QED BY <1>2, <2>1
<1>3. UNCHANGED unpaid => \E u \in Nat : unpaid' = [unpaid EXCEPT ![j] = u]
  BY <1>1
<1>4. CASE Respond(j)
  <2>1. unpaid[j] + 1 \in Nat
    BY <1>1
  <2> QED BY <1>2, <1>4, <2>1 DEF Respond, CallMoves, CallStage
<1>5. CASE Transient(j)
  <2>1. CASE call' = [call EXCEPT ![j].stage = "broken"]
    BY <1>2, <1>3, <1>5, <2>1 DEF Transient, CallMoves, CallStage
  <2>2. CASE call[j].tries + 1 < Attempts /\ call' = [call EXCEPT ![j].tries = @ + 1]
    <3>1. call[j].tries + 1 \in 0..Attempts - 1
      BY <1>1, <2>2, CallAssumption DEF CallRow, Attempts
    <3>2. [call[j] EXCEPT !.tries = @ + 1] \in CallRow
      BY <1>1, <3>1 DEF CallRow
    <3> QED BY <1>3, <1>5, <2>2, <3>2 DEF Transient, CallMoves
  <2> QED BY <1>5, <2>1, <2>2 DEF Transient
<1>6. CASE Raise(j)
  BY <1>2, <1>3, <1>6 DEF Raise, CallMoves, CallStage
<1>7. CASE RecordUsage(j)
  <2>1. unpaid[j] - 1 \in Nat
    BY <1>7, <1>1 DEF RecordUsage, JobInv, JobOK, PaidOK
  <2> QED BY <1>2, <1>7, <2>1 DEF RecordUsage, CallMoves, CallStage
<1>8. CASE UsageRefused(j)
  BY <1>2, <1>3, <1>8 DEF UsageRefused, CallMoves, CallStage
<1> QED BY <1>4, <1>5, <1>6, <1>7, <1>8 DEF Calling

LEMMA JobCallMoves == ASSUME JobTypeOK, JobInv, NEW j \in Jobs, JobStep(j) PROVE CallMoves(j)
<1> USE DEF callVars, ledger, planVars, chatVars
<1>1. CASE UNCHANGED <<call, unpaid>>
  BY <1>1 DEF CallMoves, JobTypeOK
<1>2. ASSUME Generate(j) \/ NoMoreCall(j), UNCHANGED unpaid PROVE CallMoves(j)
  <2>1. [NoCall EXCEPT !.stage = "calling"] \in CallRow
    BY NoCallType DEF CallRow, CallStage
  <2>2. \E c \in CallRow : call' = [call EXCEPT ![j] = c]
    BY <1>2, <2>1, NoCallType DEF Generate, NoMoreCall
  <2>3. unpaid' = [unpaid EXCEPT ![j] = unpaid[j]] /\ unpaid[j] \in Nat
    BY <1>2 DEF JobTypeOK
  <2> QED BY <2>2, <2>3 DEF CallMoves
<1>3. CASE Calling(j)
  BY <1>3, CallingMoves
<1>4. CASE Research(j)
  BY <1>1, <1>2, <1>3, <1>4
  DEF Research, GatherContext, Judge, LogAgent, RememberResult, FileCase, LogWorkflow,
      WriteRefused
<1>5. CASE React(j)
  <2>1. CASE Recall(j) \/ Choose(j) \/ UseTool(j) \/ ReadPlan(j) \/ CommitPlan(j)
    BY <1>1, <1>2, <2>1 DEF Recall, Choose, UseTool, Observe, ReadPlan, CommitPlan
  <2>2. CASE PlanRefused(j) \/ Trace(j) \/ LogReact(j) \/ RememberTrace(j)
    BY <1>1, <2>2 DEF PlanRefused, Trace, LogReact, RememberTrace
  <2> QED BY <1>3, <1>5, <2>1, <2>2 DEF React
<1>6. CASE PrepareRead(j) \/ PrepareCommit(j) \/ Begin(j) \/ RunAutomation(j) \/ LinkCase(j)
           \/ Answer(j) \/ AnswerError(j) \/ ChatRefused(j)
  BY <1>1, <1>6
  DEF PrepareRead, PrepareCommit, Begin, RunAutomation, LinkCase, Answer, AnswerError,
      ChatRefused
<1> QED BY <1>4, <1>5, <1>6 DEF JobStep, Reply

LEMMA JobLedgerMoves ==
    ASSUME JobTypeOK, NEW j \in Jobs, JobStep(j)
    PROVE  LedgerMoves(j)
<1> USE DEF callVars, ledger, planVars, chatVars
<1>1. /\ UNCHANGED runs => \E r \in [RunTypes -> Nat] : runs' = [runs EXCEPT ![j] = r]
      /\ UNCHANGED memories =>
            \E m \in [RunTypes -> Nat] : memories' = [memories EXCEPT ![j] = m]
      /\ UNCHANGED cases => \E k \in CaseList : cases' = [cases EXCEPT ![j] = k]
  BY DEF JobTypeOK
<1>2. ASSUME NEW t \in RunTypes, Log(j, t)
      PROVE  \E r \in [RunTypes -> Nat] : runs' = [runs EXCEPT ![j] = r]
  <2>1. [runs[j] EXCEPT ![t] = @ + 1] \in [RunTypes -> Nat]
    BY DEF JobTypeOK
  <2> QED BY <1>2, <2>1 DEF Log
<1>3. ASSUME NEW t \in RunTypes, memories' = [memories EXCEPT ![j][t] = @ + 1]
      PROVE  \E m \in [RunTypes -> Nat] : memories' = [memories EXCEPT ![j] = m]
  <2>1. [memories[j] EXCEPT ![t] = @ + 1] \in [RunTypes -> Nat]
    BY DEF JobTypeOK
  <2> QED BY <1>3, <2>1
<1>4. ASSUME NEW x \in {"own", "chat"}, cases' = [cases EXCEPT ![j] = Append(@, x)]
      PROVE  \E k \in CaseList : cases' = [cases EXCEPT ![j] = k]
  <2>1. Append(cases[j], x) \in CaseList
    BY DEF JobTypeOK, CaseList
  <2> QED BY <1>4, <2>1
<1>5. Current(j) \in RunTypes /\ {"research", "react_agent"} \subseteq RunTypes
  BY DEF Current, RunTypes, Agent, JobTypeOK, WorkRow
<1>6. CASE Research(j)
  <2>1. CASE LogAgent(j) \/ RememberResult(j) \/ FileCase(j) \/ LogWorkflow(j)
    BY <1>1, <1>2, <1>3, <1>4, <1>5, <2>1
    DEF LogAgent, RememberResult, FileCase, LogWorkflow, LedgerMoves
  <2>2. CASE UNCHANGED ledger
    BY <1>1, <2>2 DEF LedgerMoves
  <2> QED BY <1>6, <2>1, <2>2 DEF Research, GatherContext, Judge, WriteRefused
<1>7. CASE React(j)
  <2>1. CASE LogReact(j) \/ RememberTrace(j)
    BY <1>1, <1>2, <1>3, <1>5, <2>1 DEF LogReact, RememberTrace, LedgerMoves
  <2>2. CASE UNCHANGED ledger
    BY <1>1, <2>2 DEF LedgerMoves
  <2> QED BY <1>7, <2>1, <2>2
          DEF React, Recall, Choose, UseTool, ReadPlan, CommitPlan, PlanRefused, Trace
<1>8. CASE LinkCase(j)
  BY <1>1, <1>4, <1>8 DEF LinkCase, LedgerMoves
<1>9. CASE PrepareRead(j) \/ PrepareCommit(j) \/ Begin(j) \/ RunAutomation(j)
           \/ Answer(j) \/ AnswerError(j) \/ ChatRefused(j)
  <2>1. UNCHANGED ledger
    BY <1>9
    DEF PrepareRead, PrepareCommit, Begin, RunAutomation, Answer, AnswerError, ChatRefused
  <2> QED BY <1>1, <2>1 DEF LedgerMoves
<1> QED BY <1>6, <1>7, <1>8, <1>9 DEF JobStep, Reply

LEMMA JobMessagesMove ==
    ASSUME JobTypeOK, NEW j \in Jobs, JobStep(j)
    PROVE  MessagesMove(j)
<1> USE DEF chatVars
<1>1. ASSUME NEW role \in {"user", "assistant"}, NEW status \in {"completed", "error"},
             Post(j, role, status)
      PROVE  MessagesMove(j)
  <2> DEFINE m == [role |-> role, status |-> status]
  <2>1. m \in Message
    BY DEF Message
  <2> HIDE DEF m
  <2>2. Append(messages[j], m) \in Seq(Message)
    BY <2>1 DEF JobTypeOK
  <2>3. messages' = [messages EXCEPT ![j] = Append(messages[j], m)]
    BY <1>1 DEF Post, m
  <2> QED BY <2>2, <2>3 DEF MessagesMove
<1>2. CASE PrepareCommit(j) \/ Answer(j) \/ AnswerError(j)
  BY <1>1, <1>2 DEF PrepareCommit, Answer, AnswerError
<1>3. CASE UNCHANGED messages
  BY <1>3 DEF MessagesMove, JobTypeOK
<1> QED BY <1>2, <1>3
        DEF JobStep, Reply, PrepareRead, Begin, RunAutomation, LinkCase, ChatRefused

\* Whatever a job does, every job keeps its types and no other job's part changes.
JobSame(i) == UNCHANGED <<work[i], call[i], unpaid[i], runs[i], memories[i], cases[i],
                          messages[i]>>

LEMMA JobFrame ==
    ASSUME JobTypeOK, JobInv, NEW j \in Jobs, JobStep(j)
    PROVE  JobTypeOK' /\ \A i \in Jobs \ {j} : JobSame(i)
<1>1. PICK w \in WorkRow : work' = [work EXCEPT ![j] = w]
  BY JobWorkMoves DEF WorkMoves
<1>2. PICK c \in CallRow : call' = [call EXCEPT ![j] = c]
  BY JobCallMoves DEF CallMoves
<1>3. PICK u \in Nat : unpaid' = [unpaid EXCEPT ![j] = u]
  BY JobCallMoves DEF CallMoves
<1>4. PICK r \in [RunTypes -> Nat] : runs' = [runs EXCEPT ![j] = r]
  BY JobLedgerMoves DEF LedgerMoves
<1>5. PICK m \in [RunTypes -> Nat] : memories' = [memories EXCEPT ![j] = m]
  BY JobLedgerMoves DEF LedgerMoves
<1>6. PICK k \in CaseList : cases' = [cases EXCEPT ![j] = k]
  BY JobLedgerMoves DEF LedgerMoves
<1>7. PICK g \in Seq(Message) : messages' = [messages EXCEPT ![j] = g]
  BY JobMessagesMove DEF MessagesMove
<1> QED BY <1>1, <1>2, <1>3, <1>4, <1>5, <1>6, <1>7 DEF JobTypeOK, JobSame

---------------------------------------------------------------------------
(* Where a job goes, and what it has done when it is there.                *)

LEMMA GotoRow ==
    ASSUME JobTypeOK, NEW j \in Jobs
    PROVE  \A s \in Stages : Goto(j, s) =>
               /\ work'[j].stage = s
               /\ work'[j].kind = work[j].kind /\ work'[j].agent = work[j].agent
  BY DEF JobTypeOK, Goto, WorkRow

LEMMA ObserveRow ==
    ASSUME JobTypeOK, NEW j \in Jobs, Observe(j)
    PROVE  /\ work'[j].stage \in {"choosing", "logging"}
           /\ work'[j].kind = work[j].kind /\ work'[j].agent = work[j].agent
           /\ work'[j].stage = "choosing" => Generate(j)
           /\ work'[j].stage = "logging" => UNCHANGED call
  BY DEF JobTypeOK, Observe, Goto, WorkRow

\* Steps that leave the ledger alone: to an end, or within one part of the way.
Before == {"idle", "preparing", "prepared", "context", "thinking", "logging", "rejected",
           "running"} \cup ChatStage

SameRow(j) == work'[j].kind = work[j].kind /\ work'[j].agent = work[j].agent

LEMMA LedgerStays ==
    ASSUME NEW j \in Jobs, LedgerOK(j), SameRow(j),
           UNCHANGED <<runs[j], memories[j], cases[j]>>,
           \/ work'[j].stage \in Stopped
           \/ work[j].stage \in Before /\ work'[j].stage \in Before
           \/ work[j].stage \notin Stopped /\ work[j].kind = "automation"
           \/ work[j].stage = "delivered" /\ work[j].kind = "chat" /\ work'[j].stage = "answered"
           \/ work[j].stage = "linked" /\ work[j].kind = "research" /\ work'[j].stage = "answered"
    PROVE  LedgerOK(j)'
<1>1. CASE work'[j].stage \in Stopped
  BY <1>1 DEF LedgerOK
<1>2. CASE work[j].stage \in Before /\ work'[j].stage \in Before
  <2>1. Logged(j)' = Logged(j) /\ Remembered(j)' = Remembered(j)
        /\ CasesOf(work[j].stage)' = CasesOf(work[j].stage)
        /\ work[j].stage \notin Stopped /\ work'[j].stage \notin Filed
    BY <1>2 DEF SameRow, Before, ChatStage, Logged, Remembered, Filed, CasesOf, Stopped
  <2> QED BY <2>1 DEF LedgerOK, SameRow
<1>3. CASE work[j].stage \notin Stopped /\ work[j].kind = "automation"
  <2>1. Logged(j)' = Logged(j) /\ Remembered(j)' = Remembered(j)
    BY <1>3 DEF SameRow, Logged, Remembered
  <2> QED BY <1>3, <2>1 DEF LedgerOK, SameRow
<1>4. CASE work[j].stage = "delivered" /\ work[j].kind = "chat" /\ work'[j].stage = "answered"
  <2>1. Logged(j)' = Logged(j) /\ Remembered(j)' = Remembered(j)
    BY <1>4 DEF SameRow, Logged, Remembered
  <2> QED BY <1>4, <2>1 DEF LedgerOK, SameRow, Stopped
<1>5. CASE work[j].stage = "linked" /\ work[j].kind = "research" /\ work'[j].stage = "answered"
  <2>1. Logged(j)' = Logged(j) /\ Remembered(j)' = Remembered(j)
        /\ CasesOf(work[j].stage)' = CasesOf(work[j].stage)
        /\ work[j].stage \in Filed \ Stopped
    BY <1>5 DEF SameRow, Logged, Remembered, Filed, CasesOf, Stopped
  <2> QED BY <2>1 DEF LedgerOK, SameRow
<1> QED BY <1>1, <1>2, <1>3, <1>4, <1>5

\* Steps that make no call, or begin one, or end one.
LEMMA PaidStays ==
    ASSUME NEW j \in Jobs, PaidOK(j), UNCHANGED <<call[j], unpaid[j]>>,
           work[j].stage \notin {"thinking", "choosing"},
           work[j].stage \in Stopped => work'[j].stage \in Stopped
    PROVE  PaidOK(j)'
  BY DEF PaidOK

LEMMA PaidBegins ==
    ASSUME JobTypeOK, NEW j \in Jobs, PaidOK(j), Generate(j), UNCHANGED unpaid[j],
           work[j].stage \notin {"thinking", "choosing"} \cup Stopped,
           work'[j].stage \in {"thinking", "choosing"}
    PROVE  PaidOK(j)'
<1>1. call'[j].stage = "calling"
  BY DEF Generate, JobTypeOK, NoCall
<1> QED BY <1>1 DEF PaidOK

LEMMA PaidEnds ==
    ASSUME JobTypeOK, NEW j \in Jobs, PaidOK(j), NoMoreCall(j), UNCHANGED unpaid[j],
           call[j].stage \in {"recorded", "refused"}
           \/ (call[j].stage = "broken" /\ work'[j].stage \in Stopped)
    PROVE  PaidOK(j)'
<1>1. call'[j].stage = "none"
  BY DEF NoMoreCall, JobTypeOK, NoCall
<1> QED BY <1>1 DEF PaidOK

\* Steps that post nothing.
Silent == {"idle", "preparing", "rejected"}
Spoken == Silent \cup {"lost", "answered", "errored"}

LEMMA MessagesStay ==
    ASSUME NEW j \in Jobs, MessagesOK(j), UNCHANGED messages[j],
           \/ work[j].stage \in Silent /\ work'[j].stage \in Silent
           \/ work[j].stage \notin Spoken /\ work'[j].stage \notin Spoken
    PROVE  MessagesOK(j)'
  BY DEF MessagesOK, Silent, Spoken

\* A step of a request that logs, files, pays and posts nothing.
LEMMA QuietStep ==
    ASSUME JobTypeOK, NEW j \in Jobs, JobOK(j), SameRow(j),
           UNCHANGED <<ledger, messages>>,
           work[j].stage \notin Spoken \cup {"failed", "unanswered", "delivered", "linked",
                                             "remembering", "filing", "closing"},
           \/ work'[j].stage \in Before \ Silent
           \/ work'[j].stage \in {"failed"}
           \/ work[j].stage = "running" /\ work'[j].stage = "delivered",
           KindOK(j)', PaidOK(j)'
    PROVE  JobOK(j)'
<1>1. work[j].stage \in Before \ Silent \/ work[j].stage \notin Stages
  BY DEF Before, Spoken, Silent, Stages, ChatStage
<1>2. work[j].stage \in Stages
  BY DEF JobTypeOK, WorkRow
<1>3. LedgerOK(j)'
  <2>1. work[j].stage = "running" => work[j].kind = "automation"
    BY DEF JobOK, KindOK
  <2> QED BY <1>1, <1>2, <2>1, LedgerStays DEF JobOK, Stopped, ledger
<1>4. MessagesOK(j)'
  BY MessagesStay DEF JobOK, Spoken, Silent, Before, ChatStage
<1> QED BY <1>3, <1>4 DEF JobOK

LEMMA CallingJobs ==
    ASSUME JobTypeOK, NEW j \in Jobs, JobOK(j), Calling(j),
           UNCHANGED <<work, ledger, messages>>
    PROVE  JobOK(j)'
<1>1. PaidOK(j)'
  <2>1. CASE Respond(j)
    BY <2>1 DEF Respond, JobTypeOK, CallRow, JobOK, PaidOK
  <2>2. CASE Transient(j) \/ Raise(j) \/ UsageRefused(j)
    BY <2>2 DEF Transient, Raise, UsageRefused, JobTypeOK, CallRow, JobOK, PaidOK
  <2>3. CASE RecordUsage(j)
    BY <2>3 DEF RecordUsage, JobTypeOK, CallRow, JobOK, PaidOK
  <2> QED BY <2>1, <2>2, <2>3 DEF Calling
<1>2. KindOK(j)' /\ MessagesOK(j)'
  BY DEF JobOK, KindOK, MessagesOK
<1>3. LedgerOK(j)'
  BY DEF JobOK, LedgerOK, Logged, Remembered, ledger
<1> QED BY <1>1, <1>2, <1>3 DEF JobOK

\* What an agent reads, and the tools: an error, or on to the next call of the model.
LEMMA ReadingJobs ==
    ASSUME JobTypeOK, NEW j \in Jobs, JobOK(j), UNCHANGED messages,
           GatherContext(j) \/ Recall(j) \/ UseTool(j) \/ ReadPlan(j) \/ CommitPlan(j)
    PROVE  JobOK(j)'
<1> USE DEF planVars
<1>1. /\ work[j].stage \in {"context", "recall", "tool", "planning"}
      /\ UNCHANGED <<unpaid, ledger>>
  BY DEF GatherContext, Recall, UseTool, ReadPlan, CommitPlan
<1>2. CASE UNCHANGED <<work, call>>
  BY <1>1, <1>2 DEF JobOK, KindOK, PaidOK, LedgerOK, MessagesOK, Logged, Remembered, ledger
<1>3. ASSUME SameRow(j),
             \/ /\ UNCHANGED call
                /\ work'[j].stage \in {"tracing", "retracing", "logging", "failed"}
             \/ Generate(j) /\ work'[j].stage \in {"thinking", "choosing"},
             work'[j].stage \in {"logging", "failed"}
                \/ (work'[j].stage = "thinking" <=> work[j].stage = "context")
      PROVE  JobOK(j)'
  <2>1. PaidOK(j)'
    BY <1>1, <1>3, PaidStays, PaidBegins DEF JobOK, Stopped
  <2>2. KindOK(j)'
    BY <1>1, <1>3
    DEF JobOK, KindOK, SameRow, ResearchStage, ChatStage, SharedStage
  <2>3. /\ work[j].stage \notin Spoken \cup {"failed", "unanswered", "delivered", "linked",
                                             "remembering", "filing", "closing"}
        /\ work'[j].stage \in (Before \ Silent) \cup {"failed"}
    BY <1>1, <1>3 DEF Spoken, Silent, Before, ChatStage
  <2> QED BY <1>1, <1>3, <2>1, <2>2, <2>3, QuietStep
<1>4. CASE Observe(j) /\ work[j].stage \in {"tool", "planning"}
  BY <1>3, <1>4, ObserveRow DEF SameRow
<1>5. ASSUME NEW s \in {"thinking", "choosing", "tracing", "retracing", "failed"},
             Goto(j, s), IF s \in {"thinking", "choosing"} THEN Generate(j) ELSE UNCHANGED call,
             s = "failed" \/ (s = "thinking" <=> work[j].stage = "context")
      PROVE  JobOK(j)'
  <2>1. s \in Stages
    BY DEF Stages
  <2>2. SameRow(j) /\ work'[j].stage = s
    BY <1>5, <2>1, GotoRow DEF SameRow
  <2> QED BY <1>3, <1>5, <2>2
<1>6. CASE GatherContext(j)
  BY <1>5, <1>6 DEF GatherContext
<1>7. CASE Recall(j)
  BY <1>5, <1>7 DEF Recall
<1>8. CASE UseTool(j)
  BY <1>4, <1>5, <1>8 DEF UseTool
<1>9. CASE ReadPlan(j)
  BY <1>2, <1>4, <1>9 DEF ReadPlan
<1>10. CASE CommitPlan(j)
  BY <1>4, <1>5, <1>10 DEF CommitPlan
<1> QED BY <1>6, <1>7, <1>8, <1>9, <1>10

\* The reply of the model is judged, or the next tool chosen by it.
LEMMA JudgingJobs ==
    ASSUME JobTypeOK, NEW j \in Jobs, JobOK(j), UNCHANGED messages, Judge(j) \/ Choose(j)
    PROVE  JobOK(j)'
<1> USE DEF planVars
<1>1. PICK s \in {"tool", "planning", "logging", "retracing", "failed"} :
          /\ Goto(j, s)
          /\ s \in {"tool", "planning", "retracing"} => work[j].stage = "choosing"
          /\ call[j].stage \in {"recorded", "refused"} \/ (call[j].stage = "broken" /\ s = "failed")
  BY DEF Judge, Choose
<1>2. NoMoreCall(j) /\ work[j].stage \in {"thinking", "choosing"} /\ UNCHANGED <<unpaid, ledger>>
  BY DEF Judge, Choose
<1>3. work'[j].stage = s /\ SameRow(j)
  BY <1>1, GotoRow DEF Stages, SameRow
<1>4. PaidOK(j)'
  BY <1>1, <1>2, <1>3, PaidEnds DEF JobOK, Stopped
<1>5. KindOK(j)'
  BY <1>1, <1>2, <1>3 DEF JobOK, KindOK, SameRow, ResearchStage, ChatStage, SharedStage
<1>6. /\ work[j].stage \notin Spoken \cup {"failed", "unanswered", "delivered", "linked",
                                           "remembering", "filing", "closing"}
      /\ work'[j].stage \in (Before \ Silent) \cup {"failed"}
  BY <1>1, <1>2, <1>3 DEF Spoken, Silent, Before, ChatStage
<1> QED BY <1>2, <1>3, <1>4, <1>5, <1>6, QuietStep

\* The fixed tools, the start of the work, an automation run.
LEMMA StartingJobs ==
    ASSUME JobTypeOK, NEW j \in Jobs, JobOK(j), UNCHANGED messages,
           Trace(j) \/ Begin(j) \/ RunAutomation(j)
    PROVE  JobOK(j)'
<1> USE DEF planVars, chatVars, callVars
<1>1. PICK s \in {"logging", "retracing", "recall", "context", "running", "delivered", "failed"} :
          /\ Goto(j, s)
          /\ s = "delivered" => work[j].stage = "running"
          /\ s \in {"logging", "retracing"} => work[j].stage \in {"tracing", "retracing"}
          /\ s = "recall" => work[j].kind = "chat"
          /\ s = "context" => work[j].kind = "research"
          /\ s = "running" => work[j].kind = "automation"
  <2>1. Begin(j) => work[j].kind \in {"chat", "research", "automation"}
    BY DEF Begin, JobOK, KindOK, JobTypeOK, WorkRow, Kinds
  <2> QED BY <2>1 DEF Trace, Begin, RunAutomation
<1>2. work[j].stage \in {"tracing", "retracing", "prepared", "running"}
      /\ UNCHANGED <<call, unpaid, ledger>>
  BY DEF Trace, Begin, RunAutomation
<1>3. work'[j].stage = s /\ SameRow(j)
  BY <1>1, GotoRow DEF Stages, SameRow
<1>4. PaidOK(j)'
  BY <1>2, PaidStays DEF JobOK, Stopped
<1>5. KindOK(j)'
  BY <1>1, <1>2, <1>3 DEF JobOK, KindOK, SameRow, ResearchStage, ChatStage, SharedStage
<1>6. /\ work[j].stage \notin Spoken \cup {"failed", "unanswered", "delivered", "linked",
                                           "remembering", "filing", "closing"}
      /\ work'[j].stage \in (Before \ Silent) \cup {"failed"}
         \/ (work[j].stage = "running" /\ work'[j].stage = "delivered")
  BY <1>1, <1>2, <1>3 DEF Spoken, Silent, Before, ChatStage
<1> QED BY <1>2, <1>3, <1>4, <1>5, <1>6, QuietStep

\* The panel has its agents in order, each once.
LEMMA FirstAgentsGrow ==
    /\ FirstAgents(0) = {}
    /\ \A a \in 1..Len(Panel) :
        /\ FirstAgents(a) = FirstAgents(a - 1) \cup {Panel[a]}
        /\ Panel[a] \notin FirstAgents(a - 1)
        /\ FirstAgents(a) \subseteq RunTypes \ {"research", "react_agent"}
    /\ {"research", "react_agent"} \subseteq RunTypes
    /\ FirstAgents(Len(Panel)) = Agent
<1>1. Len(Panel) \in Nat \ {0}
  BY PanelAssumption
<1>2. ASSUME NEW a \in 1..Len(Panel)
      PROVE  FirstAgents(a) = FirstAgents(a - 1) \cup {Panel[a]}
  <2>1. \A n : n \in 1..a <=> n \in 1..(a - 1) \/ n = a
    BY <1>1
  <2> QED BY <2>1 DEF FirstAgents
<1>3. ASSUME NEW a \in 1..Len(Panel) PROVE Panel[a] \notin FirstAgents(a - 1)
  BY <1>1, PanelAssumption DEF FirstAgents
<1>4. ASSUME NEW a \in 1..Len(Panel)
      PROVE  FirstAgents(a) \subseteq RunTypes \ {"research", "react_agent"}
  BY <1>1, PanelAssumption DEF FirstAgents, RunTypes, Agent
<1> QED BY <1>1, <1>2, <1>3, <1>4 DEF FirstAgents, RunTypes, Agent

\* An entry that is new counts once.
LEMMA OnceGrows ==
    ASSUME NEW S, NEW t \in RunTypes, t \notin S
    PROVE  [Once(S) EXCEPT ![t] = @ + 1] = Once(S \cup {t})
<1>1. Once(S)[t] + 1 = 1
  BY DEF Once
<1>2. [Once(S) EXCEPT ![t] = 1] = Once(S \cup {t})
  BY DEF Once
<1> QED BY <1>1, <1>2

LEMMA OnceOrdered ==
    ASSUME NEW R, NEW L, R \subseteq L
    PROVE  \A t \in RunTypes : Once(R)[t] <= Once(L)[t] /\ Once(L)[t] <= 1
  BY DEF Once

\* A step that logs, remembers or files brings the ledger to what the next stage says.
LEMMA LedgerGrows ==
    ASSUME NEW j \in Jobs,
           runs'[j] = Once(Logged(j)'), memories'[j] = Once(Remembered(j)'),
           Remembered(j)' \subseteq Logged(j)',
           work'[j].kind \in {"none", "research"} => cases'[j] = CasesOf(work'[j].stage),
           work'[j].kind = "research" /\ work'[j].stage \in Filed => work'[j].agent = Len(Panel)
    PROVE  LedgerOK(j)'
<1>1. \A t \in RunTypes : memories'[j][t] <= runs'[j][t] /\ runs'[j][t] <= 1
  BY OnceOrdered
<1> QED BY <1>1 DEF LedgerOK, CasesOf

\* A list of two, built one by one.
LEMMA AppendToOne ==
    ASSUME NEW S, NEW x \in S, NEW y \in S
    PROVE  Append(<<>>, x) = <<x>> /\ Append(<<x>>, y) = <<x, y>>
<1> DEFINE s == Append(<<x>>, y)
<1>1. s \in Seq(S) /\ Len(s) = 2 /\ s[1] = x /\ s[2] = y
  OBVIOUS
<1>2. <<x, y>> \in Seq(S) /\ Len(<<x, y>>) = 2
  OBVIOUS
<1>3. \A i \in 1..2 : s[i] = <<x, y>>[i]
  BY <1>1
<1> HIDE DEF s
<1>4. s = <<x, y>>
  BY <1>1, <1>2, <1>3, SeqEqual
<1> QED BY <1>4 DEF s

\* All but the ledger, when an entry is written.
LEMMA EntryStep ==
    ASSUME JobTypeOK, NEW j \in Jobs, JobOK(j), LedgerOK(j)',
           UNCHANGED <<call, unpaid, messages>>, work'[j].kind = work[j].kind,
           work[j].kind \in {"research", "chat"},
           work[j].stage \in {"logging", "remembering", "filing", "closing", "delivered"},
           \/ work'[j].stage \in {"remembering", "delivered"}
           \/ work'[j].stage \in ResearchStage \ {"thinking"} /\ work[j].kind = "research"
    PROVE  JobOK(j)'
<1>1. PaidOK(j)'
  BY PaidStays DEF JobOK, Stopped
<1>2. KindOK(j)'
  BY DEF JobOK, KindOK, ResearchStage, ChatStage, SharedStage
<1>3. MessagesOK(j)'
  BY MessagesStay DEF JobOK, Spoken, Silent, ResearchStage
<1> QED BY <1>1, <1>2, <1>3 DEF JobOK

LEMMA LogAgentJobs ==
    ASSUME JobTypeOK, NEW j \in Jobs, JobOK(j), UNCHANGED messages, LogAgent(j)
    PROVE  JobOK(j)'
<1> DEFINE a == work[j].agent
<1>1. /\ work[j].kind = "research" /\ work[j].stage = "logging" /\ a \in 1..Len(Panel)
      /\ Log(j, Panel[a]) /\ UNCHANGED <<call, unpaid, memories, cases>>
  BY DEF LogAgent, Current, JobTypeOK, WorkRow, callVars
<1>2. work'[j].stage = "remembering" /\ SameRow(j)
  BY GotoRow DEF LogAgent, Stages, SameRow
<1>3. /\ Logged(j) = FirstAgents(a - 1) /\ Remembered(j) = FirstAgents(a - 1)
      /\ Logged(j)' = FirstAgents(a) /\ Remembered(j)' = FirstAgents(a - 1)
  BY <1>1, <1>2 DEF Logged, Remembered, Filed, SameRow
<1>4. runs[j] = Once(Logged(j)) /\ memories[j] = Once(Remembered(j)) /\ cases[j] = <<>>
  BY <1>1 DEF JobOK, LedgerOK, Stopped, CasesOf
<1>5. runs'[j] = [runs[j] EXCEPT ![Panel[a]] = @ + 1]
  BY <1>1 DEF Log, JobTypeOK
<1>6. runs'[j] = Once(FirstAgents(a))
  <2>1. Panel[a] \in RunTypes /\ Panel[a] \notin FirstAgents(a - 1)
        /\ FirstAgents(a) = FirstAgents(a - 1) \cup {Panel[a]}
    BY <1>1, FirstAgentsGrow
  <2>2. [Once(FirstAgents(a - 1)) EXCEPT ![Panel[a]] = @ + 1] = Once(FirstAgents(a))
    BY <2>1, OnceGrows
  <2> QED BY <1>3, <1>4, <1>5, <2>2
<1>7. FirstAgents(a - 1) \subseteq FirstAgents(a)
  BY <1>1, FirstAgentsGrow
<1>8. LedgerOK(j)'
  BY <1>1, <1>2, <1>3, <1>4, <1>6, <1>7, LedgerGrows DEF CasesOf, Filed
<1> QED BY <1>1, <1>2, <1>8, EntryStep DEF SameRow

LEMMA RememberResultJobs ==
    ASSUME JobTypeOK, NEW j \in Jobs, JobOK(j), UNCHANGED messages, RememberResult(j)
    PROVE  JobOK(j)'
<1> DEFINE a == work[j].agent
<1>1. /\ work[j].kind = "research" /\ work[j].stage = "remembering" /\ a \in 1..Len(Panel)
      /\ memories' = [memories EXCEPT ![j][Panel[a]] = @ + 1]
      /\ UNCHANGED <<call, unpaid, runs, cases>>
  BY DEF RememberResult, Current, JobTypeOK, WorkRow, callVars
<1>2. /\ work'[j].kind = "research"
      /\ \/ work'[j].stage = "context" /\ work'[j].agent = a + 1
         \/ work'[j].stage = "filing" /\ work'[j].agent = a /\ a = Len(Panel)
  BY <1>1, GotoRow DEF RememberResult, Stages, JobTypeOK, WorkRow
<1>3. /\ Logged(j) = FirstAgents(a) /\ Remembered(j) = FirstAgents(a - 1)
      /\ Logged(j)' = FirstAgents(a) /\ Remembered(j)' = FirstAgents(a)
  <2>1. a + 1 - 1 = a
    BY <1>1
  <2> QED BY <1>1, <1>2, <2>1 DEF Logged, Remembered, Filed
<1>4. runs[j] = Once(Logged(j)) /\ memories[j] = Once(Remembered(j)) /\ cases[j] = <<>>
  BY <1>1 DEF JobOK, LedgerOK, Stopped, CasesOf
<1>5. memories'[j] = [memories[j] EXCEPT ![Panel[a]] = @ + 1]
  BY <1>1 DEF JobTypeOK
<1>6. memories'[j] = Once(FirstAgents(a))
  <2>1. Panel[a] \in RunTypes /\ Panel[a] \notin FirstAgents(a - 1)
        /\ FirstAgents(a) = FirstAgents(a - 1) \cup {Panel[a]}
    BY <1>1, FirstAgentsGrow
  <2>2. [Once(FirstAgents(a - 1)) EXCEPT ![Panel[a]] = @ + 1] = Once(FirstAgents(a))
    BY <2>1, OnceGrows
  <2> QED BY <1>3, <1>4, <1>5, <2>2
<1>7. LedgerOK(j)'
  BY <1>1, <1>2, <1>3, <1>4, <1>6, LedgerGrows DEF CasesOf, Filed
<1> QED BY <1>1, <1>2, <1>7, EntryStep DEF ResearchStage

LEMMA FilingJobs ==
    ASSUME JobTypeOK, NEW j \in Jobs, JobOK(j), UNCHANGED messages,
           FileCase(j) \/ LogWorkflow(j) \/ LinkCase(j)
    PROVE  JobOK(j)'
<1> USE DEF callVars
<1> DEFINE s == CASE work[j].stage = "filing" -> "closing"
                  [] work[j].stage = "closing" -> "delivered"
                  [] OTHER -> "linked"
<1>1. work[j].stage \in {"filing", "closing", "delivered"} /\ work[j].kind = "research"
  BY DEF FileCase, LogWorkflow, LinkCase, JobOK, KindOK, ResearchStage
<1>2. s \in {"closing", "delivered", "linked"} /\ s \in Stages /\ Goto(j, s)
  BY DEF FileCase, LogWorkflow, LinkCase, Stages
<1>3. work'[j].stage = s /\ SameRow(j)
  BY <1>2, GotoRow DEF SameRow
<1>4. work[j].agent = Len(Panel)
  BY <1>1 DEF JobOK, LedgerOK, Stopped, Filed
<1>5. /\ Logged(j) = Agent \cup {t \in {"research"} : work[j].stage = "delivered"}
      /\ Logged(j)' = Agent \cup {t \in {"research"} : s # "closing"}
      /\ Remembered(j) = Agent /\ Remembered(j)' = Agent
  BY <1>1, <1>2, <1>3, <1>4, FirstAgentsGrow DEF Logged, Remembered, Filed, SameRow
<1>6. /\ runs[j] = Once(Logged(j)) /\ memories[j] = Once(Agent)
      /\ cases[j] = CasesOf(work[j].stage)
  BY <1>1, <1>5 DEF JobOK, LedgerOK, Stopped
<1>7. CASE LogWorkflow(j)
  <2>1. /\ work[j].stage = "closing" /\ s = "delivered"
        /\ UNCHANGED <<call, unpaid, memories, cases>>
    BY <1>7 DEF LogWorkflow
  <2>2. runs'[j] = [runs[j] EXCEPT !["research"] = @ + 1]
    BY <1>7, FirstAgentsGrow DEF LogWorkflow, Log, JobTypeOK
  <2>3. "research" \in RunTypes \ Agent
    BY FirstAgentsGrow, PanelAssumption
  <2>4. runs[j] = Once(Agent) /\ Logged(j)' = Agent \cup {"research"}
    BY <1>5, <1>6, <2>1
  <2>5. runs'[j] = Once(Logged(j)')
    BY <2>2, <2>3, <2>4, OnceGrows
  <2>6. cases'[j] = CasesOf(work'[j].stage)
    BY <1>3, <1>6, <2>1 DEF CasesOf
  <2>7. LedgerOK(j)'
    BY <1>1, <1>3, <1>4, <1>5, <1>6, <2>1, <2>5, <2>6, LedgerGrows DEF SameRow
  <2> QED BY <1>1, <1>3, <2>1, <2>7, EntryStep DEF SameRow
<1>8. CASE FileCase(j) \/ LinkCase(j)
  <2>1. /\ UNCHANGED <<call, unpaid, runs, memories>>
        /\ \/ work[j].stage = "filing" /\ s = "closing"
              /\ cases' = [cases EXCEPT ![j] = Append(@, "own")]
           \/ work[j].stage = "delivered" /\ s = "linked"
              /\ cases' = [cases EXCEPT ![j] = Append(@, "chat")]
    BY <1>8 DEF FileCase, LinkCase
  <2>2. Append(<<>>, "own") = <<"own">> /\ Append(<<"own">>, "chat") = <<"own", "chat">>
    <3>1. "own" \in {"own", "chat"} /\ "chat" \in {"own", "chat"}
      OBVIOUS
    <3> QED BY <3>1, AppendToOne
  <2>3. cases'[j] = CasesOf(work'[j].stage)
    BY <1>3, <1>6, <2>1, <2>2 DEF CasesOf, JobTypeOK
  <2>4. runs'[j] = Once(Logged(j)')
    BY <1>5, <1>6, <2>1
  <2>5. LedgerOK(j)'
    BY <1>1, <1>3, <1>4, <1>5, <1>6, <2>1, <2>3, <2>4, LedgerGrows DEF SameRow
  <2> QED BY <1>1, <1>2, <1>3, <2>1, <2>5, EntryStep DEF SameRow, ResearchStage
<1> QED BY <1>7, <1>8

LEMMA ReactEntryJobs ==
    ASSUME JobTypeOK, NEW j \in Jobs, JobOK(j), UNCHANGED messages,
           LogReact(j) \/ RememberTrace(j)
    PROVE  JobOK(j)'
<1> USE DEF callVars
<1>1. "react_agent" \in RunTypes
  BY FirstAgentsGrow
<1>2. work[j].kind = "chat" /\ UNCHANGED <<call, unpaid, cases>>
      /\ work[j].stage \in {"logging", "remembering"}
  BY DEF LogReact, RememberTrace
<1>3. runs[j] = Once(Logged(j)) /\ memories[j] = Once(Remembered(j))
  BY <1>2 DEF JobOK, LedgerOK, Stopped
<1>4. CASE LogReact(j)
  <2>1. work'[j].stage = "remembering" /\ SameRow(j) /\ work[j].stage = "logging"
    BY <1>4, GotoRow DEF LogReact, Stages, SameRow
  <2>2. /\ Logged(j) = {} /\ Remembered(j) = {}
        /\ Logged(j)' = {"react_agent"} /\ Remembered(j)' = {}
    BY <1>2, <2>1 DEF Logged, Remembered, SameRow
  <2>3. runs'[j] = [runs[j] EXCEPT !["react_agent"] = @ + 1] /\ memories' = memories
    BY <1>1, <1>4 DEF LogReact, Log, JobTypeOK
  <2>4. runs'[j] = Once(Logged(j)')
    BY <1>1, <1>3, <2>2, <2>3, OnceGrows
  <2>5. LedgerOK(j)'
    BY <1>2, <1>3, <2>1, <2>2, <2>3, <2>4, LedgerGrows DEF SameRow
  <2> QED BY <1>2, <2>1, <2>5, EntryStep DEF SameRow
<1>5. CASE RememberTrace(j)
  <2>1. work'[j].stage = "delivered" /\ SameRow(j) /\ work[j].stage = "remembering"
    BY <1>5, GotoRow DEF RememberTrace, Stages, SameRow
  <2>2. /\ Logged(j) = {"react_agent"} /\ Remembered(j) = {}
        /\ Logged(j)' = {"react_agent"} /\ Remembered(j)' = {"react_agent"}
    BY <1>2, <2>1 DEF Logged, Remembered, SameRow
  <2>3. memories'[j] = [memories[j] EXCEPT !["react_agent"] = @ + 1] /\ runs' = runs
    BY <1>1, <1>5 DEF RememberTrace, JobTypeOK
  <2>4. memories'[j] = Once(Remembered(j)')
    BY <1>1, <1>3, <2>2, <2>3, OnceGrows
  <2>5. LedgerOK(j)'
    BY <1>2, <1>3, <2>1, <2>2, <2>3, <2>4, LedgerGrows DEF SameRow
  <2> QED BY <1>2, <2>1, <2>5, EntryStep DEF SameRow
<1> QED BY <1>4, <1>5

\* A question is stored, and later its answer or error: one message each.
LEMMA PostingJobs ==
    ASSUME JobTypeOK, NEW j \in Jobs, JobOK(j), PrepareCommit(j) \/ Answer(j) \/ AnswerError(j)
    PROVE  JobOK(j)'
<1> USE DEF callVars, chatVars
<1>1. UNCHANGED <<call, unpaid, ledger>>
  BY DEF PrepareCommit, Answer, AnswerError
<1>2. ASSUME NEW role, NEW status, Post(j, role, status)
      PROVE  messages'[j] = Append(messages[j], Said(role, status))
  BY <1>2 DEF Post, Said, JobTypeOK
<1>3. ASSUME NEW m \in Message, NEW n \in Message
      PROVE  Append(<<>>, m) = <<m>> /\ Append(<<m>>, n) = <<m, n>>
  BY AppendToOne
<1>4. \A role \in {"user", "assistant"}, status \in {"completed", "error"} :
          Said(role, status) \in Message
  BY DEF Said, Message
<1>5. CASE PrepareCommit(j)
  <2>1. work[j].stage = "preparing" /\ work'[j].stage = "prepared" /\ SameRow(j)
    BY <1>5, GotoRow DEF PrepareCommit, Stages, SameRow
  <2>2. messages[j] = <<>>
    BY <2>1 DEF JobOK, MessagesOK
  <2>3. messages'[j] = Question
    <3>1. messages'[j] = Append(<<>>, Said("user", "completed"))
      BY <1>2, <1>5, <2>2 DEF PrepareCommit
    <3>2. Said("user", "completed") \in Message
      BY <1>4
    <3> QED BY <1>3, <3>1, <3>2 DEF Question
  <2>4. MessagesOK(j)'
    BY <2>1, <2>3 DEF MessagesOK
  <2>5. PaidOK(j)'
    BY <1>1, <2>1, PaidStays DEF JobOK, Stopped
  <2>6. KindOK(j)'
    BY <2>1 DEF JobOK, KindOK, SameRow, ResearchStage, ChatStage, SharedStage
  <2>7. LedgerOK(j)'
    BY <1>1, <2>1, LedgerStays DEF JobOK, Before, ledger
  <2> QED BY <2>4, <2>5, <2>6, <2>7 DEF JobOK
<1>6. CASE Answer(j)
  <2>1. /\ work'[j].stage = "answered" /\ SameRow(j)
        /\ work[j].stage \in {"delivered", "linked"}
        /\ work[j].stage = "linked" <=> work[j].kind = "research"
    BY <1>6, GotoRow DEF Answer, Ready, Stages, SameRow
  <2>2. messages[j] = Question /\ work[j].kind \in {"chat", "research", "automation"}
    BY <2>1 DEF JobOK, MessagesOK, KindOK, JobTypeOK, WorkRow, Kinds
  <2>3. messages'[j] = Append(Question, Said("assistant", "completed"))
    BY <1>2, <1>6, <2>2 DEF Answer
  <2>4. messages'[j] = Answered("completed")
    BY <1>3, <1>4, <2>3 DEF Question, Answered
  <2>5. MessagesOK(j)'
    BY <2>1, <2>4 DEF MessagesOK
  <2>6. PaidOK(j)'
    BY <1>1, <2>1, PaidStays DEF JobOK, Stopped
  <2>7. KindOK(j)'
    BY <2>1, <2>2 DEF KindOK, SameRow, ResearchStage, ChatStage, SharedStage
  <2>8. LedgerOK(j)'
    BY <1>1, <2>1, <2>2, LedgerStays DEF JobOK, Stopped, ledger
  <2> QED BY <2>5, <2>6, <2>7, <2>8 DEF JobOK
<1>7. CASE AnswerError(j)
  <2>1. work[j].stage = "failed" /\ work'[j].stage = "errored" /\ SameRow(j)
    BY <1>7, GotoRow DEF AnswerError, Stages, SameRow
  <2>2. messages[j] = Question /\ work[j].kind # "none"
    BY <2>1 DEF JobOK, MessagesOK, KindOK
  <2>3. messages'[j] = Append(Question, Said("assistant", "error"))
    BY <1>2, <1>7, <2>2 DEF AnswerError
  <2>4. messages'[j] = Answered("error")
    BY <1>3, <1>4, <2>3 DEF Question, Answered
  <2>5. MessagesOK(j)'
    BY <2>1, <2>4 DEF MessagesOK
  <2>6. PaidOK(j)'
    BY <1>1, <2>1, PaidStays DEF JobOK, Stopped
  <2>7. KindOK(j)'
    BY <2>1, <2>2 DEF KindOK, SameRow, ResearchStage, ChatStage, SharedStage
  <2>8. LedgerOK(j)'
    BY <1>1, <2>1, LedgerStays DEF JobOK, Stopped, ledger
  <2> QED BY <2>5, <2>6, <2>7, <2>8 DEF JobOK
<1> QED BY <1>5, <1>6, <1>7

\* The first read, and whatever the database refuses.
LEMMA RefusedJobs ==
    ASSUME JobTypeOK, NEW j \in Jobs, JobOK(j), UNCHANGED messages,
           PrepareRead(j) \/ WriteRefused(j) \/ PlanRefused(j) \/ ChatRefused(j)
    PROVE  JobOK(j)'
<1> USE DEF callVars
<1>1. UNCHANGED <<call, unpaid, ledger>>
  BY DEF PrepareRead, WriteRefused, PlanRefused, ChatRefused
<1>2. CASE PrepareRead(j) /\ ~Goto(j, "rejected")
  <2>1. PICK action \in Actions[j] :
            work' = [work EXCEPT ![j].stage = "preparing", ![j].kind = action]
    BY <1>2 DEF PrepareRead
  <2>2. /\ work[j].stage = "idle" /\ work'[j].stage = "preparing"
        /\ work'[j].kind = action /\ work'[j].agent = work[j].agent
        /\ action \in {"chat", "research", "automation"}
    <3>1. action \in Kinds \ {"none"}
      BY ChatAssumption
    <3>2. work[j].stage = "idle"
      BY <1>2 DEF PrepareRead
    <3>3. /\ work'[j].stage = "preparing" /\ work'[j].kind = action
          /\ work'[j].agent = work[j].agent
      BY <2>1 DEF JobTypeOK, WorkRow
    <3> QED BY <3>1, <3>2, <3>3 DEF Kinds
  <2>3. work[j].agent = 1 /\ work[j].kind = "none"
    BY <2>2 DEF JobOK, KindOK
  <2>4. Logged(j) = {} /\ Remembered(j) = {} /\ Logged(j)' = {} /\ Remembered(j)' = {}
    BY <2>2, <2>3, FirstAgentsGrow DEF Logged, Remembered, Filed
  <2>5. LedgerOK(j)'
    <3>1. runs[j] = Once({}) /\ memories[j] = Once({}) /\ cases[j] = <<>>
      BY <2>2, <2>3, <2>4 DEF JobOK, LedgerOK, Stopped, CasesOf
    <3> QED BY <1>1, <2>2, <2>4, <3>1, LedgerGrows DEF CasesOf, Filed, ledger
  <2>6. KindOK(j)' /\ MessagesOK(j)'
    BY <2>2 DEF JobOK, KindOK, MessagesOK, ResearchStage, ChatStage, SharedStage
  <2>7. PaidOK(j)'
    BY <1>1, <2>2, PaidStays DEF JobOK, Stopped
  <2> QED BY <2>5, <2>6, <2>7 DEF JobOK
<1>3. ASSUME NEW s \in {"rejected", "failed", "unanswered"}, Goto(j, s),
             work[j].stage \in {"idle", "preparing"} <=> s = "rejected",
             work[j].stage \notin Spoken \ Silent, work[j].stage # "rejected",
             work[j].stage # "unanswered",
             work[j].stage \notin {"thinking", "choosing"}
      PROVE  JobOK(j)'
  <2>1. work'[j].stage = s /\ SameRow(j)
    BY <1>3, GotoRow DEF Stages, SameRow
  <2>2. KindOK(j)'
    BY <1>3, <2>1
    DEF JobOK, KindOK, SameRow, ResearchStage, ChatStage, SharedStage, Spoken, Silent
  <2>3. PaidOK(j)'
    BY <1>1, <1>3, <2>1, PaidStays DEF JobOK, Stopped, Spoken, Silent
  <2>4. LedgerOK(j)'
    BY <1>1, <1>3, <2>1, LedgerStays DEF JobOK, Stopped, Before, ledger
  <2>5. MessagesOK(j)'
    BY <1>3, <2>1, MessagesStay DEF JobOK, Spoken, Silent
  <2> QED BY <2>2, <2>3, <2>4, <2>5 DEF JobOK
<1>4. \E s \in {"rejected", "failed", "unanswered"} :
          /\ Goto(j, s) \/ (PrepareRead(j) /\ ~Goto(j, "rejected"))
          /\ work[j].stage \in {"idle", "preparing"} <=> s = "rejected"
          /\ work[j].stage \in {"idle", "preparing", "logging", "remembering", "filing",
                                "closing", "planning", "delivered", "linked", "failed"}
  BY DEF PrepareRead, WriteRefused, PlanRefused, ChatRefused, Ready
<1> QED BY <1>2, <1>3, <1>4 DEF Spoken, Silent

\* A crash takes every request that is under way.
LEMMA CrashJobs == ASSUME JobTypeOK, JobInv, Crash PROVE JobTypeOK' /\ JobInv'
<1> DEFINE Over == {"idle", "answered", "errored", "unanswered", "rejected"}
<1>1. /\ work' = [j \in Jobs |-> IF work[j].stage \in Over THEN work[j]
                                ELSE [work[j] EXCEPT !.stage = "lost"]]
      /\ call' = [j \in Jobs |-> NoCall]
      /\ UNCHANGED <<unpaid, ledger, messages>>
  BY DEF Crash
<1>2. ASSUME NEW j \in Jobs
      PROVE  /\ work'[j] \in WorkRow /\ SameRow(j)
             /\ IF work[j].stage \in Over THEN work'[j].stage = work[j].stage
                ELSE work'[j].stage = "lost"
  <2>1. work[j] \in WorkRow
    BY DEF JobTypeOK
  <2> QED BY <1>1, <2>1 DEF WorkRow, Stages, SameRow
<1>3. JobTypeOK'
  BY <1>1, <1>2, NoCallType DEF JobTypeOK, ledger
<1>4. ASSUME NEW j \in Jobs PROVE JobOK(j)'
  <2>1. JobOK(j) /\ UNCHANGED <<unpaid[j], runs[j], memories[j], cases[j], messages[j]>>
    BY <1>1 DEF JobInv, ledger
  <2>2. KindOK(j)'
    BY <1>2, <2>1 DEF JobOK, KindOK, SameRow, ResearchStage, ChatStage, SharedStage
  <2>3. PaidOK(j)'
    BY <1>1, <1>2, <2>1 DEF JobOK, PaidOK, Stopped, NoCall
  <2>4. LedgerOK(j)'
    <3>1. CASE work[j].stage \in Over
      BY <1>2, <2>1, <3>1 DEF JobOK, LedgerOK, Logged, Remembered, SameRow
    <3>2. CASE work[j].stage \notin Over
      BY <1>2, <2>1, <3>2, LedgerStays DEF JobOK, Stopped
    <3> QED BY <3>1, <3>2
  <2>5. MessagesOK(j)'
    BY <1>2, <2>1 DEF JobOK, MessagesOK
  <2> QED BY <2>2, <2>3, <2>4, <2>5 DEF JobOK
<1> QED BY <1>3, <1>4 DEF JobInv

\* Together: types and jobs through any step.
LEMMA JobStepJobs ==
    ASSUME JobTypeOK, JobInv, NEW j \in Jobs, JobStep(j)
    PROVE  JobOK(j)'
<1> USE DEF planVars, chatVars
<1>1. JobOK(j)
  BY DEF JobInv
<1>2. CASE Research(j) /\ UNCHANGED chatVars
  <2>1. CASE Calling(j) /\ UNCHANGED <<work, ledger>>
    BY <1>1, <1>2, <2>1, CallingJobs
  <2> QED BY <1>1, <1>2, <2>1, ReadingJobs, JudgingJobs, LogAgentJobs, RememberResultJobs,
             FilingJobs, RefusedJobs DEF Research
<1>3. CASE React(j) /\ UNCHANGED chatVars
  <2>1. CASE Calling(j) /\ UNCHANGED <<work, ledger>>
    BY <1>1, <1>3, <2>1, CallingJobs
  <2> QED BY <1>1, <1>3, <2>1, ReadingJobs, JudgingJobs, StartingJobs, ReactEntryJobs,
             RefusedJobs DEF React
<1>4. CASE PrepareRead(j) \/ ChatRefused(j)
  <2>1. UNCHANGED messages
    BY <1>4 DEF PrepareRead, ChatRefused
  <2> QED BY <1>1, <1>4, <2>1, RefusedJobs
<1>5. CASE PrepareCommit(j) \/ Answer(j) \/ AnswerError(j)
  BY <1>1, <1>5, PostingJobs
<1>6. CASE Begin(j) \/ RunAutomation(j) \/ LinkCase(j)
  <2>1. UNCHANGED messages
    BY <1>6 DEF Begin, RunAutomation, LinkCase
  <2> QED BY <1>1, <1>6, <2>1, StartingJobs, FilingJobs
<1> QED BY <1>2, <1>3, <1>4, <1>5, <1>6 DEF JobStep, Reply

LEMMA NextJobs == ASSUME JobTypeOK, JobInv, [Next]_vars PROVE JobTypeOK' /\ JobInv'
<1>1. ASSUME NEW i \in Jobs, JobSame(i) PROVE JobOK(i)'
  <2>1. JobOK(i)
    BY DEF JobInv
  <2>2. KindOK(i)' /\ PaidOK(i)' /\ MessagesOK(i)'
    BY <1>1, <2>1 DEF JobSame, JobOK, KindOK, PaidOK, MessagesOK
  <2>3. Logged(i)' = Logged(i) /\ Remembered(i)' = Remembered(i)
    BY <1>1 DEF JobSame, Logged, Remembered
  <2>4. LedgerOK(i)'
    BY <1>1, <2>1, <2>3 DEF JobSame, JobOK, LedgerOK
  <2> QED BY <2>2, <2>4 DEF JobOK
<1>2. ASSUME NEW j \in Jobs, JobStep(j) PROVE JobTypeOK' /\ JobInv'
  <2>1. JobTypeOK' /\ \A i \in Jobs \ {j} : JobSame(i)
    BY <1>2, JobFrame
  <2>2. JobOK(j)'
    BY <1>2, JobStepJobs
  <2> QED BY <1>1, <2>1, <2>2 DEF JobInv
<1>3. ASSUME UNCHANGED <<reactVars, messages>> \/ UNCHANGED vars PROVE JobTypeOK' /\ JobInv'
  <2>1. UNCHANGED <<work, call, unpaid, runs, memories, cases, messages>>
    BY <1>3 DEF vars, reactVars, chatVars, callVars, ledger
  <2> QED BY <1>1, <2>1 DEF JobInv, JobTypeOK, JobSame
<1>4. ASSUME NEW c \in Conversations, NEW u \in Users, Create(c, u)
      PROVE  UNCHANGED <<reactVars, messages>>
  BY <1>4 DEF Create
<1>5. ASSUME NEW e \in Editors, NEW c \in Conversations, EditRead(e, c)
      PROVE  UNCHANGED <<reactVars, messages>>
  BY <1>5 DEF EditRead
<1>6. ASSUME NEW e \in Editors, NEW title \in NewTitles, EditCommit(e, title)
      PROVE  UNCHANGED <<reactVars, messages>>
  BY <1>6 DEF EditCommit
<1>7. CASE Crash
  BY <1>7, CrashJobs
<1> QED BY <1>2, <1>3, <1>4, <1>5, <1>6, <1>7 DEF Next, JobStep

---------------------------------------------------------------------------
(* Plans.                                                                  *)

PlanTypeOK ==
    /\ plans \in [Plans -> Row]
    /\ update \in [Jobs -> Update \cup {NoUpdate}]
    /\ mixed \subseteq Plans

LEMMA NothingInProgress == InProgress(NoPlan.steps) = 0
<1>1. {n \in DOMAIN NoPlan.steps : NoPlan.steps[n] = "in_progress"} = {}
  BY DEF NoPlan
<1> QED BY <1>1, FS_EmptySet DEF InProgress

\* An update that is no none has its plan; one of a crossed plan is told from it.
LEMMA UpdateRows ==
    ASSUME PlanTypeOK, NEW j \in Jobs, update[j] # NoUpdate
    PROVE  update[j] \in Update /\ update[j].plan \in Plans
  BY DEF PlanTypeOK, Update

LEMMA UpdatedRow ==
    ASSUME NEW u \in Update, NEW row \in Row, u.loaded # NoPlan => row # NoPlan,
           u.loaded = NoPlan => row = NoPlan
    PROVE  /\ Updated(u, row) \in Row \ {NoPlan}
           /\ Updated(u, row).steps \in {u.steps, row.steps}
           /\ u.loaded = row =>
                /\ Updated(u, row).steps = u.steps
                /\ Updated(u, row).status = StatusOf(u.steps)
<1>1. StatusOf(u.steps) \in {"active", "completed"}
  BY DEF StatusOf
<1>2. CASE u.loaded = NoPlan
  <2>1. row = NoPlan /\ u.loaded.status = "none" /\ u.loaded.steps = <<>>
    BY <1>2 DEF NoPlan
  <2>2. Updated(u, row) = [status |-> StatusOf(u.steps), steps |-> u.steps]
    BY <1>1, <2>1 DEF Updated, Written, NoPlan
  <2>3. u.steps \in StepLists
    BY DEF Update
  <2> QED BY <1>1, <2>2, <2>3 DEF Row, NoPlan
<1>3. CASE u.loaded # NoPlan
  <2>1. /\ row \in [status : {"active", "completed"}, steps : StepLists]
        /\ u.steps \in StepLists
    BY <1>3 DEF Row, Update
  <2>2. /\ Updated(u, row).status \in {StatusOf(u.steps), row.status}
        /\ Updated(u, row).steps \in {u.steps, row.steps}
        /\ Updated(u, row) = [status |-> Updated(u, row).status, steps |-> Updated(u, row).steps]
    BY DEF Updated, Written
  <2>3. u.loaded = row => /\ Updated(u, row).steps = u.steps
                          /\ Updated(u, row).status = StatusOf(u.steps)
    BY DEF Updated, Written
  <2>4. Updated(u, row) \in Row \ {NoPlan}
    BY <1>1, <2>1, <2>2 DEF Row, NoPlan
  <2> QED BY <2>2, <2>3, <2>4
<1> QED BY <1>2, <1>3

\* A commit that succeeds is the only step that changes a plan.
LEMMA CommitPlans ==
    ASSUME PlanTypeOK, PlanInv, NEW j \in Jobs, update[j] # NoUpdate,
           update[j].loaded = NoPlan => plans[update[j].plan] = NoPlan,
           plans' = [plans EXCEPT ![update[j].plan] = Updated(update[j], @)],
           mixed' = IF update[j].crossed THEN mixed \cup {update[j].plan} ELSE mixed,
           update' = [i \in Jobs |->
                         IF i = j THEN NoUpdate
                         ELSE [update[i] EXCEPT !.crossed = @ \/ update[i].plan = update[j].plan]]
    PROVE  PlanTypeOK' /\ PlanInv'
<1> DEFINE u == update[j]
           p == u.plan
<1>1. u \in Update /\ p \in Plans /\ plans[p] \in Row
  BY UpdateRows DEF PlanTypeOK
<1>2. /\ u.loaded # NoPlan => plans[p] # NoPlan
      /\ InProgress(u.steps) <= 1
      /\ ~u.crossed => u.loaded = plans[p]
  BY DEF PlanInv
<1>3. /\ plans'[p] = Updated(u, plans[p])
      /\ \A q \in Plans \ {p} : plans'[q] = plans[q]
  BY <1>1 DEF PlanTypeOK
<1>4. /\ plans'[p] \in Row \ {NoPlan}
      /\ plans'[p].steps \in {u.steps, plans[p].steps}
      /\ u.loaded = plans[p] =>
            plans'[p].steps = u.steps /\ plans'[p].status = StatusOf(u.steps)
  BY <1>1, <1>2, <1>3, UpdatedRow
<1>5. plans' \in [Plans -> Row]
  BY <1>1, <1>3, <1>4 DEF PlanTypeOK
<1>6. mixed' \subseteq Plans /\ mixed \subseteq mixed'
  BY <1>1 DEF PlanTypeOK
<1>7. ASSUME NEW i \in Jobs, update[i] = NoUpdate PROVE update'[i] = NoUpdate
  <2>1. NoUpdate.plan # p /\ NoUpdate.crossed = FALSE
    BY <1>1, ReActAssumption DEF NoUpdate
  <2> QED BY <1>7, <2>1 DEF NoUpdate
<1>8. ASSUME NEW i \in Jobs \ {j}, update[i] # NoUpdate
      PROVE  /\ update'[i] \in Update
             /\ update'[i].plan = update[i].plan /\ update'[i].steps = update[i].steps
             /\ update'[i].loaded = update[i].loaded
             /\ ~update'[i].crossed => ~update[i].crossed /\ update[i].plan # p
  BY <1>8, UpdateRows DEF Update
<1>9. PlanTypeOK'
  <2>1. update' \in [Jobs -> Update \cup {NoUpdate}]
    BY <1>7, <1>8
  <2> QED BY <1>5, <1>6, <2>1 DEF PlanTypeOK
<1>10. ASSUME NEW i \in Jobs, update'[i] # NoUpdate
       PROVE  /\ InProgress(update'[i].steps) <= 1
              /\ update'[i].loaded # NoPlan => plans'[update'[i].plan] # NoPlan
              /\ ~update'[i].crossed => update'[i].loaded = plans'[update'[i].plan]
  <2>1. i # j /\ update[i] # NoUpdate /\ update[i].plan \in Plans
    BY <1>7, <1>10, UpdateRows
  <2> QED BY <1>3, <1>4, <1>8, <2>1 DEF PlanInv
<1>11. ASSUME NEW q \in Plans
       PROVE  /\ InProgress(plans'[q].steps) <= 1
              /\ (q \notin mixed' /\ plans'[q] # NoPlan) =>
                     plans'[q].status = StatusOf(plans'[q].steps)
  <2>1. /\ InProgress(plans[q].steps) <= 1
        /\ (q \notin mixed /\ plans[q] # NoPlan) => plans[q].status = StatusOf(plans[q].steps)
    BY DEF PlanInv, PlanAgreesWhenApart
  <2>2. CASE q = p
    BY <1>2, <1>4, <2>1, <2>2
  <2>3. CASE q # p
    BY <1>3, <1>6, <2>1, <2>3
  <2> QED BY <2>2, <2>3
<1> QED BY <1>9, <1>10, <1>11 DEF PlanInv, PlanAgreesWhenApart

\* Beginning an update, or giving one up, leaves the plans alone.
LEMMA OtherPlans ==
    ASSUME PlanTypeOK, PlanInv, UNCHANGED <<plans, mixed>>,
           \A i \in Jobs :
              \/ update'[i] \in {update[i], NoUpdate}
              \/ /\ update'[i] \in Update
                 /\ update'[i].loaded = plans[update'[i].plan]
                 /\ InProgress(update'[i].steps) <= 1,
           update' \in [Jobs -> Update \cup {NoUpdate}]
    PROVE  PlanTypeOK' /\ PlanInv'
<1>1. PlanTypeOK'
  BY DEF PlanTypeOK
<1>2. PlanAgreesWhenApart'
  BY DEF PlanInv, PlanAgreesWhenApart
<1>3. ASSUME NEW i \in Jobs, update'[i] # NoUpdate
      PROVE  /\ InProgress(update'[i].steps) <= 1
             /\ update'[i].loaded # NoPlan => plans'[update'[i].plan] # NoPlan
             /\ ~update'[i].crossed => update'[i].loaded = plans'[update'[i].plan]
  <2>1. CASE update'[i] = update[i]
    BY <1>3, <2>1 DEF PlanInv
  <2>2. CASE update'[i] # update[i]
    BY <1>3, <2>2
  <2> QED BY <2>1, <2>2
<1> QED BY <1>1, <1>2, <1>3 DEF PlanInv

LEMMA NextPlans ==
    ASSUME PlanTypeOK, PlanInv, [Next]_vars
    PROVE  PlanTypeOK' /\ PlanInv'
<1> USE DEF planVars
<1>1. CASE UNCHANGED planVars
  BY <1>1, OtherPlans DEF PlanTypeOK
<1>2. ASSUME NEW j \in Jobs, update' = [update EXCEPT ![j] = NoUpdate], UNCHANGED <<plans, mixed>>
      PROVE  PlanTypeOK' /\ PlanInv'
  BY <1>2, OtherPlans DEF PlanTypeOK
<1>3. ASSUME NEW j \in Jobs, ReadPlan(j) PROVE PlanTypeOK' /\ PlanInv'
  <2>1. PICK p \in Plans, steps \in StepLists :
            \/ UNCHANGED update
            \/ /\ InProgress(steps) <= 1
               /\ update' = [update EXCEPT ![j] = [plan |-> p, steps |-> steps,
                                                   loaded |-> plans[p], crossed |-> FALSE]]
    BY <1>3 DEF ReadPlan
  <2>2. UNCHANGED <<plans, mixed>>
    BY <1>3 DEF ReadPlan
  <2>3. CASE UNCHANGED update
    BY <1>1, <2>2, <2>3
  <2>4. CASE /\ InProgress(steps) <= 1
             /\ update' = [update EXCEPT ![j] = [plan |-> p, steps |-> steps,
                                                 loaded |-> plans[p], crossed |-> FALSE]]
    <3> DEFINE u == [plan |-> p, steps |-> steps, loaded |-> plans[p], crossed |-> FALSE]
    <3>1. u \in Update /\ u.loaded = plans[u.plan] /\ InProgress(u.steps) <= 1
      BY <2>4 DEF Update, PlanTypeOK
    <3>2. update' = [update EXCEPT ![j] = u]
      BY <2>4
    <3> HIDE DEF u
    <3>3. update' \in [Jobs -> Update \cup {NoUpdate}]
      BY <3>1, <3>2 DEF PlanTypeOK
    <3>4. update'[j] = u /\ \A i \in Jobs \ {j} : update'[i] = update[i]
      BY <3>2 DEF PlanTypeOK
    <3> QED BY <2>2, <3>1, <3>3, <3>4, OtherPlans
  <2> QED BY <2>1, <2>3, <2>4
<1>4. ASSUME NEW j \in Jobs, CommitPlan(j) PROVE PlanTypeOK' /\ PlanInv'
  <2>1. update[j] # NoUpdate
    BY <1>4 DEF CommitPlan
  <2>2. CASE update' = [update EXCEPT ![j] = NoUpdate] /\ UNCHANGED <<plans, mixed>>
    BY <1>2, <2>2
  <2>3. CASE ~(update' = [update EXCEPT ![j] = NoUpdate] /\ UNCHANGED <<plans, mixed>>)
    <3>1. /\ update[j].loaded = NoPlan => plans[update[j].plan] = NoPlan
          /\ plans' = [plans EXCEPT ![update[j].plan] = Updated(update[j], @)]
          /\ mixed' = IF update[j].crossed THEN mixed \cup {update[j].plan} ELSE mixed
          /\ update' = [i \in Jobs |->
                IF i = j THEN NoUpdate
                ELSE [update[i] EXCEPT !.crossed = @ \/ update[i].plan = update[j].plan]]
      BY <1>4, <2>3 DEF CommitPlan
    <3> QED BY <2>1, <3>1, CommitPlans
  <2> QED BY <2>2, <2>3
<1>5. ASSUME NEW j \in Jobs, PlanRefused(j) PROVE PlanTypeOK' /\ PlanInv'
  BY <1>2, <1>5 DEF PlanRefused
<1>6. CASE Crash
  <2>1. UNCHANGED <<plans, mixed>> /\ update' = [j \in Jobs |-> NoUpdate]
    BY <1>6 DEF Crash
  <2> QED BY <2>1, OtherPlans DEF PlanTypeOK
<1>7. ASSUME NEW j \in Jobs, React(j) PROVE PlanTypeOK' /\ PlanInv'
  BY <1>1, <1>3, <1>4, <1>5, <1>7
  DEF React, Recall, Choose, UseTool, Trace, LogReact, RememberTrace
<1>8. ASSUME NEW j \in Jobs, JobStep(j), ~React(j) PROVE UNCHANGED planVars
  BY <1>8
  DEF JobStep, Reply, PrepareRead, PrepareCommit, Begin, RunAutomation, LinkCase, Answer,
      AnswerError, ChatRefused
<1>9. ASSUME \/ \E c \in Conversations, u \in Users : Create(c, u)
             \/ \E e \in Editors, c \in Conversations : EditRead(e, c)
             \/ \E e \in Editors, title \in NewTitles : EditCommit(e, title)
             \/ UNCHANGED vars
      PROVE  UNCHANGED planVars
  BY <1>9 DEF Create, EditRead, EditCommit, vars, reactVars
<1> QED BY <1>1, <1>6, <1>7, <1>8, <1>9 DEF Next, JobStep

---------------------------------------------------------------------------
(* Titles.                                                                 *)

TitleTypeOK ==
    /\ conversations \in [Conversations -> [owner : Users \cup {"none"}, title : Titles]]
    /\ wanted \in [Conversations -> Titles]
    /\ clashed \subseteq Conversations
    /\ edit \in [Editors -> Edit \cup {NoEdit}]
    /\ seen \in [Jobs -> [loaded : Titles, crossed : BOOLEAN]]

\* What an editor or a reply has in hand is a title that somebody owns, and the
\* present one unless it was crossed.
EditOK(e) == edit[e] # NoEdit =>
    /\ conversations[edit[e].conversation].owner # "none"
    /\ ~edit[e].crossed => edit[e].loaded = conversations[edit[e].conversation].title

SeenOK(j) == seen[j] # Unseen =>
    /\ conversations[Of(j)].owner # "none"
    /\ ~seen[j].crossed => seen[j].loaded = conversations[Of(j)].title

TableOK(c) ==
    /\ conversations[c].owner = "none" => wanted[c] = "none"
    /\ (c \notin clashed /\ wanted[c] \notin {"none", "New Chat"}) =>
            conversations[c].title = wanted[c]

LEMMA TitleParts ==
    TitleInv <=> /\ \A e \in Editors : EditOK(e)
                 /\ \A j \in Jobs : SeenOK(j)
                 /\ \A c \in Conversations : TableOK(c)
  BY DEF TitleInv, TitleKeptWhenApart, EditOK, SeenOK, TableOK

LEMMA OfConversation == \A j \in Jobs : Of(j) \in Conversations
  BY ChatAssumption DEF Of

\* A title is written: whoever has read that one notes it, the others do not care.
LEMMA CrossTitles ==
    ASSUME TitleTypeOK, TitleInv, NEW c \in Conversations, NEW title \in Titles,
           NEW seenNow \in [Jobs -> [loaded : Titles, crossed : BOOLEAN]],
           NEW editNow \in [Editors -> Edit \cup {NoEdit}],
           \A j \in Jobs : seenNow[j] \in {seen[j], Unseen},
           \A e \in Editors : editNow[e] \in {edit[e], NoEdit},
           Cross(c, seenNow, editNow),
           conversations' = [conversations EXCEPT ![c].title = title],
           clashed' \subseteq Conversations, wanted' \in [Conversations -> Titles],
           TableOK(c)',
           \A d \in Conversations \ {c} : wanted'[d] = wanted[d] /\ (d \in clashed' <=> d \in clashed)
    PROVE  TitleTypeOK' /\ TitleInv'
<1>1. /\ conversations' \in [Conversations -> [owner : Users \cup {"none"}, title : Titles]]
      /\ conversations'[c].owner = conversations[c].owner
      /\ \A d \in Conversations \ {c} : conversations'[d] = conversations[d]
  BY DEF TitleTypeOK
<1>2. ASSUME NEW j \in Jobs
      PROVE  SeenOK(j)' /\ seen'[j] \in [loaded : Titles, crossed : BOOLEAN]
  <2>1. seen'[j] = IF Of(j) = c /\ seenNow[j] # Unseen
                   THEN [seenNow[j] EXCEPT !.crossed = TRUE] ELSE seenNow[j]
    BY DEF Cross
  <2>2. SeenOK(j) /\ Of(j) \in Conversations
    BY TitleParts, OfConversation
  <2>3. CASE seenNow[j] = Unseen
    BY <2>1, <2>3 DEF SeenOK, Unseen
  <2>4. CASE seenNow[j] # Unseen /\ Of(j) = c
    <3>1. seenNow[j] = seen[j] /\ seen'[j].crossed
          /\ seen'[j] \in [loaded : Titles, crossed : BOOLEAN]
      BY <2>1, <2>4
    <3> QED BY <1>1, <2>2, <2>4, <3>1 DEF SeenOK, Of
  <2>5. CASE seenNow[j] # Unseen /\ Of(j) # c
    BY <1>1, <2>1, <2>2, <2>5 DEF SeenOK, Of
  <2> QED BY <2>3, <2>4, <2>5
<1>3. ASSUME NEW e \in Editors PROVE EditOK(e)' /\ edit'[e] \in Edit \cup {NoEdit}
  <2>1. edit'[e] = IF editNow[e].conversation = c
                   THEN [editNow[e] EXCEPT !.crossed = TRUE] ELSE editNow[e]
    BY DEF Cross
  <2>2. EditOK(e)
    BY TitleParts
  <2>3. CASE editNow[e] = NoEdit
    <3>1. NoEdit.conversation # c
      BY ChatAssumption DEF NoEdit
    <3>2. edit'[e] = NoEdit
      BY <2>1, <2>3, <3>1
    <3> QED BY <3>2 DEF EditOK
  <2>4. CASE editNow[e] # NoEdit /\ editNow[e].conversation = c
    <3>1. editNow[e] = edit[e] /\ edit[e] \in Edit
      BY <2>4 DEF TitleTypeOK
    <3>2. edit'[e].crossed /\ edit'[e] \in Edit /\ edit'[e].conversation = c
      BY <2>1, <2>4, <3>1 DEF Edit
    <3> QED BY <1>1, <2>2, <2>4, <3>1, <3>2 DEF EditOK
  <2>5. CASE editNow[e] # NoEdit /\ editNow[e].conversation # c
    <3>1. editNow[e] = edit[e] /\ edit[e] \in Edit /\ edit'[e] = edit[e]
          /\ edit[e].conversation \in Conversations
      BY <2>1, <2>5 DEF TitleTypeOK, Edit
    <3> QED BY <1>1, <2>2, <2>5, <3>1 DEF EditOK
  <2> QED BY <2>3, <2>4, <2>5
<1>4. ASSUME NEW d \in Conversations PROVE TableOK(d)'
  BY <1>1, TitleParts DEF TableOK
<1>5. TitleTypeOK'
  <2>1. seen' \in [Jobs -> [loaded : Titles, crossed : BOOLEAN]]
        /\ edit' \in [Editors -> Edit \cup {NoEdit}]
    BY <1>2, <1>3 DEF Cross
  <2> QED BY <1>1, <2>1 DEF TitleTypeOK
<1>6. TitleInv'
  BY <1>2, <1>3, <1>4 DEF TitleInv, TitleKeptWhenApart, EditOK, SeenOK, TableOK
<1> QED BY <1>5, <1>6

\* Reading a title, or dropping it, writes none.
LEMMA ReadTitles ==
    ASSUME TitleTypeOK, TitleInv, TitleTypeOK', UNCHANGED <<conversations, wanted, clashed>>,
           \A e \in Editors : EditOK(e)', \A j \in Jobs : SeenOK(j)'
    PROVE  TitleInv'
<1>1. ASSUME NEW c \in Conversations PROVE TableOK(c)'
  BY TitleParts DEF TableOK
<1> QED BY <1>1 DEF TitleInv, TitleKeptWhenApart, EditOK, SeenOK, TableOK

\* What does not move keeps its share of the invariant.
LEMMA EditStays ==
    ASSUME TitleInv, UNCHANGED conversations, NEW e \in Editors,
           edit'[e] = edit[e] \/ edit'[e] = NoEdit
    PROVE  EditOK(e)'
  BY TitleParts DEF EditOK

LEMMA SeenStays ==
    ASSUME TitleInv, UNCHANGED conversations, NEW j \in Jobs,
           seen'[j] = seen[j] \/ seen'[j] = Unseen
    PROVE  SeenOK(j)'
  BY TitleParts DEF SeenOK, Of

LEMMA UnseenType == Unseen \in [loaded : Titles, crossed : BOOLEAN]
  BY DEF Unseen, Titles

LEMMA CreateTitles ==
    ASSUME TitleTypeOK, TitleInv, NEW c \in Conversations, NEW u \in Users, Create(c, u)
    PROVE  TitleTypeOK' /\ TitleInv'
<1>1. /\ conversations[c].owner = "none" /\ UNCHANGED <<edit, seen, wanted, clashed>>
      /\ conversations' \in [Conversations -> [owner : Users \cup {"none"}, title : Titles]]
      /\ conversations'[c].owner = u
      /\ \A d \in Conversations \ {c} : conversations'[d] = conversations[d]
  BY DEF Create, Exists, TitleTypeOK, Titles
<1>2. u # "none"
  BY ChatAssumption
<1>3. ASSUME NEW e \in Editors PROVE EditOK(e)'
  <2>1. edit[e] # NoEdit => edit[e].conversation \in Conversations \ {c}
    BY <1>1, TitleParts DEF EditOK, TitleTypeOK, Edit
  <2> QED BY <1>1, <2>1, TitleParts DEF EditOK
<1>4. ASSUME NEW j \in Jobs PROVE SeenOK(j)'
  <2>1. seen[j] # Unseen => Of(j) \in Conversations \ {c}
    BY <1>1, TitleParts, OfConversation DEF SeenOK
  <2> QED BY <1>1, <2>1, TitleParts DEF SeenOK, Of
<1>5. ASSUME NEW d \in Conversations PROVE TableOK(d)'
  BY <1>1, <1>2, TitleParts DEF TableOK
<1>6. TitleTypeOK'
  BY <1>1 DEF TitleTypeOK
<1> QED
  BY <1>3, <1>4, <1>5, <1>6 DEF TitleInv, TitleKeptWhenApart, EditOK, SeenOK, TableOK

LEMMA EditReadTitles ==
    ASSUME TitleTypeOK, TitleInv, NEW e \in Editors, NEW c \in Conversations, EditRead(e, c)
    PROVE  TitleTypeOK' /\ TitleInv'
<1> DEFINE row == [conversation |-> c, loaded |-> conversations[c].title, crossed |-> FALSE]
<1>1. /\ conversations[c].owner # "none" /\ edit' = [edit EXCEPT ![e] = row]
      /\ UNCHANGED <<conversations, seen, wanted, clashed>>
  BY ChatAssumption DEF EditRead
<1>2. row \in Edit
  BY DEF Edit, TitleTypeOK
<1>3. TitleTypeOK'
  BY <1>1, <1>2 DEF TitleTypeOK
<1>4. ASSUME NEW f \in Editors PROVE EditOK(f)'
  <2>1. CASE f = e
    BY <1>1, <2>1 DEF EditOK, TitleTypeOK
  <2>2. CASE f # e
    <3>1. edit'[f] = edit[f]
      BY <1>1, <2>2 DEF TitleTypeOK
    <3> QED BY <1>1, <3>1, EditStays
  <2> QED BY <2>1, <2>2
<1>5. ASSUME NEW j \in Jobs PROVE SeenOK(j)'
  BY <1>1, SeenStays
<1> QED BY <1>1, <1>3, <1>4, <1>5, ReadTitles

LEMMA EditCommitTitles ==
    ASSUME TitleTypeOK, TitleInv, NEW e \in Editors, NEW title \in NewTitles,
           EditCommit(e, title)
    PROVE  TitleTypeOK' /\ TitleInv'
<1>0. PICK c \in Conversations : c = edit[e].conversation
  BY DEF EditCommit, TitleTypeOK, Edit
<1> DEFINE written == Written(title, edit[e].loaded, conversations[c].title)
           editNow == [edit EXCEPT ![e] = NoEdit]
<1>1. /\ edit[e] # NoEdit /\ conversations' = [conversations EXCEPT ![c].title = written]
      /\ wanted' = [wanted EXCEPT ![c] = title]
      /\ clashed' = IF edit[e].crossed THEN clashed \cup {c} ELSE clashed
      /\ Cross(c, seen, editNow)
  BY <1>0 DEF EditCommit
<1>2. edit[e] \in Edit /\ EditOK(e) /\ title \in Titles
  BY <1>1, TitleParts, ChatAssumption DEF TitleTypeOK, Edit, Titles
<1>3. written \in Titles
  BY <1>2 DEF Written, TitleTypeOK
<1>4. editNow \in [Editors -> Edit \cup {NoEdit}]
      /\ \A f \in Editors : editNow[f] \in {edit[f], NoEdit}
  BY DEF TitleTypeOK
<1>5. seen \in [Jobs -> [loaded : Titles, crossed : BOOLEAN]]
  BY DEF TitleTypeOK
<1>6. clashed' \subseteq Conversations /\ wanted' \in [Conversations -> Titles]
      /\ \A d \in Conversations \ {c} :
             wanted'[d] = wanted[d] /\ (d \in clashed' <=> d \in clashed)
  BY <1>1, <1>2 DEF TitleTypeOK
<1>7. TableOK(c)'
  <2>1. conversations'[c].owner = conversations[c].owner /\ conversations'[c].title = written
        /\ conversations[c].owner # "none" /\ wanted'[c] = title
    BY <1>0, <1>1, <1>2 DEF TitleTypeOK, EditOK
  <2>2. c \notin clashed' => ~edit[e].crossed
    BY <1>1
  <2>3. ~edit[e].crossed => written = title
    BY <1>0, <1>1, <1>2 DEF EditOK, Written
  <2> HIDE DEF written
  <2> QED BY <2>1, <2>2, <2>3 DEF TableOK
<1> HIDE DEF written, editNow
<1> QED BY <1>1, <1>2, <1>3, <1>4, <1>5, <1>6, <1>7, CrossTitles

LEMMA PrepareReadTitles ==
    ASSUME TitleTypeOK, TitleInv, NEW j \in Jobs, PrepareRead(j)
    PROVE  TitleTypeOK' /\ TitleInv'
<1> DEFINE row == [loaded |-> conversations[Of(j)].title, crossed |-> FALSE]
<1>1. /\ UNCHANGED <<conversations, edit, wanted, clashed>>
      /\ conversations[Of(j)].owner # "none"
      /\ UNCHANGED seen \/ seen' = [seen EXCEPT ![j] = row]
  BY DEF PrepareRead, Exists
<1>2. row \in [loaded : Titles, crossed : BOOLEAN]
  BY OfConversation DEF TitleTypeOK
<1> HIDE DEF row
<1>3. TitleTypeOK'
  BY <1>1, <1>2 DEF TitleTypeOK
<1>4. ASSUME NEW f \in Editors PROVE EditOK(f)'
  BY <1>1, EditStays
<1>5. ASSUME NEW i \in Jobs PROVE SeenOK(i)'
  <2>1. CASE seen'[i] = seen[i]
    BY <1>1, <2>1, SeenStays
  <2>2. CASE i = j /\ seen'[j] = row
    BY <1>1, <2>2 DEF SeenOK, Of, row
  <2> QED BY <1>1, <2>1, <2>2 DEF TitleTypeOK
<1> QED BY <1>1, <1>3, <1>4, <1>5, ReadTitles

LEMMA PrepareCommitTitles ==
    ASSUME TitleTypeOK, TitleInv, NEW j \in Jobs, PrepareCommit(j)
    PROVE  TitleTypeOK' /\ TitleInv'
<1>0. PICK c \in Conversations : c = Of(j)
  BY OfConversation
<1> DEFINE later == [seen EXCEPT ![j] = Unseen]
<1>1. later \in [Jobs -> [loaded : Titles, crossed : BOOLEAN]]
      /\ \A i \in Jobs : later[i] \in {seen[i], Unseen}
  BY UnseenType DEF TitleTypeOK
<1>2. SeenOK(j) /\ UNCHANGED wanted
  BY TitleParts DEF PrepareCommit
<1>3. CASE seen[j].loaded # "New Chat" /\ seen' = later /\ UNCHANGED <<conversations, edit, clashed>>
  <2>1. TitleTypeOK'
    BY <1>1, <1>2, <1>3 DEF TitleTypeOK
  <2>2. ASSUME NEW f \in Editors PROVE EditOK(f)'
    BY <1>3, EditStays
  <2>3. ASSUME NEW i \in Jobs PROVE SeenOK(i)'
    <3>1. seen'[i] = seen[i] \/ seen'[i] = Unseen
      BY <1>1, <1>3
    <3> QED BY <1>3, <3>1, SeenStays
  <2> QED BY <1>2, <1>3, <2>1, <2>2, <2>3, ReadTitles
<1>4. ASSUME seen[j].loaded = "New Chat", NEW title \in {"question", "New Chat"},
             conversations' = [conversations EXCEPT ![c].title = Written(title, "New Chat", @)],
             clashed' = IF seen[j].crossed THEN clashed \cup {c} ELSE clashed,
             Cross(c, later, edit)
      PROVE  TitleTypeOK' /\ TitleInv'
  <2> DEFINE written == Written(title, "New Chat", conversations[c].title)
  <2>1. written \in Titles /\ conversations' = [conversations EXCEPT ![c].title = written]
    BY <1>2, <1>4 DEF TitleTypeOK, Written, Titles
  <2>2. edit \in [Editors -> Edit \cup {NoEdit}] /\ \A e \in Editors : edit[e] \in {edit[e], NoEdit}
    BY DEF TitleTypeOK
  <2>3. /\ clashed' \subseteq Conversations /\ wanted' \in [Conversations -> Titles]
        /\ \A d \in Conversations \ {c} :
               wanted'[d] = wanted[d] /\ (d \in clashed' <=> d \in clashed)
    BY <1>2, <1>4 DEF TitleTypeOK
  <2>4. TableOK(c)'
    <3>0. seen[j] # Unseen
      <4>1. Unseen.loaded = "none"
        BY DEF Unseen
      <4> QED BY <1>4, <4>1
    <3>1. conversations'[c].owner = conversations[c].owner
          /\ conversations[c].owner # "none" /\ wanted'[c] = wanted[c]
      BY <1>0, <1>2, <1>4, <3>0 DEF TitleTypeOK, SeenOK
    <3>2. c \notin clashed' => c \notin clashed /\ conversations[c].title = "New Chat"
      BY <1>0, <1>2, <1>4, <3>0 DEF SeenOK
    <3>3. c \notin clashed' => wanted[c] \in {"none", "New Chat"}
      BY <1>2, <3>2, TitleParts DEF TableOK
    <3> QED BY <3>1, <3>3 DEF TableOK
  <2> HIDE DEF written, later
  <2> QED BY <1>1, <1>2, <1>4, <2>1, <2>2, <2>3, <2>4, CrossTitles
<1> QED BY <1>0, <1>3, <1>4 DEF PrepareCommit

LEMMA NextTitles ==
    ASSUME TitleTypeOK, TitleInv, [Next]_vars
    PROVE  TitleTypeOK' /\ TitleInv'
<1> USE DEF chatVars
<1>1. CASE UNCHANGED <<conversations, edit, seen, wanted, clashed>>
  BY <1>1 DEF TitleTypeOK, TitleInv, TitleKeptWhenApart, Of
<1>2. CASE \E c \in Conversations, u \in Users : Create(c, u)
  BY <1>2, CreateTitles
<1>3. CASE \E e \in Editors, c \in Conversations : EditRead(e, c)
  BY <1>3, EditReadTitles
<1>4. CASE \E e \in Editors, title \in NewTitles : EditCommit(e, title)
  BY <1>4, EditCommitTitles
<1>5. ASSUME NEW j \in Jobs, PrepareRead(j) \/ PrepareCommit(j) PROVE TitleTypeOK' /\ TitleInv'
  BY <1>5, PrepareReadTitles, PrepareCommitTitles
<1>6. ASSUME NEW j \in Jobs, ChatRefused(j) PROVE TitleTypeOK' /\ TitleInv'
  <2>1. UNCHANGED <<conversations, edit, wanted, clashed>>
        /\ (UNCHANGED seen \/ seen' = [seen EXCEPT ![j] = Unseen])
    BY <1>6 DEF ChatRefused
  <2>2. TitleTypeOK'
    BY <2>1, UnseenType DEF TitleTypeOK
  <2>3. ASSUME NEW e \in Editors PROVE EditOK(e)'
    BY <2>1, EditStays
  <2>4. ASSUME NEW i \in Jobs PROVE SeenOK(i)'
    <3>1. seen'[i] = seen[i] \/ seen'[i] = Unseen
      BY <2>1 DEF TitleTypeOK
    <3> QED BY <2>1, <3>1, SeenStays
  <2> QED BY <2>1, <2>2, <2>3, <2>4, ReadTitles
<1>7. CASE Crash
  <2>1. /\ UNCHANGED <<conversations, wanted, clashed>>
        /\ seen' = [j \in Jobs |-> Unseen] /\ edit' = [e \in Editors |-> NoEdit]
    BY <1>7 DEF Crash
  <2>2. TitleTypeOK'
    BY <2>1, UnseenType DEF TitleTypeOK
  <2>3. ASSUME NEW e \in Editors PROVE EditOK(e)'
    BY <2>1, EditStays
  <2>4. ASSUME NEW i \in Jobs PROVE SeenOK(i)'
    BY <2>1, SeenStays
  <2> QED BY <2>1, <2>2, <2>3, <2>4, ReadTitles
<1>8. ASSUME NEW j \in Jobs,
             \/ Research(j) /\ UNCHANGED <<planVars, chatVars>>
             \/ React(j) /\ UNCHANGED chatVars
             \/ Begin(j) \/ RunAutomation(j) \/ LinkCase(j) \/ Answer(j) \/ AnswerError(j)
      PROVE  UNCHANGED <<conversations, edit, seen, wanted, clashed>>
  BY <1>8 DEF Begin, RunAutomation, LinkCase, Answer, AnswerError
<1>9. CASE UNCHANGED vars
  BY <1>1, <1>9 DEF vars
<1> QED BY <1>1, <1>2, <1>3, <1>4, <1>5, <1>6, <1>7, <1>8, <1>9 DEF Next, Reply

---------------------------------------------------------------------------
(* What a request has read it holds only while it prepares or plans.       *)

WaitOK(j) ==
    /\ update[j] # NoUpdate => work[j].stage = "planning"
    /\ seen[j] # Unseen => work[j].stage = "preparing"
WaitInv == (\A j \in Jobs : WaitOK(j)) /\ faults \in 0..MaxFaults

\* Nobody but the request itself begins to hold something.
Begins(j) ==
    /\ \A i \in Jobs \ {j} : update[i] = NoUpdate => update'[i] = NoUpdate
    /\ \A i \in Jobs \ {j} : seen[i] = Unseen => seen'[i] = Unseen

LEMMA CommitBegins ==
    ASSUME PlanTypeOK, NEW j \in Jobs, CommitPlan(j)
    PROVE  \A i \in Jobs : (i = j \/ update[i] = NoUpdate) => update'[i] = NoUpdate
<1>1. CASE update' = [update EXCEPT ![j] = NoUpdate]
  BY <1>1 DEF PlanTypeOK
<1>2. CASE update' = [i \in Jobs |->
                    IF i = j THEN NoUpdate
                    ELSE [update[i] EXCEPT !.crossed = @ \/ update[i].plan = update[j].plan]]
  <2>1. update[j].plan \in Plans
    BY UpdateRows DEF CommitPlan
  <2>2. ASSUME NEW i \in Jobs, update[i] = NoUpdate PROVE update'[i] = NoUpdate
    <3>1. NoUpdate.plan # update[j].plan /\ NoUpdate.crossed = FALSE
      BY <2>1, ReActAssumption DEF NoUpdate
    <3> QED BY <1>2, <2>2, <3>1 DEF NoUpdate
  <2> QED BY <1>2, <2>2
<1> QED BY <1>1, <1>2 DEF CommitPlan

LEMMA CrossBegins ==
    ASSUME NEW c, NEW seenNow, NEW editNow, Cross(c, seenNow, editNow)
    PROVE  \A i \in Jobs : seenNow[i] = Unseen => seen'[i] = Unseen
  BY DEF Cross

LEMMA WaitStep ==
    ASSUME JobTypeOK, JobInv, PlanTypeOK, TitleTypeOK, WaitInv, NEW j \in Jobs, JobStep(j)
    PROVE  Begins(j) /\ WaitOK(j)' /\ faults' \in 0..MaxFaults
<1> USE DEF planVars, chatVars
<1>1. WaitOK(j) /\ KindOK(j) /\ PaidOK(j) /\ faults \in 0..MaxFaults
  BY DEF WaitInv, JobInv, JobOK
<1>2. faults' \in 0..MaxFaults
  <2>1. CASE UNCHANGED faults
    BY <1>1, <2>1
  <2>2. CASE faults < MaxFaults /\ faults' = faults + 1
    BY <1>1, <2>2, CallAssumption
  <2>3. CASE Research(j)
    BY <2>1, <2>2, <2>3
    DEF Research, Calling, Respond, Transient, Raise, RecordUsage, UsageRefused, GatherContext,
        Judge, LogAgent, RememberResult, FileCase, LogWorkflow, WriteRefused, callVars
  <2>4. CASE React(j)
    BY <2>1, <2>2, <2>4
    DEF React, Calling, Respond, Transient, Raise, RecordUsage, UsageRefused, Recall, Choose,
        UseTool, ReadPlan, CommitPlan, PlanRefused, Trace, LogReact, RememberTrace, callVars
  <2> QED BY <2>1, <2>2, <2>3, <2>4
          DEF JobStep, Reply, PrepareRead, PrepareCommit, Begin, RunAutomation, LinkCase,
              Answer, AnswerError, ChatRefused, callVars
<1> SUFFICES Begins(j) /\ WaitOK(j)'
  BY <1>2
<1>3. ASSUME \A i \in Jobs \ {j} : update[i] = NoUpdate => update'[i] = NoUpdate,
             \A i \in Jobs \ {j} : seen[i] = Unseen => seen'[i] = Unseen,
             \/ UNCHANGED work[j].stage /\ update'[j] \in {update[j], NoUpdate}
                                        /\ seen'[j] \in {seen[j], Unseen}
             \/ update'[j] = NoUpdate /\ seen'[j] = Unseen
             \/ update'[j] = NoUpdate /\ work'[j].stage = "preparing"
             \/ seen'[j] = Unseen /\ work'[j].stage = "planning"
      PROVE  Begins(j) /\ WaitOK(j)'
  BY <1>1, <1>3 DEF Begins, WaitOK
<1>4. /\ work[j].stage # "planning" => update[j] = NoUpdate
      /\ work[j].stage # "preparing" => seen[j] = Unseen
  BY <1>1 DEF WaitOK
<1>5. ASSUME UNCHANGED <<update, seen>>,
             UNCHANGED work \/ work[j].stage \notin {"planning", "preparing"}
      PROVE  Begins(j) /\ WaitOK(j)'
  BY <1>3, <1>4, <1>5
<1>6. CASE Research(j) /\ UNCHANGED <<planVars, chatVars>>
  <2>1. UNCHANGED <<update, seen>>
    BY <1>6
  <2>2. UNCHANGED work \/ work[j].stage \notin {"planning", "preparing"}
    BY <1>6
    DEF Research, GatherContext, Judge, LogAgent, RememberResult, FileCase, LogWorkflow,
        WriteRefused
  <2> QED BY <1>5, <2>1, <2>2
<1>7. CASE ReadPlan(j) /\ UNCHANGED chatVars
  <2>1. UNCHANGED seen /\ seen[j] = Unseen /\ update[j] = NoUpdate /\ work[j].stage = "planning"
    BY <1>4, <1>7 DEF ReadPlan
  <2>2. CASE UNCHANGED update
    BY <1>3, <2>1, <2>2
  <2>3. CASE UNCHANGED work /\ \E u : update' = [update EXCEPT ![j] = u]
    <3>1. \A i \in Jobs \ {j} : update'[i] = update[i]
      BY <2>3 DEF PlanTypeOK
    <3> QED BY <1>3, <2>1, <2>3, <3>1
  <2> QED BY <1>7, <2>2, <2>3 DEF ReadPlan
<1>8. CASE CommitPlan(j) /\ UNCHANGED chatVars
  <2>1. UNCHANGED seen /\ seen[j] = Unseen
    BY <1>4, <1>8 DEF CommitPlan
  <2> QED BY <1>3, <1>8, <2>1, CommitBegins
<1>9. CASE PlanRefused(j) /\ UNCHANGED chatVars
  <2>1. UNCHANGED seen /\ seen[j] = Unseen
    BY <1>4, <1>9 DEF PlanRefused
  <2>2. \A i \in Jobs : (i = j \/ update[i] = NoUpdate) => update'[i] = NoUpdate
    BY <1>9 DEF PlanRefused, PlanTypeOK
  <2> QED BY <1>3, <2>1, <2>2
<1>10. CASE React(j) /\ UNCHANGED chatVars /\ ~(ReadPlan(j) \/ CommitPlan(j) \/ PlanRefused(j))
  <2>1. UNCHANGED <<update, seen>>
    BY <1>10 DEF React, Recall, Choose, UseTool, Trace, LogReact, RememberTrace
  <2>2. UNCHANGED work \/ work[j].stage \notin {"planning", "preparing"}
    BY <1>10 DEF React, Recall, Choose, UseTool, Trace, LogReact, RememberTrace
  <2> QED BY <1>5, <2>1, <2>2
<1>11. CASE PrepareRead(j)
  <2>1. UNCHANGED update /\ update[j] = NoUpdate /\ seen[j] = Unseen
    BY <1>4, <1>11 DEF PrepareRead
  <2>2. CASE UNCHANGED seen
    BY <1>3, <2>1, <2>2
  <2>3. CASE /\ \E action \in Actions[j] :
                    work' = [work EXCEPT ![j].stage = "preparing", ![j].kind = action]
             /\ \E u : seen' = [seen EXCEPT ![j] = u]
    <3>1. work'[j].stage = "preparing"
      BY <2>3 DEF JobTypeOK, WorkRow
    <3>2. \A i \in Jobs \ {j} : seen'[i] = seen[i]
      BY <2>3 DEF TitleTypeOK
    <3> QED BY <1>3, <2>1, <3>1, <3>2
  <2> QED BY <1>11, <2>2, <2>3 DEF PrepareRead
<1>12. CASE PrepareCommit(j)
  <2> DEFINE later == [seen EXCEPT ![j] = Unseen]
  <2>1. UNCHANGED update /\ update[j] = NoUpdate
    BY <1>4, <1>12 DEF PrepareCommit
  <2>2. \A i \in Jobs : (i = j \/ seen[i] = Unseen) => later[i] = Unseen
    BY DEF TitleTypeOK
  <2>3. seen' = later \/ Cross(Of(j), later, edit)
    BY <1>12 DEF PrepareCommit
  <2> HIDE DEF later
  <2>4. \A i \in Jobs : (i = j \/ seen[i] = Unseen) => seen'[i] = Unseen
    BY <2>2, <2>3, CrossBegins
  <2> QED BY <1>3, <2>1, <2>4
<1>13. CASE ChatRefused(j)
  <2>1. UNCHANGED update /\ update[j] = NoUpdate
    BY <1>1, <1>4, <1>13 DEF ChatRefused, Ready
  <2>2. \A i \in Jobs : (i = j \/ seen[i] = Unseen) => seen'[i] = Unseen
    BY <1>4, <1>13 DEF ChatRefused, Ready, TitleTypeOK
  <2> QED BY <1>3, <2>1, <2>2
<1>14. CASE Begin(j) \/ RunAutomation(j) \/ LinkCase(j) \/ Answer(j) \/ AnswerError(j)
  <2>1. UNCHANGED <<update, seen>>
    BY <1>14 DEF Begin, RunAutomation, LinkCase, Answer, AnswerError
  <2>2. work[j].stage \notin {"planning", "preparing"}
    BY <1>14 DEF Begin, RunAutomation, LinkCase, Answer, AnswerError, Ready
  <2> QED BY <1>5, <2>1, <2>2
<1> QED BY <1>6, <1>7, <1>8, <1>9, <1>10, <1>11, <1>12, <1>13, <1>14 DEF JobStep, Reply

LEMMA NextWaits ==
    ASSUME JobTypeOK, JobInv, PlanTypeOK, TitleTypeOK, WaitInv, [Next]_vars
    PROVE  WaitInv'
<1> USE DEF planVars, chatVars
<1>1. ASSUME NEW j \in Jobs, JobStep(j) PROVE WaitInv'
  <2>1. Begins(j) /\ WaitOK(j)' /\ faults' \in 0..MaxFaults
    BY <1>1, WaitStep
  <2>2. ASSUME NEW i \in Jobs \ {j} PROVE WaitOK(i)'
    <3>1. work'[i] = work[i]
      BY <1>1, JobFrame DEF JobSame
    <3>2. WaitOK(i)
      BY DEF WaitInv
    <3> QED BY <2>1, <3>1, <3>2 DEF Begins, WaitOK
  <2> QED BY <2>1, <2>2 DEF WaitInv
<1>2. CASE Crash
  <2>1. faults' \in 0..MaxFaults
    BY <1>2, CallAssumption DEF Crash, WaitInv
  <2>2. update' = [j \in Jobs |-> NoUpdate] /\ seen' = [j \in Jobs |-> Unseen]
    BY <1>2 DEF Crash
  <2> QED BY <2>1, <2>2 DEF WaitInv, WaitOK
<1>3. ASSUME NEW e \in Editors, NEW title \in NewTitles, EditCommit(e, title) PROVE WaitInv'
  <2>1. UNCHANGED <<work, faults, update>>
    BY <1>3 DEF EditCommit, reactVars, callVars
  <2>2. \A j \in Jobs : seen[j] = Unseen => seen'[j] = Unseen
    BY <1>3, CrossBegins DEF EditCommit
  <2> QED BY <2>1, <2>2 DEF WaitInv, WaitOK
<1>4. CASE UNCHANGED <<work, faults, update, seen>>
  BY <1>4 DEF WaitInv, WaitOK
<1>5. ASSUME \/ \E c \in Conversations, u \in Users : Create(c, u)
             \/ \E e \in Editors, c \in Conversations : EditRead(e, c)
             \/ UNCHANGED vars
      PROVE  UNCHANGED <<work, faults, update, seen>>
  BY <1>5 DEF Create, EditRead, vars, reactVars, callVars
<1> QED BY <1>1, <1>2, <1>3, <1>4, <1>5 DEF Next, JobStep

---------------------------------------------------------------------------
(* The theorems.                                                           *)

LEMMA InvParts == Inv <=> /\ JobTypeOK /\ JobInv
                          /\ PlanTypeOK /\ PlanInv
                          /\ TitleTypeOK /\ TitleInv
                          /\ WaitInv
<1>1. Inv => /\ JobTypeOK /\ JobInv /\ PlanTypeOK /\ PlanInv /\ TitleTypeOK /\ TitleInv /\ WaitInv
  BY TypeHasJobs
  DEF Inv, TypeOK, HistoryTypeOK, PlanTypeOK, TitleTypeOK, WaitInv, WaitOK, Row
<1>2. ASSUME JobTypeOK, PlanTypeOK, TitleTypeOK, WaitInv PROVE TypeOK /\ HistoryTypeOK
  <2>1. \A j \in Jobs : update[j].plan \in Plans \cup {"none"}
    BY <1>2 DEF PlanTypeOK, Update, NoUpdate
  <2>2. \A e \in Editors : edit[e].conversation \in Conversations \cup {"none"}
    BY <1>2 DEF TitleTypeOK, Edit, NoEdit
  <2>3. HistoryTypeOK
    BY <1>2 DEF PlanTypeOK, TitleTypeOK, HistoryTypeOK
  <2>4. TypeOK
    BY <1>2, <2>1, <2>2
    DEF TypeOK, JobTypeOK, PlanTypeOK, TitleTypeOK, WaitInv, WaitOK, Row, CallRow, WorkRow,
        CaseList, Message
  <2> QED BY <2>3, <2>4
<1> QED BY <1>1, <1>2 DEF Inv

LEMMA InitInv == Init => Inv
<1> SUFFICES ASSUME Init PROVE Inv
  OBVIOUS
<1> USE DEF Init, ReActInit, AgentsInit, CallInit
<1>1. JobTypeOK
  <2>1. Unemployed \in WorkRow
    BY PanelAssumption DEF Unemployed, WorkRow, Kinds, Stages
  <2> QED BY <2>1, NoCallType DEF JobTypeOK, CaseList
<1>2. ASSUME NEW j \in Jobs PROVE JobOK(j)
  <2>1. work[j] = Unemployed /\ call[j] = NoCall
    OBVIOUS
  <2>2. Logged(j) = {} /\ Remembered(j) = {} /\ CasesOf(work[j].stage) = <<>>
    BY <2>1 DEF Logged, Remembered, CasesOf, Unemployed
  <2>3. LedgerOK(j)
    BY <2>1, <2>2 DEF LedgerOK, Once, Unemployed, Filed
  <2> QED BY <2>1, <2>3
          DEF JobOK, KindOK, PaidOK, MessagesOK, Unemployed, NoCall, ResearchStage, ChatStage,
              SharedStage
<1>3. PlanTypeOK /\ PlanInv
  BY NothingInProgress DEF PlanTypeOK, PlanInv, PlanAgreesWhenApart, Row
<1>4. TitleTypeOK /\ TitleInv
  BY UnseenType DEF TitleTypeOK, TitleInv, TitleKeptWhenApart, Titles
<1>5. WaitInv
  BY CallAssumption DEF WaitInv, WaitOK
<1> QED BY <1>1, <1>2, <1>3, <1>4, <1>5, InvParts DEF JobInv

LEMMA NextInv == Inv /\ [Next]_vars => Inv'
<1> SUFFICES ASSUME Inv, [Next]_vars PROVE Inv'
  OBVIOUS
<1>1. /\ JobTypeOK /\ JobInv /\ PlanTypeOK /\ PlanInv
      /\ TitleTypeOK /\ TitleInv /\ WaitInv
  BY InvParts
<1>2. JobTypeOK' /\ JobInv'
  BY <1>1, NextJobs
<1>3. PlanTypeOK' /\ PlanInv'
  BY <1>1, NextPlans
<1>4. TitleTypeOK' /\ TitleInv'
  BY <1>1, NextTitles
<1>5. WaitInv'
  BY <1>1, NextWaits
<1>6. (/\ JobTypeOK /\ JobInv /\ PlanTypeOK /\ PlanInv
       /\ TitleTypeOK /\ TitleInv /\ WaitInv)' => Inv'
  BY InvParts, PTL
<1> QED BY <1>2, <1>3, <1>4, <1>5, <1>6

\* All parts of the invariant hold in every state that the requests, edits, refused
\* writes and crashes of services/chat/service.py and the two runtimes can reach.
THEOREM Invariant == Spec => []Inv
  BY InitInv, NextInv, PTL DEF Spec

\* The tables, and the history the properties need, keep their types.
THEOREM TypeCorrect == Spec => []TypeOK
<1>1. Inv => TypeOK
  BY DEF Inv
<1> QED BY <1>1, Invariant, PTL

LEMMA MessagesOf ==
    ASSUME JobTypeOK, JobInv, NEW j \in Jobs
    PROVE  /\ messages[j] \in {<<>>, Question, Answered("completed"), Answered("error")}
           /\ messages[j] = Answered("completed") => work[j].stage = "answered"
<1>1. MessagesOK(j)
  BY DEF JobInv, JobOK
<1>2. Answered("completed")[2] # Answered("error")[2]
  BY DEF Answered, Said
<1>3. Len(Answered("completed")) # Len(Question) /\ Len(Answered("completed")) # Len(<<>>)
  BY DEF Answered, Question
<1> QED BY <1>1, <1>2, <1>3 DEF MessagesOK

LEMMA AnswerPosted ==
    ASSUME JobTypeOK, JobInv, NEW j \in Jobs, Posted(j, "assistant", "completed")
    PROVE  work[j].stage = "answered"
<1>1. PICK n \in DOMAIN messages[j] : messages[j][n] = Said("assistant", "completed")
  BY DEF Posted, Said
<1>2. messages[j] # <<>>
  BY <1>1
<1>3. messages[j] # Question
  BY <1>1 DEF Question, Said
<1>4. messages[j] # Answered("error")
  BY <1>1 DEF Answered, Said
<1> QED BY <1>2, <1>3, <1>4, MessagesOf

LEMMA InvAnswered == Inv => AnsweredIsRecorded
<1> SUFFICES ASSUME Inv, NEW j \in Jobs, Posted(j, "assistant", "completed")
             PROVE  CASE work[j].kind = "research" ->
                            /\ \A t \in Agent : runs[j][t] = 1 /\ memories[j][t] = 1
                            /\ runs[j]["research"] = 1
                            /\ cases[j] = <<"own", "chat">>
                      [] work[j].kind = "chat" ->
                            runs[j]["react_agent"] = 1 /\ memories[j]["react_agent"] = 1
                      [] OTHER -> TRUE
  BY DEF AnsweredIsRecorded
<1>1. work[j].stage = "answered" /\ LedgerOK(j)
  BY InvParts, AnswerPosted DEF JobInv, JobOK
<1>2. runs[j] = Once(Logged(j)) /\ memories[j] = Once(Remembered(j))
  BY <1>1 DEF LedgerOK, Stopped
<1>3. ASSUME work[j].kind = "research"
      PROVE  /\ \A t \in Agent : runs[j][t] = 1 /\ memories[j][t] = 1
             /\ runs[j]["research"] = 1
             /\ cases[j] = <<"own", "chat">>
  <2>1. work[j].agent = Len(Panel) /\ cases[j] = <<"own", "chat">>
    BY <1>1, <1>3 DEF LedgerOK, Stopped, Filed, CasesOf
  <2>2. FirstAgents(Len(Panel)) = Agent
    BY DEF FirstAgents, Agent
  <2>3. Logged(j) = Agent \cup {"research"} /\ Remembered(j) = Agent
    BY <1>1, <1>3, <2>1, <2>2 DEF Logged, Remembered, Filed
  <2> QED BY <1>2, <2>1, <2>3 DEF Once, RunTypes
<1>4. ASSUME work[j].kind = "chat"
      PROVE  runs[j]["react_agent"] = 1 /\ memories[j]["react_agent"] = 1
  <2>1. "react_agent" \in Logged(j) /\ "react_agent" \in Remembered(j)
    BY <1>1, <1>4 DEF Logged, Remembered
  <2> QED BY <1>2, <2>1 DEF Once, RunTypes
<1> QED BY <1>3, <1>4

LEMMA InvTwice == Inv => NothingTwice
<1> SUFFICES ASSUME Inv, NEW j \in Jobs
             PROVE  /\ \A t \in RunTypes : memories[j][t] <= runs[j][t] /\ runs[j][t] <= 1
                    /\ \A n \in DOMAIN messages[j] :
                          /\ n <= 2
                          /\ messages[j][n].role = IF n = 1 THEN "user" ELSE "assistant"
  BY DEF NothingTwice
<1>1. \A t \in RunTypes : memories[j][t] <= runs[j][t] /\ runs[j][t] <= 1
  BY InvParts DEF JobInv, JobOK, LedgerOK
<1>2. messages[j] \in {<<>>, Question, Answered("completed"), Answered("error")}
  BY InvParts, MessagesOf
<1>3. ASSUME NEW n \in DOMAIN messages[j]
      PROVE  n <= 2 /\ messages[j][n].role = IF n = 1 THEN "user" ELSE "assistant"
  BY <1>2, <1>3 DEF Question, Answered, Said
<1> QED BY <1>1, <1>3

LEMMA InvPaid == Inv => PaidIsRecorded
  BY InvParts DEF JobInv, JobOK, PaidOK, PaidIsRecorded, Stopped

\* An answer is shown only when all that it rests on has been written down: the agents'
\* runs and memories and the case, twice, of research; the run and its memory of a chat.
THEOREM AnswersAreRecorded == Spec => []AnsweredIsRecorded
  BY InvAnswered, Invariant, PTL

\* Fallbacks, second attempts and refused writes leave no run, no memory and no message
\* of a request twice, and its answer comes after its question.
THEOREM NothingIsTwice == Spec => []NothingTwice
  BY InvTwice, Invariant, PTL

\* Each response of a model has its row in llm_calls once its request has an answer,
\* however often the call was retried and whatever became of the reply.
THEOREM PaymentsAreRecorded == Spec => []PaidIsRecorded
  BY InvPaid, Invariant, PTL

\* A plan has at most one step in progress and the status that follows from its steps,
\* whichever columns the updates of services/harness/plans.py leave out, unless two
\* updates of it overlap.
THEOREM PlansAgree == Spec => []PlanAgreesWhenApart
<1>1. Inv => PlanAgreesWhenApart
  BY DEF Inv, PlanInv
<1> QED BY <1>1, Invariant, PTL

\* The title that a user gave stays, whatever is asked and edited afterwards, unless
\* two requests overlap between reading the title and writing it.
THEOREM TitlesAreKept == Spec => []TitleKeptWhenApart
<1>1. Inv => TitleKeptWhenApart
  BY DEF Inv, TitleInv
<1> QED BY <1>1, Invariant, PTL

=============================================================================
