-------------------------------- MODULE ReAct --------------------------------
(***************************************************************************)
(* The ReAct agent (services/agents/react_runtime.py), the tools that the  *)
(* model may use (services/agents/tool_registry.py) and the one tool that  *)
(* writes: todo_update, which stores a plan (services/harness/plans.py).   *)
(*                                                                         *)
(* A plan is its status and the statuses of its steps.  The model names    *)
(* the plan, so that two runs may update the same one.  An update reads    *)
(* the row and then commits the columns whose value it has changed.        *)
(***************************************************************************)
EXTENDS Agents, FiniteSets

CONSTANTS Plans,        \* plan ids
          StepLists,    \* the lists of step statuses that a model may send
          MaxSteps      \* max_steps of each run, 1 to 5

ASSUME ReActAssumption == MaxSteps \in [Jobs -> 1..5] /\ "none" \notin Plans

StepStatus == {"pending", "in_progress", "completed", "blocked", "cancelled"}
ASSUME StepListsAssumption == StepLists \subseteq Seq(StepStatus)

VARIABLES plans,   \* agent_plans
          update,  \* the update that each job has begun
          mixed    \* history: plans with an update that overlapped another

planVars == <<plans, update, mixed>>
reactVars == <<callVars, work, ledger, planVars>>

NoPlan == [status |-> "none", steps |-> <<>>]
NoUpdate == [plan |-> "none", steps |-> <<>>, loaded |-> NoPlan, crossed |-> FALSE]

ReActInit ==
    /\ AgentsInit
    /\ plans = [p \in Plans |-> NoPlan]
    /\ update = [j \in Jobs |-> NoUpdate]
    /\ mixed = {}

---------------------------------------------------------------------------
\* The memory context is fetched outside of the try block.  The mock provider is
\* never asked: its runs use three tools in a fixed order.
Recall(j) ==
    /\ work[j].stage = "recall"
    /\ \/ \E s \in {"tracing", "failed"} : Goto(j, s) /\ UNCHANGED call
       \/ Goto(j, "choosing") /\ Generate(j)
    /\ UNCHANGED <<faults, unpaid, ledger, planVars>>

\* What the model wants: a tool, a plan, or to conclude.  A ValueError, from the
\* provider, because the reply is no JSON object or because of its confidence_score,
\* leads to the fixed tools; other exceptions end the run.
Choose(j) ==
    /\ work[j].stage = "choosing"
    /\ \/ /\ call[j].stage = "recorded"
          /\ \E s \in {"tool", "planning", "logging", "retracing", "failed"} : Goto(j, s)
       \/ call[j].stage = "refused" /\ Goto(j, "retracing")
       \/ call[j].stage = "broken" /\ Goto(j, "failed")
    /\ NoMoreCall(j)
    /\ UNCHANGED <<faults, unpaid, ledger, planVars>>

\* An observation ends the step; after the last one the trace is the answer.
Observe(j) ==
    \/ /\ work[j].step < MaxSteps[j]
       /\ work' = [work EXCEPT ![j].stage = "choosing", ![j].step = @ + 1]
       /\ Generate(j)
    \/ /\ work[j].step = MaxSteps[j]
       /\ Goto(j, "logging")
       /\ UNCHANGED call

\* A tool that reads: an unknown one, or one without its arguments, is an observation
\* as well.  A provider may raise.
UseTool(j) ==
    /\ work[j].stage = "tool"
    /\ \/ Observe(j)
       \/ \E s \in {"retracing", "failed"} : Goto(j, s) /\ UNCHANGED call
    /\ UNCHANGED <<faults, unpaid, ledger, planVars>>

InProgress(steps) == Cardinality({n \in DOMAIN steps : steps[n] = "in_progress"})
AllCompleted(steps) == \A n \in DOMAIN steps : steps[n] = "completed"
StatusOf(steps) == IF AllCompleted(steps) THEN "completed" ELSE "active"

\* todo_update: the steps are checked (an error is an observation), the row is read.
ReadPlan(j) ==
    /\ work[j].stage = "planning"
    /\ update[j] = NoUpdate
    /\ \E p \in Plans, steps \in StepLists :
        \/ /\ InProgress(steps) > 1
           /\ Observe(j)
           /\ UNCHANGED update
        \/ /\ InProgress(steps) <= 1
           /\ update' = [update EXCEPT ![j] = [plan |-> p, steps |-> steps,
                                               loaded |-> plans[p], crossed |-> FALSE]]
           /\ UNCHANGED <<call, work>>
    /\ UNCHANGED <<faults, unpaid, ledger, plans, mixed>>

\* A column is written only when its new value differs from the one that was read.
Written(new, loaded, current) == IF new = loaded THEN current ELSE new

\* Mutant: the status is set when the plan is created, and never again.
Updated_StatusOnce(u, row) ==
    [status |-> IF u.loaded = NoPlan THEN StatusOf(u.steps) ELSE row.status,
     steps |-> Written(u.steps, u.loaded.steps, row.steps)]

Updated(u, row) ==
    [status |-> Written(StatusOf(u.steps), u.loaded.status, row.status),
     steps |-> Written(u.steps, u.loaded.steps, row.steps)]

\* Two runs that insert the same plan: the second gets an IntegrityError, which
\* nobody catches.
CommitPlan(j) ==
    LET u == update[j]
    IN  /\ work[j].stage = "planning"
        /\ u # NoUpdate
        /\ \/ /\ u.loaded = NoPlan /\ plans[u.plan] # NoPlan
              /\ Goto(j, "failed")
              /\ update' = [update EXCEPT ![j] = NoUpdate]
              /\ UNCHANGED <<call, plans, mixed>>
           \/ /\ u.loaded = NoPlan => plans[u.plan] = NoPlan
              /\ plans' = [plans EXCEPT ![u.plan] = Updated(u, @)]
              /\ mixed' = IF u.crossed THEN mixed \cup {u.plan} ELSE mixed
              /\ update' = [i \in Jobs |->
                    IF i = j THEN NoUpdate
                    ELSE [update[i] EXCEPT !.crossed = @ \/ update[i].plan = u.plan]]
              /\ Observe(j)
        /\ UNCHANGED <<faults, unpaid, ledger>>

PlanRefused(j) ==
    /\ work[j].stage = "planning" /\ update[j] # NoUpdate
    /\ faults < MaxFaults
    /\ faults' = faults + 1
    /\ update' = [update EXCEPT ![j] = NoUpdate]
    /\ Goto(j, "failed")
    /\ UNCHANGED <<call, unpaid, ledger, plans, mixed>>

\* The fixed tools, for the mock and as the fallback.  In the first case a ValueError
\* leads to a second attempt.
Trace(j) ==
    /\ work[j].stage \in {"tracing", "retracing"}
    /\ \/ \E s \in {"logging", "failed"} : Goto(j, s)
       \/ work[j].stage = "tracing" /\ Goto(j, "retracing")
    /\ UNCHANGED <<callVars, ledger, planVars>>

LogReact(j) ==
    /\ work[j].kind = "chat" /\ work[j].stage = "logging"
    /\ Log(j, "react_agent")
    /\ Goto(j, "remembering")
    /\ UNCHANGED <<callVars, memories, cases, planVars>>

RememberTrace(j) ==
    /\ work[j].kind = "chat" /\ work[j].stage = "remembering"
    /\ memories' = [memories EXCEPT ![j]["react_agent"] = @ + 1]
    /\ Goto(j, "delivered")
    /\ UNCHANGED <<callVars, runs, cases, planVars>>

React(j) ==
    \/ /\ work[j].kind = "chat"
       /\ Calling(j)
       /\ UNCHANGED <<work, ledger, planVars>>
    \/ Recall(j) \/ Choose(j) \/ UseTool(j) \/ ReadPlan(j) \/ CommitPlan(j) \/ PlanRefused(j)
    \/ Trace(j) \/ LogReact(j) \/ RememberTrace(j)
=============================================================================
