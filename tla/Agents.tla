-------------------------------- MODULE Agents --------------------------------
(***************************************************************************)
(* The research agents: run_json_agent (services/agents/runtime.py) and    *)
(* the workflow that runs four analysts and a committee and files their    *)
(* report as an investment case (services/agents/research_workflow.py).    *)
(*                                                                         *)
(* A step is a call out of the process or one commit.  Of a report only    *)
(* its existence is kept: the model's own and the fixed one are alike.     *)
(* What an agent reads before it asks the model (market data, memory and,  *)
(* for a long memory, summaries by the model: module ContextBudget) either *)
(* works or raises.                                                        *)
(***************************************************************************)
EXTENDS LLMCalls

CONSTANT Panel   \* the agents in the order of the workflow: analysts, then the committee

\* The names are those that agents/runtime.py gives to run_json_agent.
ASSUME PanelAssumption ==
    /\ Panel \in Seq(STRING) /\ Panel # <<>>
    /\ \A m, n \in 1..Len(Panel) : Panel[m] = Panel[n] => m = n
    /\ \A n \in 1..Len(Panel) : Panel[n] \notin {"research", "react_agent"}

VARIABLES work,     \* where each job is
          runs,     \* how many entries it has in agent_runs, by run_type
          memories, \* what it has written into the memory, by agent
          cases     \* its investment cases: "own", or "chat" with a conversation_id

ledger == <<runs, memories, cases>>

Agent == {Panel[n] : n \in 1..Len(Panel)}
RunTypes == Agent \cup {"research", "react_agent"}

Kinds == {"none", "chat", "research", "automation"}
Stages == {"idle", "preparing", "prepared",
           "context", "thinking", "logging", "remembering", "filing", "closing",
           "recall", "choosing", "tool", "planning", "tracing", "retracing",
           "running", "delivered", "linked", "failed",
           "answered", "errored", "unanswered", "rejected", "lost"}

Unemployed == [kind |-> "none", stage |-> "idle", agent |-> 1, step |-> 1]

AgentsInit ==
    /\ CallInit
    /\ work = [j \in Jobs |-> Unemployed]
    /\ runs = [j \in Jobs |-> [t \in RunTypes |-> 0]]
    /\ memories = [j \in Jobs |-> [t \in RunTypes |-> 0]]
    /\ cases = [j \in Jobs |-> <<>>]

Goto(j, s) == work' = [work EXCEPT ![j].stage = s]
NoMoreCall(j) == call' = [call EXCEPT ![j] = NoCall]

Current(j) == Panel[work[j].agent]

\* Tool registry and memory are asked before the try block: what they raise ends the
\* workflow.
GatherContext(j) ==
    /\ work[j].stage = "context"
    /\ \/ Goto(j, "thinking") /\ Generate(j)
       \/ Goto(j, "failed") /\ UNCHANGED call
    /\ UNCHANGED <<faults, unpaid, ledger>>

\* A reply of the wrong form and a ValueError are answered with the fallback; other
\* exceptions end the workflow.
Judge(j) ==
    /\ work[j].stage = "thinking"
    /\ \/ call[j].stage \in {"recorded", "refused"} /\ Goto(j, "logging")
       \/ call[j].stage = "broken" /\ Goto(j, "failed")
    /\ NoMoreCall(j)
    /\ UNCHANGED <<faults, unpaid, ledger>>

Log(j, type) == runs' = [runs EXCEPT ![j][type] = @ + 1]

LogAgent(j) ==
    /\ work[j].kind = "research" /\ work[j].stage = "logging"
    /\ Log(j, Current(j))
    /\ Goto(j, "remembering")
    /\ UNCHANGED <<callVars, memories, cases>>

RememberResult(j) ==
    /\ work[j].kind = "research" /\ work[j].stage = "remembering"
    /\ memories' = [memories EXCEPT ![j][Current(j)] = @ + 1]
    /\ \/ /\ work[j].agent < Len(Panel)
          /\ work' = [work EXCEPT ![j].stage = "context", ![j].agent = @ + 1]
       \/ /\ work[j].agent = Len(Panel)
          /\ Goto(j, "filing")
    /\ UNCHANGED <<callVars, runs, cases>>

FileCase(j) ==
    /\ work[j].stage = "filing"
    /\ cases' = [cases EXCEPT ![j] = Append(@, "own")]
    /\ Goto(j, "closing")
    /\ UNCHANGED <<callVars, runs, memories>>

LogWorkflow(j) ==
    /\ work[j].stage = "closing"
    /\ Log(j, "research")
    /\ Goto(j, "delivered")
    /\ UNCHANGED <<callVars, memories, cases>>

\* Mutant: `except Exception' around the whole of the run.
WriteRefused_Fallback(j) ==
    /\ work[j].stage \in {"logging", "remembering", "filing", "closing"}
    /\ faults < MaxFaults
    /\ faults' = faults + 1
    /\ Goto(j, "logging")
    /\ UNCHANGED <<call, unpaid, ledger>>

\* A commit that the database refuses raises no ValueError: nobody catches it here.
WriteRefused(j) ==
    /\ work[j].stage \in {"logging", "remembering", "filing", "closing"}
    /\ faults < MaxFaults
    /\ faults' = faults + 1
    /\ Goto(j, "failed")
    /\ UNCHANGED <<call, unpaid, ledger>>

Research(j) ==
    \/ work[j].kind = "research" /\ Calling(j) /\ UNCHANGED <<work, ledger>>
    \/ GatherContext(j) \/ Judge(j) \/ LogAgent(j) \/ RememberResult(j)
    \/ FileCase(j) \/ LogWorkflow(j) \/ WriteRefused(j)
=============================================================================
