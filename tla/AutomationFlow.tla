--------------------------- MODULE AutomationFlow ---------------------------
(***************************************************************************)
(* The automated trading plan (services/automation/flow.py): a pipeline of *)
(* steps whose outputs are checkpointed (checkpoint.py), an order at its   *)
(* end, and a record in agent_runs that makes a run known to retry and     *)
(* replay (api/v1/endpoints/automation.py, agents/run_logger.py).          *)
(*                                                                         *)
(* A call is one execution of AutomationFlow.run on some thread; calls     *)
(* share the database only.  Each step is what a call does up to its next  *)
(* commit.  CheckpointStore.save is taken as one step: two sessions that   *)
(* save the same new step at once insert two rows, of which any completed  *)
(* one counts.  The research step also writes an agent_runs row of its     *)
(* own, under a run id of its own: `logged' holds the automation's rows.   *)
(***************************************************************************)
EXTENDS Integers, Sequences, FiniteSets

CONSTANTS Calls, Runs,
          NoRun,
          Modes,             \* the modes that clients ask for
          Signals,           \* what a strategy may answer
          UsesFundamentals,  \* the strategy reads the fundamentals
          MaxKills           \* bound on threads cut off by a crash

ASSUME AutomationAssumption ==
    /\ NoRun \notin Runs
    /\ Modes \subseteq {"manual", "paper_auto", "live_auto"}
    /\ Signals \subseteq {"BUY", "SELL", "HOLD"}
    /\ UsesFundamentals \in BOOLEAN
    /\ MaxKills \in Nat

Pipeline == <<"account_snapshot", "market_quote", "market_kline", "market_fundamentals",
              "multi_agent_research", "strategy_signal", "backtest", "strategy_review",
              "risk_check", "risk_review", "explanation", "order">>
Steps == {Pipeline[i] : i \in 1..Len(Pipeline)}

VARIABLES
    checkpoints,  \* run_checkpoints: the status of each step of each run
    logged,       \* agent_runs: what is recorded of each run
    orders,       \* calls that have stored a paper order
    cases,        \* investment cases: the call that created them, and as what
    stage, pc,    \* where each call is
    kind,         \* run, retry or replay
    run, mode,    \* its run id and its request
    cached,       \* the steps it restores from checkpoints
    signal, level,\* what its strategy and its risk check answered
    broken,       \* history: some function that the call depends on has raised
    kills

db == <<checkpoints, logged, orders, cases>>
call == <<kind, run, mode, cached>>
answers == <<signal, level>>
vars == <<db, stage, pc, call, answers, broken, kills>>

NoLog == [status |-> "none", mode |-> "manual", executed |-> FALSE]
Ended == {"returned", "raised", "dead"}
Stage == {"idle", "entered", "loading", "resolving", "step", "work", "holding", "save",
          "failing", "case", "record"} \cup Ended

Init ==
    /\ checkpoints = [r \in Runs |-> [s \in Steps |-> "none"]]
    /\ logged = [r \in Runs |-> NoLog]
    /\ orders = {}
    /\ cases = {}
    /\ stage = [c \in Calls |-> "idle"]
    /\ pc = [c \in Calls |-> 1]
    /\ kind = [c \in Calls |-> "run"]
    /\ run = [c \in Calls |-> NoRun]
    /\ mode = [c \in Calls |-> "manual"]
    /\ cached = [c \in Calls |-> {}]
    /\ signal = [c \in Calls |-> "none"]
    /\ level = [c \in Calls |-> "none"]
    /\ broken = [c \in Calls |-> FALSE]
    /\ kills = 0

Goto(c, s) == stage' = [stage EXCEPT ![c] = s]
Breaks(c) == broken' = [broken EXCEPT ![c] = TRUE]

\* A run id that uuid4 may draw, and the one it draws.
Fresh == {r \in Runs : logged[r] = NoLog /\ \A c \in Calls : run[c] # r}
NewRun == CHOOSE r \in Fresh : TRUE

---------------------------------------------------------------------------
(* The three endpoints.                                                    *)

Begin(c, k, r, m) ==
    /\ stage[c] = "idle"
    /\ kind' = [kind EXCEPT ![c] = k]
    /\ run' = [run EXCEPT ![c] = r]
    /\ mode' = [mode EXCEPT ![c] = m]
    /\ Goto(c, "entered")
    /\ UNCHANGED <<db, pc, cached, answers, broken, kills>>

\* A call that is going to be refused makes no use of its run id.
StartRun(c, m) ==
    /\ Fresh # {}
    /\ Begin(c, "run", IF m = "live_auto" THEN NoRun ELSE NewRun, m)

\* Both take the request from the record of the run, if there is one.
Recall(c, k, r) == logged[r] # NoLog /\ Begin(c, k, r, logged[r].mode)

---------------------------------------------------------------------------
(* AutomationFlow.run, up to its first step.                               *)

\* live_auto is refused; the failure is recorded under a new run id.
RefuseLive(c) ==
    /\ stage[c] = "entered"
    /\ mode[c] = "live_auto"
    /\ Fresh # {}
    /\ logged' = [logged EXCEPT ![NewRun] =
                     [status |-> "failed", mode |-> "live_auto", executed |-> FALSE]]
    /\ Goto(c, "raised")
    /\ UNCHANGED <<checkpoints, orders, cases, pc, call, answers, broken, kills>>

\* Only a replay clears.
Clear(c) ==
    /\ stage[c] = "entered"
    /\ mode[c] # "live_auto"
    /\ checkpoints' = IF kind[c] = "replay"
                      THEN [checkpoints EXCEPT ![run[c]] = [s \in Steps |-> "none"]]
                      ELSE checkpoints
    /\ Goto(c, "loading")
    /\ UNCHANGED <<logged, orders, cases, pc, call, answers, broken, kills>>

\* Only a retry resumes.
LoadCheckpoints(c) ==
    /\ stage[c] = "loading"
    /\ cached' = [cached EXCEPT ![c] =
                     IF kind[c] = "retry"
                     THEN {s \in Steps : checkpoints[run[c]][s] = "completed"} ELSE {}]
    /\ Goto(c, "resolving")
    /\ UNCHANGED <<db, pc, kind, run, mode, answers, broken, kills>>

\* Market and execution providers; an unknown or unavailable one raises.
Resolve(c) ==
    /\ stage[c] = "resolving"
    /\ \/ Goto(c, "step") /\ UNCHANGED broken
       \/ Goto(c, "raised") /\ Breaks(c)
    /\ UNCHANGED <<db, pc, call, answers, kills>>

---------------------------------------------------------------------------
(* The steps.  A step restored from its checkpoint yields the JSON object  *)
(* that was stored, not the model it was made from: whoever reads an       *)
(* attribute of it raises.                                                 *)

\* Outputs whose attributes are read on the way to a step, outside its try block.
ReadBefore(s) ==
    CASE s = "strategy_signal" -> {"multi_agent_research"}
      [] s = "risk_check" -> {"strategy_signal", "market_quote"}
      [] s = "order" -> {"strategy_review", "risk_review"}
      [] OTHER -> {}

\* Outputs whose attributes are read by the function of a step.
ReadInside(s) ==
    CASE s = "strategy_signal" ->
             {"market_kline"} \cup (IF UsesFundamentals THEN {"market_fundamentals"} ELSE {})
      [] s = "backtest" -> {"market_kline"}
      [] s = "strategy_review" -> {"strategy_signal", "backtest"}
      [] s = "risk_check" -> {"account_snapshot"}
      [] s = "risk_review" -> {"strategy_signal", "risk_check"}
      [] s = "explanation" -> {"strategy_signal", "backtest", "risk_check"}
      [] OTHER -> {}

At(c) == Pipeline[pc[c]]
NextStep(c) == Goto(c, "step") /\ pc' = [pc EXCEPT ![c] = @ + 1]

\* RiskGuard.check approves what is not HIGH, and no HOLD outside manual mode.
Approved(c) == level[c] # "HIGH" /\ (mode[c] # "manual" => signal[c] # "HOLD")
OrderRequest(c) == signal[c] # "HOLD"
\* Mutant: the verdict of the risk check is not asked for.
Submits_Unapproved(c) == mode[c] = "paper_auto" /\ OrderRequest(c)

Submits(c) == mode[c] = "paper_auto" /\ Approved(c) /\ OrderRequest(c)

\* A restored risk check has no attribute approved, a restored order no order_id.
Unreadable(c) ==
    \/ ReadBefore(At(c)) \cap cached[c] # {}
    \/ At(c) = "order" /\ mode[c] = "paper_auto" /\ "risk_check" \in cached[c]
    \/ At(c) = "order" /\ Submits(c) /\ "order" \in cached[c]

Stumble(c) ==
    /\ stage[c] = "step"
    /\ Unreadable(c)
    /\ Goto(c, "raised")
    /\ UNCHANGED <<db, pc, call, answers, broken, kills>>

\* The LLM profile is resolved just before the research step.
NoProfile(c) ==
    /\ stage[c] = "step"
    /\ At(c) = "multi_agent_research"
    /\ Goto(c, "raised")
    /\ Breaks(c)
    /\ UNCHANGED <<db, pc, call, answers, kills>>

Restore(c) ==
    /\ stage[c] = "step"
    /\ ~Unreadable(c)
    /\ At(c) # "order"
    /\ At(c) \in cached[c]
    /\ NextStep(c)
    /\ UNCHANGED <<db, call, answers, broken, kills>>

Save(c, status) == checkpoints' = [checkpoints EXCEPT ![run[c]][At(c)] = status]

\* Mutant: a step is first written to its checkpoint when it has ended.
SaveRunning_AtEnd(c) ==
    /\ stage[c] = "step"
    /\ ~Unreadable(c)
    /\ At(c) \notin cached[c]
    /\ At(c) = "order" => Submits(c)
    /\ Goto(c, "work")
    /\ UNCHANGED <<db, pc, call, answers, broken, kills>>

SaveRunning(c) ==
    /\ stage[c] = "step"
    /\ ~Unreadable(c)
    /\ At(c) \notin cached[c]
    /\ At(c) = "order" => Submits(c)
    /\ Save(c, "running")
    /\ Goto(c, "work")
    /\ UNCHANGED <<logged, orders, cases, pc, call, answers, broken, kills>>

SkipOrder(c) ==
    /\ stage[c] = "step"
    /\ ~Unreadable(c)
    /\ At(c) = "order"
    /\ ~Submits(c)
    /\ Goto(c, "case")
    /\ UNCHANGED <<db, pc, call, answers, broken, kills>>

\* The function of the step returns.
Work(c) ==
    /\ stage[c] = "work"
    /\ At(c) # "order"
    /\ ReadInside(At(c)) \cap cached[c] = {}
    /\ IF At(c) = "strategy_signal"
       THEN \E s \in Signals : signal' = [signal EXCEPT ![c] = s]
       ELSE UNCHANGED signal
    /\ IF At(c) = "risk_check"
       THEN \E l \in {"LOW", "HIGH"} : level' = [level EXCEPT ![c] = l]
       ELSE UNCHANGED level
    /\ cases' = IF At(c) = "multi_agent_research" THEN cases \cup {<<c, "research">>}
                ELSE cases
    /\ Goto(c, "save")
    /\ UNCHANGED <<checkpoints, logged, orders, pc, call, broken, kills>>

\* It raises: on a restored output, or for a reason of its own, which for the research
\* may be its own record in agent_runs, written after its case.
WorkRaises(c) ==
    /\ stage[c] = "work"
    /\ Goto(c, "failing")
    /\ IF ReadInside(At(c)) \cap cached[c] # {} THEN UNCHANGED broken ELSE Breaks(c)
    /\ \/ UNCHANGED cases
       \/ At(c) = "multi_agent_research" /\ cases' = cases \cup {<<c, "research">>}
    /\ UNCHANGED <<checkpoints, logged, orders, pc, call, answers, kills>>

\* Mutant: the broker goes on when the order could not be stored.
SubmitOrder_Swallows(c) ==
    /\ stage[c] = "work"
    /\ At(c) = "order"
    /\ orders' \in {orders, orders \cup {c}}
    /\ Goto(c, "holding")
    /\ UNCHANGED <<checkpoints, logged, cases, pc, call, answers, broken, kills>>

\* MockBrokerAdapter.submit_order stores the order, then updates the holding.
SubmitOrder(c) ==
    /\ stage[c] = "work"
    /\ At(c) = "order"
    /\ orders' = orders \cup {c}
    /\ Goto(c, "holding")
    /\ UNCHANGED <<checkpoints, logged, cases, pc, call, answers, broken, kills>>

UpdateHolding(c) ==
    /\ stage[c] = "holding"
    /\ \/ Goto(c, "save") /\ UNCHANGED broken
       \/ Goto(c, "failing") /\ Breaks(c)
    /\ UNCHANGED <<db, pc, call, answers, kills>>

\* Mutant: the order is not known to be the last step.
SaveCompleted_NoLast(c) ==
    /\ stage[c] = "save"
    /\ Save(c, "completed")
    /\ NextStep(c)
    /\ UNCHANGED <<logged, orders, cases, call, answers, broken, kills>>

SaveCompleted(c) ==
    /\ stage[c] = "save"
    /\ Save(c, "completed")
    /\ IF At(c) = "order" THEN Goto(c, "case") /\ UNCHANGED pc ELSE NextStep(c)
    /\ UNCHANGED <<logged, orders, cases, call, answers, broken, kills>>

SaveFailed(c) ==
    /\ stage[c] = "failing"
    /\ Save(c, "failed")
    /\ Goto(c, "raised")
    /\ UNCHANGED <<logged, orders, cases, pc, call, answers, broken, kills>>

---------------------------------------------------------------------------
(* After the steps.                                                        *)

CreateCase(c) ==
    /\ stage[c] = "case"
    /\ \/ Goto(c, "record") /\ cases' = cases \cup {<<c, "automation">>} /\ UNCHANGED broken
       \/ Goto(c, "raised") /\ UNCHANGED cases /\ Breaks(c)
    /\ UNCHANGED <<checkpoints, logged, orders, pc, call, answers, kills>>

\* agent_runs.run_id is unique: the second record of a run raises IntegrityError.
Record(c) ==
    /\ stage[c] = "record"
    /\ IF logged[run[c]] = NoLog
       THEN /\ logged' = [logged EXCEPT ![run[c]] =
                             [status |-> "success", mode |-> mode[c], executed |-> Submits(c)]]
            /\ Goto(c, "returned")
       ELSE UNCHANGED logged /\ Goto(c, "raised")
    /\ UNCHANGED <<checkpoints, orders, cases, pc, call, answers, broken, kills>>

\* The thread goes with its process.
Kill(c) ==
    /\ kills < MaxKills
    /\ stage[c] \notin Ended \cup {"idle"}
    /\ kills' = kills + 1
    /\ Goto(c, "dead")
    /\ UNCHANGED <<db, pc, call, answers, broken>>

Advance(c) ==
    \/ RefuseLive(c) \/ Clear(c) \/ LoadCheckpoints(c) \/ Resolve(c)
    \/ Stumble(c) \/ NoProfile(c) \/ Restore(c) \/ SaveRunning(c) \/ SkipOrder(c)
    \/ Work(c) \/ WorkRaises(c) \/ SubmitOrder(c) \/ UpdateHolding(c)
    \/ SaveCompleted(c) \/ SaveFailed(c) \/ CreateCase(c) \/ Record(c)

Next ==
    \E c \in Calls :
        \/ \E m \in Modes : StartRun(c, m)
        \/ \E r \in Runs, k \in {"retry", "replay"} : Recall(c, k, r)
        \/ Advance(c)
        \/ Kill(c)

Spec == Init /\ [][Next]_vars

---------------------------------------------------------------------------
(* Properties.                                                             *)

TypeOK ==
    /\ checkpoints \in [Runs -> [Steps -> {"none", "running", "completed", "failed"}]]
    /\ logged \in [Runs -> [status : {"none", "success", "failed"},
                            mode : {"manual", "paper_auto", "live_auto"}, executed : BOOLEAN]]
    /\ orders \subseteq Calls
    /\ cases \subseteq Calls \X {"research", "automation"}
    /\ stage \in [Calls -> Stage]
    /\ pc \in [Calls -> 1..Len(Pipeline)]
    /\ kind \in [Calls -> {"run", "retry", "replay"}]
    /\ run \in [Calls -> Runs \cup {NoRun}]
    /\ mode \in [Calls -> {"manual", "paper_auto", "live_auto"}]
    /\ cached \in [Calls -> SUBSET Steps]
    /\ signal \in [Calls -> {"none", "BUY", "SELL", "HOLD"}]
    /\ level \in [Calls -> {"none", "LOW", "HIGH"}]
    /\ broken \in [Calls -> BOOLEAN]
    /\ kills \in 0..MaxKills

\* Whatever is resumed, replayed or cut off, an order is stored only by a call in
\* paper_auto that itself obtained a signal to trade and itself passed the risk check:
\* neither verdict is ever taken from an earlier call's checkpoint.
OrderIsApproved ==
    \A c \in orders :
        /\ mode[c] = "paper_auto"
        /\ signal[c] \in {"BUY", "SELL"}
        /\ level[c] = "LOW"

\* A record of success in agent_runs says executed exactly if the order of the run is
\* stored, and the case that explains it is there as well.
LogIsTruthful ==
    \A r \in Runs : logged[r].status = "success" =>
        \E c \in Calls :
            /\ run[c] = r
            /\ kind[c] = "run"
            /\ logged[r].executed <=> c \in orders
            /\ <<c, "automation">> \in cases

\* No order without a trace: the step is in run_checkpoints before its order is stored,
\* and stays there whatever fails or dies, until a replay of the run clears it.
OrderLeavesTrace ==
    \A c \in orders :
        \/ checkpoints[run[c]]["order"] # "none"
        \/ \E d \in Calls \ {c} : run[d] = run[c] /\ kind[d] = "replay"

---------------------------------------------------------------------------
(* What the documents say, and some calls do not keep.                     *)

\* A retry resumes from the checkpoints: if nothing it depends on fails, it succeeds.
RetrySucceeds ==
    \A c \in Calls : kind[c] = "retry" /\ stage[c] = "raised" /\ mode[c] # "live_auto" =>
        broken[c]
=============================================================================
