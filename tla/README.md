# AlphaMesh in TLA+

AlphaMesh (`src/`) is a workbench for stock research, strategy validation and paper
trading: a FastAPI backend whose synchronous endpoints run on a thread pool, a
SQLAlchemy database, and a React client. This directory specifies the parts of the backend in which
something can go wrong that a test would hardly reach: what concurrent requests, pool
threads, failing steps, crashes and repeated calls do to the state that the components
share. The specifications are checked with TLC on small instances and the theorems are
proved with TLAPS for all values of the constants.

Paths below are relative to `src/backend/app/`.

## 1. The system

### How it runs

- Endpoints are `def` functions: each request is a thread of FastAPI's pool. Requests
  share the database and nothing else, with two exceptions: the `ThreadPoolExecutor` of
  `services/harness/background.py` and the memory index of `services/memory/index.py`.
- Every store opens a session per method (`SessionLocal`, `autoflush=False`) and commits
  once or a few times. There is no row lock, no version column and no conditional
  `UPDATE`: what a method decides, it decides on rows it has read before. An `UPDATE`
  names only the columns whose value differs from the value the session loaded, so a
  concurrent writer's columns survive unless they are dirty too.
- Nothing runs on a timer. Deadlines are noticed by the next request that looks.
- Nothing is resumed after a restart. The executor's queue and the threads are gone.

### Inventory

Components in the order of their weight for the correctness of the system. "Operations"
lists what changes state.

| Component | State | Operations | Hard behaviour | Correct when |
|---|---|---|---|---|
| Task graph `services/harness/tasks.py`, `api/v1/endpoints/tasks.py` | `agent_tasks`: status, blocked_by | POST, PATCH, start, mark_status with `_clear_dependency` | read-modify-write of every row by concurrent sessions | no task starts before its blockers; no task stays `in_progress` or `blocked` for nothing |
| Background runs `services/harness/background.py` | `background_runs`, the executor's queue and threads | start, `_run_background`, `_mark_running/_completed/_failed` | four threads, error paths, crash loses the queue | every run ends; run and task agree on the verdict |
| Approvals `services/harness/approvals.py` | `approval_requests` | create, list, respond, `expire_due` | expiry without a timer, respond against respond against sweep | decided at most once, in time, never after expiry |
| Automation flow `services/automation/flow.py`, `checkpoint.py`, `api/v1/endpoints/automation.py` | `run_checkpoints`, and through others `agent_runs`, `paper_orders`, `investment_cases` | run, retry, replay; twelve checkpointed steps | partial failure, restored outputs, crash between commits, two calls on one run id | no order without its own signal and risk verdict; records tell the truth |
| Run log `services/agents/run_logger.py` | `agent_runs`, `run_id` unique | record | a second record of a run | what is recorded happened |
| Mock broker, paper orders `services/broker/` | `paper_orders` | submit, cancel | order and holding in two commits | an order is filled once |
| Holdings, portfolio `services/portfolio/holding_store.py`, `portfolio_service.py` | `portfolio_holdings` | upsert from an order, update prices | lost updates, duplicate rows, reused keys, a price list fetched earlier | holdings are the sum of the orders |
| Risk guard `services/risk/guard.py` | none | check, check_rebalance | thresholds and their boundaries | rejects what the limits exclude |
| Rebalance, watchlist, batch research `services/portfolio/` | `watchlist_items` | run, add, remove | proposal on a stale summary, orders failing one by one | weights stay within limits |
| Investment cases `services/case/` | `investment_cases` | create, list | created before the log row | every recorded order has its case |
| Plans `services/harness/plans.py` | `agent_plans` | update_plan | row read, then changed columns committed; insert and check apart | at most one step in progress; the status is that of the steps |
| Memory `services/memory/store.py`, `index.py` | `agent_memories`, and an index of its long-term rows in the process (`_records`, `_keyword_index`, one lock) | write, search_context, compact, cleanup_expired, list, load | two duplicate searches and an insert apart, table read outside the lock, expiry without a timer, crash | index and table agree; what is written is found, what has expired is not |
| Memory text `token_budget.py`, `compressor.py`, `tokenizer.py` | none | allocate, trim, chunk, map and reduce | budget 0, oversized memories | stays within the budget or summarises everything |
| Chat `services/chat/` | `chat_conversations`, `chat_messages` | create, update, reply | a dozen commits around calls of minutes; two replies and a PATCH on one conversation | every question gets one answer or one error, and an answer has everything behind it stored |
| Agent runtime, research workflow `services/agents/` | none of its own | run_json_agent, the workflow of five agents | fallback on ValueError only, five runs and memories in commits of their own | nothing logged twice, nothing remembered that is not logged |
| ReAct runtime, tools, skills | none of its own | run, run_tool | bounded loop with two fallbacks, a tool that writes | ends within max_steps, logged once |
| LLM providers, profiles, call log `services/llm/` | `llm_calls` | generate, retry, record_usage; choice of the provider | retries, a useless reply that was paid for; two readings of the settings | attempts within the limit, each response booked once; the list of profiles says what is built |
| Backtest `services/backtest/` | none | engine, metrics, walk-forward | costs, short parts, first and last bar | no look-ahead; a badge that is earned |
| Strategies `services/strategy/` | none | pure functions | short windows, equal averages | signal follows the definition |
| Market providers, connectors, real brokers | none | calls to vendors | remote | answer or raise |
| Research agents, explanation | none | text | - | - |
| Database schema, sessions `db/` | - | init_db | migration of old columns | see `TaskRows` |
| API shell, settings, schemas | - | validation | - | - |
| Web client `frontend/` | in the browser | requests | - | any request the API takes |

How they interact: `POST /tasks/{id}/start` checks the task graph and calls the background
runs, which set the task `in_progress`, execute the automation flow on a pool thread and
set the task to the run's verdict. The automation flow calls market, research, strategy,
backtest, risk and explanation for answers, the mock broker for an order (which calls the
holdings), then the case store and the run log; retry and replay find a run through its log
row. Chat calls the automation flow, research and ReAct; ReAct's tools call research,
memory, plans, strategies and the backtest. Approvals are called by their endpoints
only: no execution path asks them.

`PROJECT.json` names, for each component, its sources, modules and status, and lists
the hazards at the lines where they bite.

## 2. Modules

| Module | What it is |
|---|---|
| `TaskRows` | the rows of `agent_tasks` and what one session does to its copy of them: new row, set status, clear dependency, patch, flush of dirty columns |
| `Harness` | task graph, background runs and their handlers, thread by thread |
| `Dependencies` | abstract specification of the task graph: what is declared, done and begun |
| `MCHarness` | instance: two parents and their child; POST and PATCH requests |
| `HarnessProofs` | theorems about `Harness`: types, the order of tasks and the refinement; status and verdict |
| `Approvals`, `MCApprovals`, `ApprovalsProofs` | approvals, their instance, theorems |
| `AutomationFlow`, `MCAutomationFlow`, `AutomationProofs` | the automation flow with checkpoints, retry and replay; its instance; theorems |
| `Holdings`, `HoldingsProofs` | the holdings table under orders of the mock broker and price refreshes; theorems |
| `Rebalance`, `MCRebalance`, `RebalanceProofs` | watchlist and rebalance workflow, composed with `Holdings`; an instance of both; theorems |
| `Memory`, `MCMemory`, `MemoryProofs` | the memory table and its index; their instance; theorems |
| `LLMCalls` | one call of a language model: attempts, outcomes, the row in `llm_calls` |
| `Agents` | the agents of the research workflow, over `LLMCalls` |
| `ReAct` | the ReAct loop, its tools and the plans they write, over `Agents` |
| `Chat`, `MCChat`, `ChatProofs` | conversations and replies, over all three; their instance; theorems |
| `Backtest`, `ContextBudget`, `LLMProfiles`, `MCAlgorithms`, `AlgorithmProofs` | three pure parts as operators; an instance that enumerates their inputs; theorems for all inputs |

`TaskRows` and `Harness` are two modules because the first is the sequential semantics of
a store and the second everything that threads do to each other with it. `Harness` is composed with
`Dependencies` by refinement (`Graph == INSTANCE Dependencies WITH begun <- Begun`).
`Chat` extends `ReAct`, which extends `Agents`, which extends `LLMCalls`: each adds the state and the
steps of one layer of the code, and a step of a layer says of the layers above only what it leaves alone.
`Rebalance` extends `Holdings`: its steps are steps of that module's actions, and `UsesHoldings`
checks that, seen on the tables, a rebalance is nothing but one of its clients.
Mutated forms of definitions, commented `Mutant:`, stand before the definitions they mutate; no
specification uses them.

### TaskRows and Harness

State: `tasks` is the table (status and blocked_by of each id), `runStatus` and `taskOf`
the table `background_runs`, `queue` the executor's work queue, `seen` what the open session
of each thread has loaded, `edit` the PATCH an editor is serving, `stage` where the
thread of each run is. `declared` and `done` are history.

| Action | Code |
|---|---|
| `Create` | `create_task` endpoint and `AgentTaskStore.create`: one commit, whatever ids the request lists |
| `EditRead`, `EditReadAll`, `EditCommit` | PATCH: `update` reads the row, a completion then reads all rows in `_clear_dependency`, one commit |
| `Accept`, `AcceptDetached` | `start_task`'s check, in a session closed before anything is written; `POST /tasks/background-runs` |
| `CreateRun`, `OpenRead`, `OpenCommit`, `Submit` | `BackgroundRunService.start`: the run's row, `mark_status(in_progress)`, `executor.submit` |
| `Pick` | a pool thread takes the head of the queue; at most `PoolSize` are busy |
| `MarkRunning`, `FlowEnds`, `MarkCompleted`, `MarkFailed` | `_run_background` |
| `CloseRead`, `CloseReadAll`, `CloseCommit` | `mark_status` with the verdict, in a session of its own |
| `CaughtFault`, `FatalFault` | a database error inside `_run_background`'s `try`, which makes the run failed, and one anywhere else, which ends handler or work item |
| `Crash` | the process ends; tables stay, queue and threads do not |

Abstractions. `blocked_by` is a bag: order does not matter, duplicates do because
`list.remove` takes one. (Writing a permutation of the list that is stored would be a dirty column
in the code and is not in the model.) Neither POST nor PATCH checks the ids it is given: a task may
list itself, an id that is posted later, or one that no task has, and such a
blocker is never done unless its task is completed. `links`, `owner`, `metadata` and the run's request and
result are data on which no transition depends. A database error in a PATCH or a
POST has no effect on the table and is not modelled as a step. What
the flow does inside a run is `AutomationFlow`'s subject; here it returns or raises.

### Approvals

State: `rows` (status, expires_at), `clock`, and for each handler its
`stage`, its `request`, the `now` of its sweep (`since`), the rows the sweep loaded (`due`)
and the list it returned (`view`). `late` and `inserted`, the time of the commit that brought a row in, are history.

`Create` is the commit of `ApprovalStore.create`; `EnterList` and `EnterRespond` begin
`list` (or `get`) and `respond`, which call `expire_due`: `Enter` reads the clock, `SweepRead`
selects the overdue rows, `SweepCommit` marks them expired; `ListRead`, `RespondRead` and
`RespondCommit` are what follows. `Stored` is what the column keeps of the client's
timestamp: the wall-clock value, without its UTC offset. `Abort` ends a request at any point. The
respond endpoint's 404 is `Exists` in `EnterRespond`'s guard. `reason`, `response` and
`decided_at` are left out, which nothing reads, and so is `created_at`, which only orders listings. It is read from the clock
before the commit; the exception of `FreshView`, an approval that comes in while a listing is under way, therefore
speaks of the commit.

### AutomationFlow

State: `checkpoints`, `logged`, `orders` and `cases` are the four tables; each call of
`AutomationFlow.run` has a `kind` (run, retry, replay), a run id, a `mode`, the set of steps
it restores (`cached`), its place (`stage`, `pc` into `Pipeline`) and the answers of
its own strategy and risk check. `broken` is history: something the call depends on
has raised.

| Action | Code |
|---|---|
| `StartRun`, `Recall` | the endpoints `/automation/run`, `/runs/{id}/retry` and `/runs/{id}/replay` |
| `RefuseLive`, `Clear`, `LoadCheckpoints`, `Resolve` | `run` up to its first step |
| `SaveRunning`, `Work`, `WorkRaises`, `SaveCompleted`, `SaveFailed`, `Restore` | `_step` and the functions it is given |
| `Stumble` | an attribute read from a restored output: `_step` returns the stored JSON object, not a model |
| `NoProfile` | the LLM profile is resolved between two steps |
| `SkipOrder`, `SubmitOrder`, `UpdateHolding` | the order step and `MockBrokerAdapter.submit_order` in its two commits |
| `CreateCase`, `Record` | the case and the row in `agent_runs`, whose `run_id` is unique |
| `Kill` | the thread goes with its process |

Abstractions. `CheckpointStore.save` is one step. A market answer, a report or a
backtest is data; a signal is BUY, SELL or HOLD, a risk verdict LOW or HIGH. The
rows that the research step writes to `agent_runs` under a run id of its own are not in
`logged`. A database error in a save is covered by `Kill` only: both leave the step as it was
and end the call.

### Holdings

State: `holdings` maps a primary key to a row; each client has a `stage`, the orders it still has to
execute (`todo`), the row its order's session has `loaded` (by key, with the `row` as it was), and
what its summary has read (`view`, `prices`). `bought`, `ledger`, `clash` and `strayed` are history.

| Action | Code |
|---|---|
| `Execute`, `Store` | a caller's list of orders; `submit_order` stores the order in `paper_orders` |
| `LoadHolding`, `Insert`, `Update`, `UpdateNothing`, `Delete`, `Refresh` | `upsert_from_order`: SELECT, then what its session commits, then `session.refresh` |
| `AskSummary`, `ListHoldings`, `FetchPrices`, `LoadPriced`, `SavePrices`, `Summarise` | `get_summary`: rows, quotes, `update_prices` in SELECT and commit, rows again |
| `Fault` | a database error: the order raises, or the summary |

What SQLAlchemy and SQLite add to the code is modelled, for it decides what interleavings do: an
UPDATE names the dirty columns and goes by primary key; one that finds no row raises, a DELETE only
warns; SQLite hands the key of a deleted last row out again. So an order that has loaded a row which a
concurrent sale then deletes may find *another symbol's* row under its key and book its shares there.
`strayed` says that it has happened; the properties that it breaks except it, since neither code nor
documents say anything of it. An order that stops anywhere (no fairness is assumed) is a process that
ends there.

Abstractions: quantities in hundredths of a share; `limit_price` None is 0, which is how the code reads
it; `avg_cost`, sector, industry and timestamps decide nothing; every client is the user "default", the
only one orders are booked for; `delete_holding` has no caller.

### Rebalance

State: the `watchlist`; of each workflow the symbols whose research gave a report (`researched`), `force`, the decisions it
follows (`report`), its `proposal` and the `verdict` on it. `fallback` and `alone` are history.

| Action | Code |
|---|---|
| `Watch`, `Unwatch` | `WatchlistStore.add` and `remove`; the unique index decides, so one step each |
| `RunRebalance` | `run` with the batch research, of which any symbol may fail, up to the summary; an empty watchlist ends it |
| `PayloadRaises` | `run_portfolio_manager_agent` builds its payload from attributes that the reports do not have |
| `Decide` | the agent's decisions (`Reports`) or its `Fallback`, `_build_proposal` (`Proposal`), `check_rebalance` (`Approved`), and the orders handed to the broker one after the other |
| `Step`, `Request` | the steps of `Holdings`; orders and summaries of other clients |

Arithmetic is the code's in integers: amounts in cents, prices in dollars, weights out of `Scale` (10000
in the code), and `RoundDiv` is Python's `round`, ties to even. Binary floating point is not modelled.
Cash is a constant of the market provider, which no paper order changes. The research inside a
rebalance writes nothing that is read here. `_build_proposal` takes prices from the holdings, so a decision
to buy a symbol that is not held is dropped and a rebalance never opens a position.

### Memory

State: `rows` is the table `agent_memories` (a row keeps topic, scope, content and `expires_at`), `index` and
`keywordIndex` are the two maps of `MemoryIndex`; each client has a `stage`, its `request`, and what it has in
hand: the row `found`, the `expires` of a new row, the `hits` of the index, the `memories` of its context, the rows it has `fetched`. A
topic stands for user, symbol and memory type, a content for the texts with one hash; `Words` gives the
keywords that the tokenizer makes of it. `unseen`, `missed`, `due`, `rivals`, `doubtful` and `promised` are
history.

| Action | Code |
|---|---|
| `Ask`, `FindExact`, `SearchSimilar`, `FindSimilar` | the endpoint `write_memory` and `MemoryStore.write` up to its decision: hash lookup in the table, `similarity_search` in the index, the row it names or else a similar one among the `MaxScanned` rows of the topic that the table gives (50, the newest) |
| `Insert`, `Touch`, `Refused` | the commit of a new row, or `_update_duplicate`; a refused commit |
| `Refresh`, `Upsert` | `session.refresh`, then `MemoryIndex.upsert` with what it read |
| `Sweep`, `RemoveExpired` | `cleanup_expired`: the DELETE, then `remove_expired` with a clock of its own, only if rows were deleted |
| `Search`, `ReadShort`, `ReadLong`, `Answer`, `Listing` | `search_context` after the sweep: the index, which gives `MaxHits`; short-term rows up to the limit; the hits that are still in the table, or long-term rows up to the limit if there were none; as many of both as the limit allows; the text. A listing or the statistics |
| `Compact` | `compact` writes the context it has built as a memory |
| `Load`, `Replace` | `load_long_term_memories` in its two steps; at startup both come before any request (`Restart`) |
| `Tick`, `Restart` | the clock, and the death of the process: the table stays, the index is loaded anew |

Abstractions: importance, metadata and `created_at` are left out, on which scores and orders depend. A limit
(`Limited`) therefore keeps any of the rows, as many as it allows: which memories are the best the model does not
say, only how many there are. `MaxResults` (100 in the code) cuts every limit that is asked for. `load_from_session` and `MemoryIndex.remove` have no caller.

### LLMCalls, Agents, ReAct and Chat

A job is a `POST /conversations/{id}/reply` with everything it does. State: its `call` of a model, `unpaid` (its responses
without a row in `llm_calls`), its place in the code (`work`: kind, stage, agent of the panel, step of the
loop), how many `runs` and `memories` it has stored by run type, its `cases`, its `messages`; `plans` and
`conversations` are tables, `update`, `seen` and `edit` what a session has read before it commits. `mixed`,
`wanted` and `clashed` are history.

| Action | Code |
|---|---|
| `Generate`, `Respond`, `Transient`, `Raise`, `RecordUsage`, `UsageRefused` | `generate` with its retry decorator and `record_usage`, which commits before anyone parses the reply |
| `GatherContext`, `Judge`, `LogAgent`, `RememberResult` | `run_json_agent`: what is read outside of the `try`, the reply or the fallback, the run, the memory |
| `FileCase`, `LogWorkflow`, `WriteRefused` | the end of `ResearchWorkflow`; a refused commit, which nobody catches |
| `Recall`, `Choose`, `UseTool`, `Trace`, `LogReact`, `RememberTrace` | `ReActRuntime.run`, its loop, its fixed trace (for the mock, and as fallback) |
| `ReadPlan`, `CommitPlan`, `PlanRefused` | `todo_update`: `update_plan` reads a row and commits the columns that changed |
| `Create`, `EditRead`, `EditCommit` | the endpoints of conversations |
| `PrepareRead`, `PrepareCommit`, `Begin`, `RunAutomation`, `LinkCase` | `reply`: question and title, the action, the case of a research reply |
| `Answer`, `AnswerError`, `ChatRefused` | the assistant's message, or the error's, and the write that is refused |
| `Crash` | the process dies with its requests |

Abstractions: a reply of a model is judged when it is parsed, so it may turn out to be anything; `GatherContext`
and `Recall` stand for market data, holdings and memory reads with the compressor's calls, which work or
raise; `RunAutomation` for module `AutomationFlow`. Other columns of a conversation are written by one
request only.

### Backtest, ContextBudget, LLMProfiles

`Backtest` is `BacktestEngine` bar by bar in whole numbers: signal, slippage, commission, the half of the
cash that a purchase spends, drawdown by a running peak, walk-forward and badge. A Sharpe ratio is 0 where
the code says so and otherwise any of a few values. `ContextBudget` is `TokenBudgetManager`, the compressor's chunks and the
end of `search_context`, on token estimates. `LLMProfiles` is `load_llm_profiles`, the list of profiles and
the two ways to a provider, with and without a profile.

## 3. What is checked

"Bound" names every bound of an instance and why it is enough.

| Run | Bound | Properties |
|---|---|---|
| `harness_safety` | tasks a, b and c (blocked by both), two runs, one pool thread, one editor with four kinds of PATCH, one error, one crash; posts in any order or not at all, so that c may wait for ids of no task, and a PATCH that makes b wait for itself. Two runs and one editor give every pair of concurrent sessions; one thread makes the second run wait | `TypeOK`; `NoDependencySkipped`: no run is accepted before every declared blocker has been completed; `InProgressHasRun`: `in_progress` always has a run under way or cut off; `ImplementsGraph` |
| `harness_liveness` | a parent, its child, three runs and two pool threads (the code has four), one error, one crash. Two runs of the parent and one of the child at once need the second thread | `VerdictAgrees`: `background_runs` and `agent_tasks` agree on the verdict of a task's only run, unless a PATCH or a second run of a blocker comes in between; `RunsEnd`; `InProgressEnds` |
| `approvals` | one approval (approvals do not touch each other but for the sweep, which treats each row alike), three requests, clock 0..1, deadlines in the past, now, later, with an offset, and none | `TypeOK`; `DecidedInTime`; `LateIsRefused`; `FreshView`; `SweepExpires` |
| `automation` | three calls on one run id, so a run with every pair of later calls; all modes, BUY and HOLD, both verdicts, one crash. One run id is enough because all state of the flow is keyed by it | `TypeOK`; `OrderIsApproved`: an order has its own signal and verdict, whatever is restored; `LogIsTruthful`; `OrderLeavesTrace` |
| `rebalance` | one workflow with two trades at most, two other clients with orders on two symbols or a summary, one error, three keys, an opening position; watchlist changes until it is read. Two clients and the workflow give each pair of concurrent sessions and a third that reuses a key; prices 1 and 3 make shares indivisible enough for each rounding | `TypeOK`; `NoPhantomShares`: races lose shares and never invent any; `LedgerWhenApart`: orders that were never in progress together on a symbol add up, whatever else interleaves; `FallbackHolds`: without an answer of the model nothing is traded; `HitsTarget`: an undisturbed rebalance reaches its targets up to rounding; `WithinLimit`: an approved one stays within the single-symbol limit; `UsesHoldings` |
| `memory` | two clients, two ids, two topics, three contents (two of them similar, the third with one word of theirs), clock 0..2, one restart. Two clients give each pair of a write, a reload, a sweep and a search; two ids, which are never reused, a duplicate or a ghost beside a live row; two ticks an expiry between any two steps. Every limit is 1, so that two hits, a hit and a short-term row, or two rows of a topic are one too many; what an insertion after an incomplete scan does would take a third id and is left to the proof. States that differ in `promised` alone, which no step reads and only `Persisted` looks at, count as one (`VIEW`) | `TypeOK`; `IndexedOnceWritten`: a live long-term row is in the index unless a reload overlooked it; `GhostsHaveExpired`: what only the index has is expired; `KeywordsAgree`; `NoDuplicatesWhenApart`; `ContextFindsWritten`: what is in the table is left out of a context only where a limit cuts it off |
| `chat` | two replies and a PATCH on one conversation, owners default and guest; one reply is a chat of up to two steps, the other chat, research or automation; a panel of two agents where the code has five (an analyst and the committee: the agents differ in their prompts only), two attempts, one refused write or crash | `TypeOK`; `AnsweredIsRecorded`; `NothingTwice`; `PaidIsRecorded`; `TitleKeptWhenApart`; `PlanAgreesWhenApart`; `EveryQuestionAnswered` |
| `algorithms` | every series of up to 8 closes of three prices under windows of 2 and 3 bars instead of 5 and 20, two strategies, with and without slippage and commission; every list of up to 5 memories for five budgets, chunks of 2; every list of up to two profiles for 24 settings. Crossings, both sides of the split and a test part too short to trade all occur | `NoLookAhead`: the curve of the first bars does not depend on the later ones; `BadgeIsEarned`; `ContextFits`; `ProfilesAgree` |

The instances have no more than 3.5 million distinct states; `harness_safety`, `memory` and `chat` take two to three minutes.

Several of the properties ask what a lost update, a stale read or a resumed output could do *to somebody else*. `NoDependencySkipped` is the
sharp one: updates of blocked_by are lost, yet no loss ever frees a child, because a
session writes a list that was once in the table minus completed tasks. `ContextFindsWritten` is another: a
search gives out the rows that the index named and asks the table for nothing else once there is a
hit, so that every way in which the index may lag behind is a way to forget. A context does not have everything that
matches, though: it has twice its limit of hits at most and then its limit of memories, and the property says that
nothing else may keep a memory out.

Properties named `...WhenApart` say how much holds without the race, and history variables say exactly
which race is excepted. The exception is real in each case: TLC reaches it.

### What does not hold

Four runs find a behaviour of the code that its documents exclude.

- `harness_unblock` (`BlockedHasOpenParent`): two parents complete at the same time;
  both sessions read the child blocked by both, each removes its own id, the later commit
  restores the other's. The child stays blocked by a completed task. The run uses
  `SpecPostsFirst`, in which all tasks are posted before the first start, so that the
  counterexample is the lost update. The simpler case of a task posted with a
  completed blocker, which also stays blocked, is thereby left out of this run: it is one assignment,
  and nothing promises such a task its release.
- `automation_retry` (`RetrySucceeds`): a retry that restores `multi_agent_research` reads an
  attribute of a JSON object and raises. Even a retry that restored nothing would raise at the end on the unique `run_id`.
- `rebalance_research` (`ResearchIsDecided`): the portfolio manager's payload reads `report.committee` and
  `report.confidence_score`, which `MultiAgentResearchReport` does not have, outside of its `try`. As soon
  as the research of one symbol succeeds, the rebalance raises.
- `memory_expired` (`Persisted`): `_update_duplicate` leaves `expires_at` as it is, so a long-term write without a
  lifetime that meets a similar memory with one is answered with a row that a later sweep deletes.

Other behaviour of the code that the models contain, and that no run states as a property:

- two start requests both read `pending` and start two runs of one task, and the second may put a *child* that has run meanwhile
  back to `pending`: it loaded the child while it was still blocked, and releases it once more when it completes
  (`VerdictAgrees` excepts it with `CompletedTwice`; with one pool thread it cannot happen); two responses to an approval both read
  `pending` and both are accepted;
- a run that raises is not in `agent_runs`, hence unknown to retry, which exists for such runs; an agent whose model
  call raises something else than a `ValueError` leaves no entry either;
- `POST /conversations` takes any user, every other endpoint serves `default`: nobody can reply in another
  user's conversation. Every logger has a session of its own, so that after a refused write the
  error message can still be stored;
- a read that fails after the commit of a question (`session.refresh` in `services/chat/service.py:242`, before the `try`)
  leaves the question without an answer and without an error message; `EveryQuestionAnswered` begins after it (stage
  `prepared`), and the model has no such failure;
- in a backtest, `valuation_band` never sells, a commission can make the cash negative, a test part shorter than the
  long window never trades and so gets badge F, the headline metrics are those of the train part, and the bias
  check always returns True. The engine's thresholds (1.003 and 0.997) are not those of the strategies (1.005 and
  0.995);
- the token estimate of a memory context counts the memories beyond the eight that are shown;
- the SDKs' connection errors are not the built-in `ConnectionError`, so the retry does not see most of
  them (the model lets either happen); no caller passes a `ModelScheduler`.

### Fairness

`Harness!FairSpec` has weak fairness of the handler, of the pool's pick and of the
worker of each run, and of each editor: threads that have work are scheduled, the pool's
queue is first in first out. The step `FlowEnds` is among them because every call of the
flow to a model or a provider has a timeout and a bounded number of retries.
`Approvals!FairSpec` has weak fairness of a request under way. `Chat!FairSpec` has weak fairness of the thread of
each reply, the model's answer included: each call has a timeout and a bounded number of attempts. Nobody
has to send a request, and errors and crashes need not happen (a refused write is a step of the reply's
thread, one of several it may take). The other modules state no liveness.

## 4. What is proved

The theorems hold for all values of the constants that satisfy the modules' assumptions: any set of tasks,
runs, editors, handlers, calls and run ids, any pool size and any bounds.

| Theorem | Says | Argument |
|---|---|---|
| `HarnessProofs!TypeCorrect` | `Spec => []TypeOK` | with `StageOK`: the stage of a thread tells what it has loaded (a thread between SELECT and commit has its task's row) |
| `HarnessProofs!DependenciesRespected` | `Spec => []NoDependencySkipped` | below |
| `HarnessProofs!HarnessImplementsGraph` | `Spec => ImplementsGraph` | every action maps to a step of `Dependencies` or a stutter; `Accept` maps to `Begin` by the invariant below |
| `HarnessProofs!InProgressIsHeld` | `Spec => []InProgressHasRun`, if no PATCH sets in_progress (`NoManualStart`) | a loaded row that reads in_progress may be stale, so the invariant also says which run holds the tasks that a session believes in progress |
| `HarnessProofs!VerdictsAgree` | `Spec => []VerdictAgrees` | below |
| `ApprovalsProofs!TypeCorrect` | `Spec => []TypeOK` | inductive with the sweep's part of the invariant |
| `ApprovalsProofs!ListingsAreFresh` | `Spec => []FreshView` | what a sweep has not loaded, its commit has not to expire: when the listing is read, each pending row is fresh or was inserted since (`FreshInv`) |
| `ApprovalsProofs!ApprovalsDecidedInTime` | `Spec => []DecidedInTime` | a response that is deciding began before the deadline of every row that was pending after its own sweep |
| `ApprovalsProofs!LateResponsesRefused` | `Spec => []LateIsRefused` | a row that is no longer pending never becomes pending again |
| `AutomationProofs!TypeCorrect` | `Spec => []TypeOK` | with `StageOK`: what a call has in hand at each stage |
| `AutomationProofs!RecordsAreTruthful` | `Spec => []LogIsTruthful` | every success is vouched for by the call that has returned and recorded it; a record is never written over, since `run_id` is unique, and a call that reaches its case has stored its order if it had one (`LogInv`) |
| `AutomationProofs!OrdersAreApproved` | `Spec => []OrderIsApproved` | a call past its strategy step either has its own signal or has restored it, and then stumbles before the order |
| `AutomationProofs!OrdersLeaveTraces` | `Spec => []OrderLeavesTrace` | a call in its order step has saved it, unless a replay cleared the run |
| `HoldingsProofs!TypeCorrect` | `Spec => []TypeOK` | with `StageInv`: a session that has loaded a row has one of its order's symbol |
| `HoldingsProofs!OrdersApartAddUp` | `Spec => []LedgerWhenApart` | below |
| `HoldingsProofs!NoSharesFromNowhere` | `Spec => []NoPhantomShares` | below |
| `RebalanceProofs!RebalanceUsesHoldings` | `RSpec => UsesHoldings` | every action of a workflow is one of `Holdings`, with orders of the proposal that are well formed and summaries that are someone's |
| `RebalanceProofs!RebalanceKeepsBooks` | `RSpec => [](TypeOK /\ NoPhantomShares /\ LedgerWhenApart)` | from the refinement and the theorems about `Holdings` |
| `RebalanceProofs!FallbackKeepsPosition` | `RSpec => []FallbackHolds` | the fallback's target of a row is the row's own weight, so no trade is worthwhile; a proposal stays as computed (`FallbackInv`) |
| `RebalanceProofs!RebalanceHitsTarget` | `RSpec => []HitsTarget` | below |
| `RebalanceProofs!ApprovedStaysWithinLimit` | `RSpec => []WithinLimit` | the same, with the review's bound on the targets |
| `MemoryProofs!TypeCorrect` | `Spec => []TypeOK` | the stage of a request tells what it has in hand |
| `MemoryProofs!WrittenIsIndexed` | `Spec => []IndexedOnceWritten` | below |
| `MemoryProofs!GhostsExpired` | `Spec => []GhostsHaveExpired` | below |
| `MemoryProofs!KeywordsHold` | `Spec => []KeywordsAgree` | three steps change the entries, and each changes the words with them |
| `MemoryProofs!ContextsFind` | `Spec => []ContextFindsWritten` | a search matches what it ought to find, since the three structures agree on it, and drops it only for as many hits as it may give (`Found`); a row that is due can then only expire, so the context has it or is full (`Kept`) |
| `MemoryProofs!DuplicatesHaveRivals` | `Spec => []NoDuplicatesWhenApart` | a write without a rival knows that no row has its content and, once it is to insert, that none is similar, for it has scanned all rows of the topic; sweeps leave that true, and an insertion makes every other deciding write a rival |
| `ChatProofs!TypeCorrect` | `Spec => []TypeOK` | the four layers' types at once |
| `ChatProofs!AnswersAreRecorded` | `Spec => []AnsweredIsRecorded` | below |
| `ChatProofs!NothingIsTwice` | `Spec => []NothingTwice` | below |
| `ChatProofs!PaymentsAreRecorded` | `Spec => []PaidIsRecorded` | below |
| `ChatProofs!PlansAgree` | `Spec => []PlanAgreesWhenApart` | an update that nobody has crossed holds the plan's row as it is in the table (`PlanInv`), so the columns it leaves out have their new value already |
| `ChatProofs!TitlesAreKept` | `Spec => []TitleKeptWhenApart` | the same of the titles that replies and PATCHes have read (`TitleInv`) |
| `AlgorithmProofs!NoLookAheadHolds` | `Spec => []NoLookAhead` | a run of the first bars is the beginning of the run of all, and a curve only grows |
| `AlgorithmProofs!BadgeIsEarnedHolds` | `Spec => []BadgeIsEarned` | as long as nothing is traded the curve is constant, so that its Sharpe ratio is 0, and no badge but F is left |
| `AlgorithmProofs!ContextFitsHolds` | `Spec => []ContextFits` | below |
| `AlgorithmProofs!ListedIsBuilt`, `ProfilesAgreeHolds` | `Agree` of any settings and list; `Spec => []ProfilesAgree` | each item leaves at most one profile marked and the mock in place, and one that is no default leaves the default of the settings |

The invariant behind `DependenciesRespected`. That a startable row (nothing in
`blocked_by`) has its declared blockers done is not inductive: a session that loaded an
older row may write it back. The strengthening says, of the table and of every session
alike, that each declared blocker is still listed in the row or is done; and that what a
session is going to remove is the id of the task it is completing, which its commit
makes done in the same step. It holds of stale rows because `done` only grows and
`declared` of an existing task changes only by a PATCH, which empties it.

The invariant behind `OrdersApartAddUp` says of a symbol whose orders have been apart, besides the
property itself, that at most one session is open on it, and that this session's row is the table's:
no row if it loaded none, else the row under its key with the ledger's balance. A step on
another symbol could break it only by writing the symbol's row, and then the key has been reused and
`strayed` is set; a new row takes a key that is free (`NewIdIsFree`), and a refresh of prices writes no
quantity.

The invariant behind `NoSharesFromNowhere`. That the rows of a symbol hold no more than was bought is not
inductive: a session may write back a row that is gone, or under a key that has been deleted and given out
again meanwhile. The strengthening (`BackedInv`) gives every key a mark that neither the symbol's row under it nor any
session that has loaded one exceeds, and every unfinished BUY a claim on its quantity; marks and claims
together stay within what was bought. A mark never falls when its row does, so that stale sessions stay covered; a
commit turns its own claim into a higher mark, and a SELL writes no more than it loaded. `SumOf` and its lemmas show what this needs
of the community modules' `MapThenSumSet`: that its recursion is well defined on finite sets, does not depend on the element taken
first, and is monotone. The proof goes by a counterexample of least cardinality instead of induction. The set of
clients is assumed finite (`HoldingsAssumption`) since their claims are added up.

The invariant behind `RebalanceHitsTarget` and `ApprovedStaysWithinLimit` (`WorkflowInv`). The orders still to do are
the last ones of the proposal, which has exactly one trade for each decision that is worth one (`Follows`). While nobody
else has ordered, each symbol has one row and no symbol is decided on twice, the table is the one that the summary
read, with the orders done so far applied to it (`Applied`). At the end this is the whole proposal, and an
arithmetic lemma (`TradeLandsNear`) bounds what the rounding of weight and quantity and the smallest trade leave of
the distance to the target. `Total` is a `MapThenSumSet` again, hence a sum whatever the order of the rows.

The argument for `ContextFits` goes through `Fair`: what is selected and what remains make up the budget, and a memory
passed over was larger than what remained, which only shrinks. The trap is the budget 0, which `trim` takes for
the default: the share of the history is 0 only under a total budget of 1, whose threshold of 0 tokens
makes every context a summary. A summary's chunks are shown to join up to the memories for any chunk size.

The passes in `Backtest`, `ContextBudget`, `LLMProfiles` and `Rebalance!Picked` are recursive functions, chosen for their
equations, and not folds, for the sake of these proofs: that such a function exists is shown, and what it computes
follows from a least counterexample (`LeastExists`) where one would expect an induction.

The invariant behind `VerdictsAgree`. A run's thread sets its task to its verdict; another session can undo it
only by releasing the task again, from rows it loaded while the task was still blocked. `RowsInv` says that a
blocker missing from any loaded row was completed by a run that is over, `LateInv` that a session which would
still release a task that has left `blocked` has a rival, an earlier run of the same blocker, and `VerdictInv`
that a task on which only its run decides follows that run stage by stage. The first version of
`VerdictAgrees` had no such exception; it held of one pool thread, the proof failed for any number, and TLC found the second
run with two.

The invariant behind the theorems about `Chat`. Where a request is determines what it has paid for (`PaidOK`), logged
and remembered (`LedgerOK`: exactly the agents of the panel up to its own), filed and said (`MessagesOK`), until it fails; a
request that has failed writes nothing more but its error message. The layers prove their steps once each,
for one job that leaves the others' entries alone.

The invariant behind `WrittenIsIndexed` and `GhostsExpired`. An index that agrees with the table is not inductive: a
write or a reload may bring in a row that it read long ago. But a row is written once and then only
swept, after its time; hence every copy of it, in the index or in the hands of a request, is the row
or the copy of something expired (`CopyInv`). A reload under way has every live row, or has been told
of it in `unseen` (`LoadInv`). With both, each of the eight steps that touch table, index or copies
(`QuietOrBusy`) keeps what has settled in the index.

`NoManualStart` is an assumption of the theorem and not of the module: a client may PATCH
a task to in_progress, and then no run holds it. The instance of `harness_safety` sends
no such PATCH.

Only model-checked: liveness (`RunsEnd`, `InProgressEnds`, `SweepExpires`, `EveryQuestionAnswered`), which is out of
the prover's reach because it needs ENABLED; what the folds `MaxDrawdown` and `Total` in `Backtest` compute, of which the
proofs need nothing; and the four properties that do not hold.

## 5. What is not modelled, and the plan

Not to be modelled: market providers, connectors and real brokers (remote services behind
adapters without state), the research agents' and the explanation's texts, the tokenizer, schema
declarations, settings, the API shell, the web client (its requests are among those of the
models' clients).

Without a caller in the repository, and therefore not in a model: `AgentRuntime.run_research`,
`update_plan_in_session`, `MemoryIndex.load_from_session` and `remove`, `HoldingStore.delete_holding`, `ModelScheduler`.
`LLMResearchAgent`'s own fallback cannot be reached, because what it would catch is caught before.

Partly modelled: the strategies outside of the backtest (their signal is an input of `AutomationFlow`), the risk
guard (its verdict is an input there and computed in `Rebalance`), the compressor (its calls work or raise
together in `GatherContext`).

Planned, in this order:

1. `CheckpointStore.save` split into its read and its write.
