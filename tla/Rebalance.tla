------------------------------ MODULE Rebalance ------------------------------
(***************************************************************************)
(* The rebalance workflow (services/portfolio/rebalance_workflow.py): a    *)
(* watchlist, a summary of the holdings, the decisions of the portfolio    *)
(* manager agent (agents/runtime.py), a proposal computed from both, a     *)
(* risk review (services/risk/guard.py) and the orders, one after the      *)
(* other, while other clients trade in the same holdings.                  *)
(*                                                                         *)
(* Money is in cents, so that a quantity in hundredths of a share times a  *)
(* price in dollars is an amount; weights are integers out of Scale, which *)
(* is 10000 in the code (round(weight, 4)).  What the model decides is any *)
(* of Reports, or the fallback that is computed when it gives no answer:   *)
(* if it is asked at all, for the manager's own payload raises as soon as  *)
(* the research of one symbol has succeeded.                               *)
(***************************************************************************)
EXTENDS Holdings, Integers

CONSTANTS Requests,        \* the orders of other clients
          Reports,         \* decision lists that the model may give
          Cash,            \* account.cash, which no paper order changes
          Scale,
          MinTrade,        \* the smallest amount worth an order
          MaxOrders,       \* max_orders of the requests
          MaxOrderAmount,  \* settings.max_order_amount
          MaxPosition      \* settings.single_symbol_max_position_pct

Decision == [symbol : Symbols, target : 0..Scale]

ASSUME RebalanceAssumption ==
    /\ Scale \in Nat \ {0} /\ Cash \in Nat \ {0}
    /\ MinTrade \in Nat /\ MaxOrders \in Nat \ {0} /\ MaxOrderAmount \in Nat
    /\ MaxPosition \in 0..Scale
    /\ Requests \subseteq OrderType
    /\ Reports \subseteq Seq(Decision)

Workflows == Tolerant

VARIABLES
    watchlist,  \* watchlist_items
    researched, \* the symbols whose research has given a report
    force,      \* request.force
    report,     \* the decisions that it follows
    proposal,   \* what it proposes
    verdict,    \* whether the proposal was executed
    fallback,   \* history: the decisions were the fallback's
    alone       \* history: since its summary nothing failed and no one else has
                \* written to the holdings

flow == <<researched, force, report, proposal, verdict, fallback>>
rvars == <<vars, watchlist, flow, alone>>

RInit ==
    /\ Init
    /\ watchlist = {}
    /\ researched = [w \in Workflows |-> {}]
    /\ force = [w \in Workflows |-> FALSE]
    /\ report = [w \in Workflows |-> <<>>]
    /\ proposal = [w \in Workflows |-> <<>>]
    /\ verdict = [w \in Workflows |-> "none"]
    /\ fallback = [w \in Workflows |-> FALSE]
    /\ alone = [w \in Workflows |-> TRUE]

---------------------------------------------------------------------------
(* What the summary says.                                                  *)

\* round() to the nearest integer, a tie to the even one.
RoundDiv(n, d) ==
    LET q == n \div d
        r == 2 * (n % d)
    IN  IF r > d \/ (r = d /\ q % 2 = 1) THEN q + 1 ELSE q

Value(r) == r.quantity * r.price
Total(w) == Cash + MapThenSumSet(LAMBDA i : Value(view[w][i]), Ids)
Weight(w, i) == RoundDiv(Value(view[w][i]) * Scale, Total(w))

HeldIds(w) == {i \in Ids : view[w][i] # Gone}
\* Prices and weights are kept by symbol: of several rows the last one counts.
RowIn(w, s) == Max({i \in Ids : view[w][i].symbol = s})

---------------------------------------------------------------------------
(* The portfolio manager, the proposal and its review.                     *)

\* What a loop over s appends of it: the entries at the positions in keep.
Picked(s, keep) ==
    LET f[n \in 0..Len(s)] ==
            IF n = 0 THEN <<>>
            ELSE IF n \in keep THEN Append(f[n - 1], s[n]) ELSE f[n - 1]
    IN  f[Len(s)]

\* Mutant: the fallback's weights are truncated, the summary's rounded.
Fallback_Truncates(w) ==
    LET held == Picked([i \in Ids |-> i], HeldIds(w))
    IN  [k \in DOMAIN held |->
            [symbol |-> view[w][held[k]].symbol,
             target |-> (Value(view[w][held[k]]) * Scale) \div Total(w)]]

\* The fallback keeps what is held.  (It would also enter what was researched and is
\* not held, but after any research it is not reached.)
Fallback(w) ==
    LET held == Picked([i \in Ids |-> i], HeldIds(w))
    IN  [k \in DOMAIN held |-> [symbol |-> view[w][held[k]].symbol,
                                target |-> Weight(w, held[k])]]

\* delta_value, times Scale.
Delta(w, d) == Total(w) * (d.target - Weight(w, RowIn(w, d.symbol)))
Size(n) == IF n < 0 THEN -n ELSE n
PriceIn(w, d) == view[w][RowIn(w, d.symbol)].price
Quantity(w, d) == RoundDiv(Size(Delta(w, d)), Scale * PriceIn(w, d))

\* Mutant: without `if quantity < 0.01: continue'.
Worthwhile_Tiny(w, d) ==
    /\ d.symbol \in Listed(w)
    /\ PriceIn(w, d) > 0
    /\ Size(Delta(w, d)) >= MinTrade * Scale

\* No order without a price, and a symbol that is not held has none.
Worthwhile(w, d) ==
    /\ d.symbol \in Listed(w)
    /\ PriceIn(w, d) > 0
    /\ Size(Delta(w, d)) >= MinTrade * Scale
    /\ Quantity(w, d) > 0

\* Mutant: the sides are swapped.
TradeFor_Swapped(w, d) ==
    [order  |-> [symbol   |-> d.symbol,
                 side     |-> IF Delta(w, d) > 0 THEN "SELL" ELSE "BUY",
                 quantity |-> Quantity(w, d),
                 price    |-> 0],
     amount |-> RoundDiv(Size(Delta(w, d)), Scale),
     target |-> d.target]

TradeFor(w, d) ==
    [order  |-> [symbol   |-> d.symbol,
                 side     |-> IF Delta(w, d) > 0 THEN "BUY" ELSE "SELL",
                 quantity |-> Quantity(w, d),
                 price    |-> 0],
     amount |-> RoundDiv(Size(Delta(w, d)), Scale),
     target |-> d.target]

Considered(decisions) == SubSeq(decisions, 1, Min({MaxOrders, Len(decisions)}))

Proposal(w, decisions) ==
    LET all == Considered(decisions)
        kept == Picked(all, {k \in DOMAIN all : Worthwhile(w, all[k])})
    IN  [k \in DOMAIN kept |-> TradeFor(w, kept[k])]

AmountOf(trades, side) ==
    MapThenSumSet(LAMBDA k : trades[k].amount,
                  {k \in DOMAIN trades : trades[k].order.side = side})
CashAfter(trades) == Cash + AmountOf(trades, "SELL") - AmountOf(trades, "BUY")

\* Mutant: check_rebalance does not look at target weights.
Approved_AnyWeight(trades) ==
    /\ \A k \in DOMAIN trades : trades[k].amount <= MaxOrderAmount
    /\ CashAfter(trades) >= 0

\* RiskGuard.check_rebalance: the risk level is not HIGH.
Approved(trades) ==
    /\ \A k \in DOMAIN trades :
          trades[k].amount <= MaxOrderAmount /\ trades[k].target <= MaxPosition
    /\ CashAfter(trades) >= 0

---------------------------------------------------------------------------
(* The steps.  The unique index on user and symbol decides at the commit   *)
(* what an add does, so add and remove are one step each.                  *)

Watch(s) ==
    /\ s \notin watchlist
    /\ watchlist' = watchlist \cup {s}
    /\ UNCHANGED <<vars, flow, alone>>

Unwatch(s) ==
    /\ s \in watchlist
    /\ watchlist' = watchlist \ {s}
    /\ UNCHANGED <<vars, flow, alone>>

\* After the watchlist comes the research, in which any symbol may fail and is left
\* out, and then the summary.
RunRebalance(w, forced) ==
    /\ stage[w] = "idle"
    /\ \E reports \in SUBSET watchlist : researched' = [researched EXCEPT ![w] = reports]
    /\ force' = [force EXCEPT ![w] = forced]
    /\ IF watchlist = {} THEN Execute(w, <<>>) ELSE AskSummary(w)
    /\ UNCHANGED <<watchlist, report, proposal, verdict, fallback, alone>>

\* run_portfolio_manager_agent reads report.committee and report.confidence_score of
\* every report, which MultiAgentResearchReport does not have: AttributeError.
PayloadRaises(w) ==
    /\ stage[w] = "summed"
    /\ researched[w] # {}
    /\ verdict' = [verdict EXCEPT ![w] = "raised"]
    /\ Execute(w, <<>>)
    /\ UNCHANGED <<watchlist, researched, force, report, proposal, fallback, alone>>

Decide(w, decisions, isFallback) ==
    LET trades == Proposal(w, decisions)
        outcome == IF Approved(trades) THEN "approved"
                   ELSE IF force[w] THEN "forced" ELSE "skipped"
        executed == IF outcome = "skipped" THEN <<>>
                    ELSE [k \in DOMAIN trades |-> trades[k].order]
    IN  /\ stage[w] = "summed"
        /\ researched[w] = {}
        /\ report' = [report EXCEPT ![w] = decisions]
        /\ proposal' = [proposal EXCEPT ![w] = trades]
        /\ verdict' = [verdict EXCEPT ![w] = outcome]
        /\ fallback' = [fallback EXCEPT ![w] = isFallback]
        /\ Execute(w, executed)
        /\ UNCHANGED <<watchlist, researched, force, alone>>

\* A step of some client on the holdings, as the workflows see it.
Disturbed(w, c) ==
    /\ stage[w] \notin {"idle"} \cup Summing
    /\ (c # w /\ holdings' # holdings) \/ (c = w /\ faults' # faults)

Step(c) ==
    /\ Submit(c) \/ Sum(c) \/ Fault(c)
    /\ alone' = [w \in Workflows |-> alone[w] /\ ~Disturbed(w, c)]
    /\ UNCHANGED <<watchlist, flow>>

Request(c) ==
    /\ c \notin Workflows
    /\ stage[c] = "idle"
    /\ AskSummary(c) \/ \E o \in Requests : Execute(c, <<o>>)
    /\ UNCHANGED <<watchlist, flow, alone>>

RNext ==
    \/ \E s \in Symbols : Watch(s) \/ Unwatch(s)
    \/ \E c \in Clients : Request(c) \/ Step(c)
    \/ \E w \in Workflows :
          \/ \E forced \in BOOLEAN : RunRebalance(w, forced)
          \/ PayloadRaises(w)
          \/ \E decisions \in Reports : Decide(w, decisions, FALSE)
          \/ Decide(w, Fallback(w), TRUE)

RSpec == RInit /\ [][RNext]_rvars

---------------------------------------------------------------------------
(* Properties.                                                             *)

OneRowEach(w) == \A i, j \in HeldIds(w) : view[w][i].symbol = view[w][j].symbol => i = j

\* When the model gives no answer, the fallback "maintains the current position": no
\* rounding of weights, prices or quantities turns into an order.  (If a race has left
\* two rows for a symbol, it does.)
FallbackHolds ==
    \A w \in Workflows : fallback[w] /\ OneRowEach(w) => proposal[w] = <<>>

\* The workflow has executed its proposal, undisturbed, on unambiguous decisions.
Plain(w) ==
    /\ stage[w] = "ended" /\ verdict[w] \in {"approved", "forced"}
    /\ alone[w]
    /\ OneRowEach(w)
    /\ \A j, k \in DOMAIN report[w] : report[w][j].symbol = report[w][k].symbol => j = k

\* Twice Scale times what rounding and the smallest trade may leave of a difference
\* between a target and the value held: half a unit of weight, and half a unit of
\* quantity or the trade that was not worth its order.
Slack(w, d) == Total(w) + Scale * Max({2 * MinTrade, PriceIn(w, d)})

\* A rebalance does what it says: what is then held of each symbol that it decided on is
\* worth the target weight of the portfolio it saw, at the prices it saw, whether bought,
\* sold or sold out.
HitsTarget ==
    \A w \in Workflows : Plain(w) =>
        \A k \in DOMAIN Considered(report[w]) :
            LET d == report[w][k]
            IN  d.symbol \in Listed(w) /\ PriceIn(w, d) > 0 =>
                    Size(2 * Scale * Held(d.symbol) * PriceIn(w, d) - 2 * Total(w) * d.target)
                        <= Slack(w, d)

\* A proposal that was not forced leaves no symbol it bought above the single-symbol
\* limit.
WithinLimit ==
    \A w \in Workflows : Plain(w) /\ verdict[w] = "approved" =>
        \A k \in DOMAIN proposal[w] :
            LET t == proposal[w][k]
            IN  t.order.side = "BUY" =>
                    2 * Scale * Held(t.order.symbol) * PriceIn(w, t.order)
                        <= 2 * Total(w) * MaxPosition + Slack(w, t.order)

\* Refinement: watchlist, agent and review forgotten, the workflow is one of the clients
\* of Holdings: it reaches the table through orders that are orders, one by one, and
\* through summaries.
UsesHoldings == Spec

---------------------------------------------------------------------------
(* What the documentation says and the code does not do.                   *)

\* "批量研究、组合经理 Agent、再平衡 proposal、mock 执行" (README.md:18): a rebalance whose
\* research gave reports ends with the manager's decision, executed or refused.
ResearchIsDecided ==
    \A w \in Workflows : stage[w] = "ended" /\ researched[w] # {} =>
        verdict[w] \in {"skipped", "approved", "forced"}
=============================================================================
