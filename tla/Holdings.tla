------------------------------ MODULE Holdings ------------------------------
(***************************************************************************)
(* The portfolio_holdings table: what orders of the mock broker            *)
(* (services/broker/mock_broker.py) and the price refresh of the portfolio *)
(* summary (services/portfolio/portfolio_service.py) do to it through      *)
(* PortfolioHoldingStore (services/portfolio/holding_store.py).            *)
(*                                                                         *)
(* A client is a thread.  It executes a list of orders, one after the      *)
(* other, or takes a summary; each step is what it does up to its next     *)
(* SELECT or commit.  A row is known to its session by its primary key,    *)
(* which the default database (SQLite, core/config.py) hands out as the    *)
(* largest key plus one: the key of a deleted row may come back as the key *)
(* of another symbol's row.  Quantities are integers, in hundredths of a   *)
(* share; avg_cost and the other columns decide nothing and are left out.  *)
(***************************************************************************)
EXTENDS Naturals, Sequences, FiniteSetsExt

CONSTANTS Symbols, Clients,
          Tolerant,       \* clients that go on with their next order after one raised
          Openings,       \* tables that earlier orders have left
          Quotes,         \* the prices that the market provider may answer
          MaxRows,        \* bound on primary keys
          MaxFaults       \* bound on database errors

\* A limit_price of 0 stands for None, which upsert_from_order reads as 0.
OrderType == [symbol : Symbols, side : {"BUY", "SELL"}, quantity : Nat \ {0}, price : Nat]

Ids == 1..MaxRows
Holding == [symbol : Symbols, quantity : Nat, price : Nat]
Gone == [symbol |-> "none", quantity |-> 0, price |-> 0]
Tables == [Ids -> Holding \cup {Gone}]
Empty == [i \in Ids |-> Gone]

ASSUME HoldingsAssumption ==
    /\ Tolerant \subseteq Clients /\ IsFiniteSet(Clients)
    /\ "none" \notin Symbols
    /\ Openings \subseteq {t \in Tables : \A i, j \in Ids : t[i] # Gone =>
                        t[i].quantity > 0 /\ (t[i].symbol = t[j].symbol => i = j)}
    /\ Quotes \subseteq Nat
    /\ MaxRows \in Nat
    /\ MaxFaults \in Nat

VARIABLES
    holdings,  \* the table
    stage,     \* where each client is
    todo,      \* the orders it still has to execute
    loaded,    \* the key of the row that its order's session has loaded, 0 if none
    row,       \* that row as it was loaded
    view,      \* the rows that its summary has read
    prices,    \* the prices it has fetched for their symbols
    faults,
    bought,    \* history: shares bought of each symbol according to paper_orders
    ledger,    \* history: what the orders on a symbol add up to, one after the other
    clash,     \* history: symbols on which two orders were in progress at once
    strayed    \* history: an order was booked on a row of another symbol

session == <<loaded, row>>
summary == <<view, prices>>
history == <<bought, ledger, clash, strayed>>
vars == <<holdings, stage, todo, session, summary, faults, history>>

Ordering == {"store", "stored", "loaded", "refresh"}
Summing == {"listing", "quoting", "pricing", "repricing", "summing"}
Stage == {"idle", "summed", "ended", "failed"} \cup Ordering \cup Summing

RowsOf(s) == {i \in Ids : holdings[i].symbol = s}
Held(s) == MapThenSumSet(LAMBDA i : holdings[i].quantity, RowsOf(s))

\* The row that a query finds first is the one with the smallest key.
First(s) == IF RowsOf(s) = {} THEN 0 ELSE Min(RowsOf(s))
Balance(s) == IF RowsOf(s) = {} THEN 0 ELSE holdings[First(s)].quantity

Init ==
    /\ holdings \in Openings
    /\ stage = [c \in Clients |-> "idle"]
    /\ todo = [c \in Clients |-> <<>>]
    /\ loaded = [c \in Clients |-> 0]
    /\ row = [c \in Clients |-> Gone]
    /\ view = [c \in Clients |-> Empty]
    /\ prices = [c \in Clients |-> [s \in {} |-> 0]]
    /\ faults = 0
    /\ bought = [s \in Symbols |-> Balance(s)]
    /\ ledger = [s \in Symbols |-> Balance(s)]
    /\ clash = {}
    /\ strayed = FALSE

---------------------------------------------------------------------------
(* Orders: MockBrokerAdapter.submit_order.                                 *)

Goto(c, s) == stage' = [stage EXCEPT ![c] = s]
Order(c) == Head(todo[c])

\* The order is over: the client turns to its next one.
NextOrder(c) ==
    /\ todo' = [todo EXCEPT ![c] = Tail(@)]
    /\ Goto(c, IF Tail(todo[c]) = <<>> THEN "ended" ELSE "store")

\* submit_order raised.
OrderRaises(c) ==
    IF c \in Tolerant THEN NextOrder(c) ELSE Goto(c, "failed") /\ UNCHANGED todo

\* A client turns to a list of orders: the one of an automation flow, those of a
\* rebalance that has taken its summary, or none.
Execute(c, orders) ==
    /\ stage[c] \in {"idle", "summed"}
    /\ todo' = [todo EXCEPT ![c] = orders]
    /\ Goto(c, IF orders = <<>> THEN "ended" ELSE "store")
    /\ UNCHANGED <<holdings, session, summary, faults, history>>

Store(c) ==
    LET o == Order(c)
    IN  /\ stage[c] = "store"
        /\ bought' = IF o.side = "BUY" THEN [bought EXCEPT ![o.symbol] = @ + o.quantity]
                     ELSE bought
        /\ Goto(c, "stored")
        /\ UNCHANGED <<holdings, todo, session, summary, faults, ledger, clash, strayed>>

\* Mutant: without max(0.0, ...).
Minus_NoFloor(m, n) == m - n

Minus(m, n) == IF m > n THEN m - n ELSE 0

\* One sequential order on a balance.
Booked(balance, o) ==
    IF o.side = "BUY" THEN balance + o.quantity ELSE Minus(balance, o.quantity)
Book(o) == ledger' = [ledger EXCEPT ![o.symbol] = Booked(@, o)]

InSession(s) == {c \in Clients : stage[c] = "loaded" /\ Order(c).symbol = s}

\* A SELL of what is not held ends here.
LoadHolding(c) ==
    LET o == Order(c)
        i == First(o.symbol)
    IN  /\ stage[c] = "stored"
        /\ clash' = IF InSession(o.symbol) = {} THEN clash ELSE clash \cup {o.symbol}
        /\ IF o.side = "SELL" /\ i = 0
           THEN NextOrder(c) /\ Book(o) /\ UNCHANGED session
           ELSE /\ Goto(c, "loaded")
                /\ loaded' = [loaded EXCEPT ![c] = i]
                /\ row' = [row EXCEPT ![c] = IF i = 0 THEN Gone ELSE holdings[i]]
                /\ UNCHANGED <<todo, ledger>>
        /\ UNCHANGED <<holdings, summary, faults, bought, strayed>>

NewId == IF holdings = Empty THEN 1 ELSE Max({i \in Ids : holdings[i] # Gone}) + 1

Close(c) ==
    /\ loaded' = [loaded EXCEPT ![c] = 0]
    /\ row' = [row EXCEPT ![c] = Gone]

Strays(c) ==
    strayed' = (strayed \/ holdings[loaded[c]].symbol \notin {row[c].symbol, Gone.symbol})

\* The first BUY of a symbol.
Insert(c) ==
    LET o == Order(c)
    IN  /\ stage[c] = "loaded"
        /\ loaded[c] = 0
        /\ NewId \in Ids
        /\ holdings' = [holdings EXCEPT ![NewId] =
                           [symbol |-> o.symbol, quantity |-> o.quantity, price |-> o.price]]
        /\ loaded' = [loaded EXCEPT ![c] = NewId]
        /\ Book(o)
        /\ Goto(c, "refresh")
        /\ UNCHANGED <<todo, row, summary, faults, bought, clash, strayed>>

\* Mutant: a SELL adds, too.
Left_Adds(c) == row[c].quantity + Order(c).quantity

\* The quantity that the session writes, from the one it loaded.
Left(c) == Booked(row[c].quantity, Order(c))

\* quantity always differs from what was loaded, current_price only if the order's
\* price does.
Update(c) ==
    LET o == Order(c)
        dirty == o.side = "BUY" /\ o.price # row[c].price
    IN  /\ stage[c] = "loaded"
        /\ loaded[c] # 0
        /\ Left(c) > 0
        /\ holdings[loaded[c]] # Gone
        /\ holdings' = [holdings EXCEPT ![loaded[c]].quantity = Left(c),
                                        ![loaded[c]].price = IF dirty THEN o.price ELSE @]
        /\ Strays(c)
        /\ Book(o)
        /\ Goto(c, "refresh")
        /\ UNCHANGED <<todo, session, summary, faults, bought, clash>>

\* An UPDATE that finds no row raises StaleDataError.
UpdateNothing(c) ==
    /\ stage[c] = "loaded"
    /\ loaded[c] # 0
    /\ Left(c) > 0
    /\ holdings[loaded[c]] = Gone
    /\ Close(c)
    /\ OrderRaises(c)
    /\ UNCHANGED <<holdings, summary, faults, history>>

\* Mutant: the session is closed without a commit.
Delete_Forgotten(c) ==
    /\ stage[c] = "loaded"
    /\ loaded[c] # 0
    /\ Left(c) = 0
    /\ Strays(c)
    /\ Book(Order(c))
    /\ Close(c)
    /\ NextOrder(c)
    /\ UNCHANGED <<holdings, summary, faults, bought, clash>>

\* A DELETE that finds no row only warns.
Delete(c) ==
    /\ stage[c] = "loaded"
    /\ loaded[c] # 0
    /\ Left(c) = 0
    /\ holdings' = [holdings EXCEPT ![loaded[c]] = Gone]
    /\ Strays(c)
    /\ Book(Order(c))
    /\ Close(c)
    /\ NextOrder(c)
    /\ UNCHANGED <<summary, faults, bought, clash>>

\* session.refresh raises if the row has been deleted since the commit.
Refresh(c) ==
    /\ stage[c] = "refresh"
    /\ IF holdings[loaded[c]] # Gone THEN NextOrder(c) ELSE OrderRaises(c)
    /\ Close(c)
    /\ UNCHANGED <<holdings, summary, faults, history>>

---------------------------------------------------------------------------
(* The summary: PortfolioService.get_summary.                              *)

AskSummary(c) ==
    /\ stage[c] = "idle"
    /\ Goto(c, "listing")
    /\ UNCHANGED <<holdings, todo, session, summary, faults, history>>

Listed(c) == {view[c][i].symbol : i \in {j \in Ids : view[c][j] # Gone}}

\* Without holdings there is nothing to price.
ListHoldings(c) ==
    /\ stage[c] = "listing"
    /\ view' = [view EXCEPT ![c] = holdings]
    /\ Goto(c, IF holdings = Empty THEN "summing" ELSE "quoting")
    /\ UNCHANGED <<holdings, todo, session, prices, faults, history>>

\* A quote that fails leaves the price that was listed.
Answers(c, s) == Quotes \cup {view[c][i].price : i \in {j \in Ids : view[c][j].symbol = s}}

FetchPrices(c) ==
    /\ stage[c] = "quoting"
    /\ \E p \in [Listed(c) -> UNION {Answers(c, s) : s \in Listed(c)}] :
          /\ \A s \in Listed(c) : p[s] \in Answers(c, s)
          /\ prices' = [prices EXCEPT ![c] = p]
    /\ Goto(c, "pricing")
    /\ UNCHANGED <<holdings, todo, session, view, faults, history>>

\* update_prices loads the rows of the symbols it has prices for.
LoadPriced(c) ==
    /\ stage[c] = "pricing"
    /\ view' = [view EXCEPT ![c] =
                   [i \in Ids |-> IF holdings[i].symbol \in DOMAIN prices[c]
                                  THEN holdings[i] ELSE Gone]]
    /\ Goto(c, "repricing")
    /\ UNCHANGED <<holdings, todo, session, prices, faults, history>>

Priced(c) == {i \in Ids : view[c][i] # Gone}
NewPrice(c, i) == prices[c][view[c][i].symbol]

\* Every loaded row is updated, for last_updated changes; if one is missing the
\* session raises and changes none.
SavePrices(c) ==
    /\ stage[c] = "repricing"
    /\ IF \E i \in Priced(c) : holdings[i] = Gone
       THEN UNCHANGED holdings /\ Goto(c, "failed")
       ELSE /\ holdings' = [i \in Ids |->
                  IF i \in Priced(c) /\ NewPrice(c, i) # view[c][i].price
                  THEN [holdings[i] EXCEPT !.price = NewPrice(c, i)] ELSE holdings[i]]
            /\ Goto(c, "summing")
    /\ UNCHANGED <<todo, session, summary, faults, history>>

Summarise(c) ==
    /\ stage[c] = "summing"
    /\ view' = [view EXCEPT ![c] = holdings]
    /\ Goto(c, "summed")
    /\ UNCHANGED <<holdings, todo, session, prices, faults, history>>

---------------------------------------------------------------------------
\* A database error: in an order it raises out of submit_order, in a summary out of
\* get_summary.
Fault(c) ==
    /\ faults < MaxFaults
    /\ faults' = faults + 1
    /\ \/ stage[c] \in Ordering /\ OrderRaises(c)
       \/ stage[c] \in Summing \ {"quoting"} /\ Goto(c, "failed") /\ UNCHANGED todo
    /\ Close(c)
    /\ UNCHANGED <<holdings, summary, history>>

Submit(c) ==
    \/ Store(c) \/ LoadHolding(c) \/ Insert(c) \/ Update(c) \/ UpdateNothing(c)
    \/ Delete(c) \/ Refresh(c)

Sum(c) ==
    ListHoldings(c) \/ FetchPrices(c) \/ LoadPriced(c) \/ SavePrices(c) \/ Summarise(c)

Next ==
    \E c \in Clients :
        \/ todo'[c] \in Seq(OrderType) /\ Execute(c, todo'[c])
        \/ AskSummary(c)
        \/ Submit(c)
        \/ Sum(c)
        \/ Fault(c)

Spec == Init /\ [][Next]_vars

---------------------------------------------------------------------------
(* Properties.                                                             *)

TypeOK ==
    /\ holdings \in Tables
    /\ stage \in [Clients -> Stage]
    /\ todo \in [Clients -> Seq(OrderType)]
    /\ loaded \in [Clients -> Ids \cup {0}]
    /\ row \in [Clients -> Holding \cup {Gone}]
    /\ view \in [Clients -> Tables]
    /\ DOMAIN prices = Clients
    /\ \A c \in Clients : DOMAIN prices[c] \subseteq Symbols /\ prices[c] \in [DOMAIN prices[c] -> Nat]
    /\ faults \in 0..MaxFaults
    /\ bought \in [Symbols -> Nat]
    /\ ledger \in [Symbols -> Nat]
    /\ clash \subseteq Symbols
    /\ strayed \in BOOLEAN

\* Orders that get in each other's way lose shares and never invent any: what the
\* table holds of a symbol, in one row or in several, was bought by stored orders.
\* (An order booked on another symbol's row, the key having been reused, is beyond it.)
NoPhantomShares == ~strayed => \A s \in Symbols : Held(s) <= bought[s]

\* A symbol whose orders were never in progress together has one row or none, and its
\* quantity is what its booked orders add up to, sales clamped at zero: orders on other
\* symbols, price refreshes, errors and failed orders do not disturb it.  (The same
\* exception.)
LedgerWhenApart ==
    ~strayed => \A s \in Symbols \ clash :
        /\ RowsOf(s) = {} => ledger[s] = 0
        /\ \A i, j \in RowsOf(s) : i = j /\ holdings[i].quantity = ledger[s]
=============================================================================
