------------------------------- MODULE Backtest -------------------------------
(***************************************************************************)
(* The backtest (services/backtest): one pass over the bars of a symbol,   *)
(* the metrics of its equity curve and the walk-forward validation.        *)
(*                                                                         *)
(* A bar is its close.  Prices and money are whole numbers of a small      *)
(* unit, shares are counted in parts of 1/Lot, and a quotient is rounded   *)
(* down, where the code has floats.  A Sharpe ratio is kept exact only as  *)
(* far as it is 0; otherwise it is one of Scores.                          *)
(***************************************************************************)
EXTENDS Integers, SequencesExt

CONSTANTS ShortWindow, LongWindow,  \* 5 and 20 bars
          WalkForwardBars,          \* 20: with fewer bars there is no walk-forward
          Cheap,                    \* 95: the price below which valuation_band buys
          InitialCash, Lot,
          Scores                    \* Sharpe ratios, in hundredths

ASSUME BacktestAssumption ==
    /\ ShortWindow \in 1..LongWindow /\ WalkForwardBars \in Nat
    /\ InitialCash \in Nat \ {0} /\ Lot \in Nat \ {0}
    /\ Scores \subseteq Int

Total(s) == FoldLeft(+, 0, s)
LastBars(s, n) == SubSeq(s, Len(s) - n + 1, Len(s))

\* mean(short) > mean(long) * 1.003, and < mean(long) * 0.997, without fractions.
Cross(bars) ==
    LET short == Total(LastBars(bars, ShortWindow)) * LongWindow * 1000
        long == Total(LastBars(bars, LongWindow)) * ShortWindow
    IN  CASE short > long * 1003 -> "BUY"
          [] short < long * 997 -> "SELL"
          [] OTHER -> "HOLD"

Signal(bars, strategy) ==
    CASE strategy = "valuation_band" -> IF Last(bars) < Cheap THEN "BUY" ELSE "HOLD"
      [] strategy # "valuation_band" /\ Len(bars) < LongWindow -> "HOLD"
      [] OTHER -> Cross(bars)

\* Who buys pays more, who sells receives less.
Slipped(price, side, bps) ==
    IF bps <= 0 THEN price
    ELSE (price * (IF side = "BUY" THEN 10000 + bps ELSE 10000 - bps)) \div 10000

Start == [cash |-> InitialCash, shares |-> 0, entry |-> 0, wins |-> 0, closed |-> 0,
          trades |-> 0, curve |-> <<>>]

\* Half of the cash is spent, as counted before the commission.
Buy(a, close, request) ==
    LET price == Slipped(close, "BUY", request.bps)
        half == a.cash \div 2
    IN  [a EXCEPT !.cash = @ - request.commission - half,
                  !.shares = (half * Lot) \div price,
                  !.entry = price,
                  !.trades = @ + 1]

Win(price, a) == IF price > a.entry THEN 1 ELSE 0

Sell(a, close, request) ==
    LET price == Slipped(close, "SELL", request.bps)
    IN  [a EXCEPT !.cash = @ - request.commission + (a.shares * price) \div Lot,
                  !.shares = 0,
                  !.wins = @ + Win(price, a),
                  !.closed = @ + 1,
                  !.trades = @ + 1]

Trade(a, close, seen, request) ==
    LET signal == Signal(seen, request.strategy)
    IN  CASE signal = "BUY" /\ a.shares = 0 -> Buy(a, close, request)
          [] signal = "SELL" /\ a.shares > 0 -> Sell(a, close, request)
          [] OTHER -> a

Mark(a, close) == [a EXCEPT !.curve = Append(@, a.cash + (a.shares * close) \div Lot)]

\* Mutant: bars[: index + 2].
SeenAt_OneMore(bars, n) == SubSeq(bars, 1, IF n < Len(bars) THEN n + 1 ELSE n)

\* The bars that the signal of the n-th bar is computed from.
SeenAt(bars, n) == SubSeq(bars, 1, n)

\* An open position counts as closed at the last price.
Finish(a, close) ==
    IF a.shares > 0 THEN [a EXCEPT !.closed = @ + 1, !.wins = @ + Win(close, a)] ELSE a

RunSingle(bars, request) ==
    LET after[n \in 0..Len(bars)] ==
            IF n = 0 THEN Start
            ELSE Mark(Trade(after[n - 1], bars[n], SeenAt(bars, n), request), bars[n])
    IN  IF Len(bars) < 2 THEN [Start EXCEPT !.curve = <<InitialCash>>]
        ELSE Finish(after[Len(bars)], Last(bars))

---------------------------------------------------------------------------
\* Fractions with a positive denominator.
Below(f, g) == f[1] * g[2] < g[1] * f[2]

\* One pass that carries the highest point so far.
MaxDrawdown(curve) ==
    LET step(acc, e) ==
            LET peak == IF e > acc.peak THEN e ELSE acc.peak
                fall == <<peak - e, peak>>
            IN  [peak |-> peak,
                 worst |-> IF peak > 0 /\ Below(acc.worst, fall) THEN fall ELSE acc.worst]
    IN  FoldLeft(step, [peak |-> curve[1], worst |-> <<0, 1>>], curve).worst

\* The returns all agree: their deviation is 0.
Steady(curve) ==
    LET From == {n \in 1..Len(curve) - 1 : curve[n] # 0}
    IN  \A m, n \in From : curve[m + 1] * curve[n] = curve[n + 1] * curve[m]

\* Mutant: the mean itself when there is no deviation.
Sharpes_NoGuard(curve) == IF Len(curve) < 3 THEN {0} ELSE Scores

\* The Sharpe ratios that a curve may have.
Sharpes(curve) == IF Len(curve) < 3 \/ Steady(curve) THEN {0} ELSE Scores

\* oos_dd / is_dd <= tenths / 10, where 0 stands for a quotient by 0.
FallRatioWithin(isFall, oosFall, tenths) ==
    isFall[1] = 0 \/ 10 * oosFall[1] * isFall[2] <= tenths * isFall[1] * oosFall[2]

Badge(is, oos, isFall, oosFall) ==
    LET AtLeast(tenths) == 10 * oos >= tenths * is
    IN  IF is <= 0 THEN "F"
        ELSE IF AtLeast(8) /\ FallRatioWithin(isFall, oosFall, 15) THEN "A"
        ELSE IF AtLeast(6) /\ FallRatioWithin(isFall, oosFall, 20) THEN "B"
        ELSE IF AtLeast(4) THEN "C"
        ELSE IF AtLeast(2) THEN "D"
        ELSE "F"

HasWalkForward(bars) == Len(bars) >= WalkForwardBars

\* The two parts are run one by one, each from the initial cash.
WalkForward(bars, request) ==
    LET split == (Len(bars) * request.train) \div 100
    IN  [train |-> RunSingle(SubSeq(bars, 1, split), request),
         test |-> RunSingle(SubSeq(bars, split + 1, Len(bars)), request)]

---------------------------------------------------------------------------
\* What the engine does up to a bar depends on no later bar: the curve of the first n
\* bars is the beginning of the curve of them all.  (Of a single bar, a run makes one
\* point without trading.)
LooksBack(bars, request) ==
    \A n \in 2..Len(bars) :
        RunSingle(SubSeq(bars, 1, n), request).curve
            = SubSeq(RunSingle(bars, request).curve, 1, n)

\* A badge above F is earned: the test part has traded at all.  A test part shorter
\* than the long window never does, so that its badge is F whatever the market did.
Earned(bars, request) ==
    LET runs == WalkForward(bars, request)
        badge(is, oos) == Badge(is, oos, MaxDrawdown(runs.train.curve),
                                MaxDrawdown(runs.test.curve))
    IN  \A is \in Sharpes(runs.train.curve), oos \in Sharpes(runs.test.curve) :
            badge(is, oos) # "F" => runs.test.trades > 0 /\ runs.train.trades > 0
=============================================================================
