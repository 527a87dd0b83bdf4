---------------------------- MODULE MCRebalance ----------------------------
(* A small instance of the rebalance for TLC: one workflow among other clients. *)
EXTENDS Rebalance, TLC

CONSTANTS A, B, w1, c1, c2

Limit(s, side, n, p) == [symbol |-> s, side |-> side, quantity |-> n, price |-> p]
Orders == {Limit(A, "BUY", 4, 1), Limit(A, "SELL", 4, 1), Limit(B, "BUY", 1, 2)}

\* Earlier orders have left some A.
HeldBefore == {[Empty EXCEPT ![1] = [symbol |-> A, quantity |-> 4, price |-> 1]]}

Target(s, t) == [symbol |-> s, target |-> t]
\* Sell out, reduce and buy, a limit exceeded.
Decisions == {<<Target(A, 0), Target(B, 3)>>, <<Target(B, 1), Target(A, 4)>>,
              <<Target(A, 5)>>}

\* The watchlist is left alone once the only workflow that reads it has done so.
NextWatchFirst == RNext /\ (stage[w1] # "idle" => UNCHANGED watchlist)
SpecWatchFirst == RInit /\ [][NextWatchFirst]_rvars

Interchangeable == Permutations(Clients \ Workflows)
=============================================================================
