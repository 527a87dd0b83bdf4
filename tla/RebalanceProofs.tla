-------------------------- MODULE RebalanceProofs --------------------------
(***************************************************************************)
(* The rebalance workflow is a client of the holdings, its fallback trades *)
(* nothing, and an approved proposal that no one disturbs ends near its    *)
(* targets and within the limit: for any symbols, workflows, other         *)
(* clients, prices, decisions and limits.                                  *)
(***************************************************************************)
EXTENDS Rebalance, HoldingsProofs

---------------------------------------------------------------------------
(* The loop that builds a proposal.                                        *)

IsPick(f, s, keep) ==
    f = [n \in 0..Len(s) |->
            IF n = 0 THEN <<>>
            ELSE IF n \in keep THEN Append(f[n - 1], s[n]) ELSE f[n - 1]]

\* There is a pass of the loop over every sequence.
LEMMA PickExists ==
    ASSUME NEW X, NEW s \in Seq(X), NEW keep
    PROVE  \E f : IsPick(f, s, keep)
<1> DEFINE Unfold1(f, n) == IF n = 0 THEN <<>>
                            ELSE IF n \in keep THEN Append(f[n - 1], s[n]) ELSE f[n - 1]
           L == 0..Len(s)
           Upto(n, f) == f = [i \in L |-> f[i]] /\ \A i \in 0..n : f[i] = Unfold1(f, i)
           Fails == {n \in L : ~ \E f : Upto(n, f)}
<1>1. Len(s) \in Nat
  OBVIOUS
<1>2. Fails = {}
  <2> SUFFICES ASSUME Fails # {} PROVE FALSE
    OBVIOUS
  <2>1. PICK n \in Fails : \A m \in Fails : n <= m
    <3>1. Fails \in SUBSET Nat
      BY <1>1
    <3> HIDE DEF Fails
    <3>2. QED
      BY <3>1, LeastExists
  <2>2. n \in L /\ n \in Nat
    BY <1>1, <2>1
  <2>3. n # 0
    <3> DEFINE f == [i \in L |-> <<>>]
    <3>1. Upto(0, f)
      BY <1>1
    <3>2. QED
      BY <2>1, <3>1
  <2>4. n - 1 \in L /\ n - 1 \notin Fails
    BY <1>1, <2>1, <2>2, <2>3
  <2>5. PICK f : Upto(n - 1, f)
    BY <2>4
  <2> DEFINE g == [i \in L |-> IF i = n THEN Unfold1(f, n) ELSE f[i]]
  <2>6. \A i \in 0..n - 1 : g[i] = f[i]
    BY <1>1, <2>2
  <2>7. g = [i \in L |-> g[i]]
    OBVIOUS
  <2>8. g[n] = Unfold1(f, n)
    BY <2>2
  <2> HIDE DEF g
  <2>9. ASSUME NEW i \in 0..n PROVE g[i] = Unfold1(g, i)
    <3>1. CASE i = n
      <4>1. g[n - 1] = f[n - 1]
        BY <2>2, <2>3, <2>6
      <4>2. QED
        BY <2>3, <2>8, <3>1, <4>1
    <3>2. CASE i # n
      <4>1. i \in 0..n - 1 /\ (i # 0 => i - 1 \in 0..n - 1)
        BY <2>2, <3>2
      <4>2. f[i] = Unfold1(f, i)
        BY <2>5, <4>1
      <4>3. g[i] = f[i] /\ (i # 0 => g[i - 1] = f[i - 1])
        BY <2>6, <4>1
      <4>4. QED
        BY <4>2, <4>3
    <3>3. QED
      BY <3>1, <3>2
  <2>10. Upto(n, g)
    BY <2>7, <2>9
  <2>11. QED
    BY <2>1, <2>10
<1>3. PICK f : Upto(Len(s), f)
  BY <1>1, <1>2
<1>4. f = [i \in L |-> f[i]] /\ \A i \in L : f[i] = Unfold1(f, i)
  BY <1>3
<1>5. f = [i \in L |-> Unfold1(f, i)]
  BY <1>4
<1>6. QED
  BY <1>5 DEF IsPick

\* The entries of s at the positions in keep, each once.
Entries(p, s, keep, X) ==
    /\ p \in Seq(X)
    /\ \E at \in [DOMAIN p -> keep] :
          /\ \A i \in DOMAIN p : p[i] = s[at[i]]
          /\ \A i, j \in DOMAIN p : at[i] = at[j] => i = j
          /\ \A k \in keep : \E i \in DOMAIN p : at[i] = k

LEMMA PickedEntries ==
    ASSUME NEW X, NEW s \in Seq(X), NEW keep \in SUBSET (1..Len(s))
    PROVE  Entries(Picked(s, keep), s, keep, X)
<1> DEFINE Kept(n) == keep \cap 1..n
           Good(p, n) ==
              /\ p \in Seq(X)
              /\ \E at \in [1..Len(p) -> Kept(n)] :
                    /\ \A i \in 1..Len(p) : p[i] = s[at[i]]
                    /\ \A i, j \in 1..Len(p) : at[i] = at[j] => i = j
                    /\ \A k \in Kept(n) : \E i \in 1..Len(p) : at[i] = k
<1>1. Picked(s, keep) = (CHOOSE f : IsPick(f, s, keep))[Len(s)]
  BY DEF Picked, IsPick
<1>2. PICK f : IsPick(f, s, keep) /\ Picked(s, keep) = f[Len(s)]
  BY <1>1, PickExists
<1>3. \A n \in 0..Len(s) : f[n] = IF n = 0 THEN <<>>
                                  ELSE IF n \in keep THEN Append(f[n - 1], s[n]) ELSE f[n - 1]
  BY <1>2 DEF IsPick
<1>4. Len(s) \in Nat /\ \A n \in 1..Len(s) : s[n] \in X
  OBVIOUS
<1>5. Good(f[0], 0)
  <2>1. f[0] = <<>>
    BY <1>3, <1>4
  <2>2. Len(f[0]) = 0 /\ f[0] \in Seq(X) /\ Kept(0) = {} /\ 1..0 = {}
    BY <2>1
  <2>3. [i \in {} |-> i] \in [{} -> {}]
    OBVIOUS
  <2>4. QED
    BY <2>2, <2>3
<1>6. ASSUME NEW n \in 1..Len(s), Good(f[n - 1], n - 1) PROVE Good(f[n], n)
  <2> DEFINE p == f[n - 1]
             q == f[n]
  <2>1. n \in Nat /\ n \in 0..Len(s) /\ n # 0
    BY <1>4
  <2>2. PICK at \in [1..Len(p) -> Kept(n - 1)] :
            /\ \A i \in 1..Len(p) : p[i] = s[at[i]]
            /\ \A i, j \in 1..Len(p) : at[i] = at[j] => i = j
            /\ \A k \in Kept(n - 1) : \E i \in 1..Len(p) : at[i] = k
    BY <1>6
  <2>3. p \in Seq(X) /\ Len(p) \in Nat
    BY <1>6
  <2>4. q = IF n \in keep THEN Append(p, s[n]) ELSE p
    BY <1>3, <2>1
  <2> HIDE DEF p, q
  <2>5. CASE n \notin keep
    <3>1. Kept(n) = Kept(n - 1) /\ q = p
      BY <2>1, <2>4, <2>5
    <3>2. QED
      BY <2>2, <2>3, <3>1 DEF q
  <2>6. CASE n \in keep
    <3> DEFINE at2 == [i \in 1..Len(q) |-> IF i = Len(q) THEN n ELSE at[i]]
    <3>1. Kept(n) = Kept(n - 1) \cup {n} /\ n \notin Kept(n - 1)
      BY <2>1, <2>6
    <3>2. /\ q \in Seq(X) /\ Len(q) = Len(p) + 1 /\ q[Len(q)] = s[n]
          /\ \A i \in 1..Len(p) : q[i] = p[i]
      BY <1>4, <2>3, <2>4, <2>6
    <3>3. \A i \in 1..Len(q) : i = Len(q) \/ i \in 1..Len(p)
      BY <2>3, <3>2
    <3>4. Len(q) \in 1..Len(q) /\ Len(q) \notin 1..Len(p)
      BY <2>3, <3>2
    <3>5. \A i \in 1..Len(p) : i \in 1..Len(q) /\ i # Len(q)
      BY <2>3, <3>2
    <3>6. at2 \in [1..Len(q) -> Kept(n)]
      BY <2>2, <3>1, <3>3
    <3>7. at2[Len(q)] = n /\ \A i \in 1..Len(p) : at2[i] = at[i]
      BY <3>4, <3>5
    <3> HIDE DEF at2, Kept
    <3>8. \A i \in 1..Len(q) : q[i] = s[at2[i]]
      BY <2>2, <3>2, <3>3, <3>7
    <3>9. \A i, j \in 1..Len(q) : at2[i] = at2[j] => i = j
      BY <2>2, <3>1, <3>3, <3>7
    <3>10. \A k \in Kept(n) : \E i \in 1..Len(q) : at2[i] = k
      BY <2>2, <3>1, <3>4, <3>5, <3>7
    <3>11. QED
      BY <3>2, <3>6, <3>8, <3>9, <3>10 DEF q
  <2>7. QED
    BY <2>5, <2>6
<1>7. \A n \in 0..Len(s) : Good(f[n], n)
  <2> DEFINE Fails == {n \in 0..Len(s) : ~ Good(f[n], n)}
  <2> HIDE DEF Good
  <2>1. Fails \in SUBSET Nat
    BY <1>4
  <2> SUFFICES ASSUME Fails # {} PROVE FALSE
    OBVIOUS
  <2>2. PICK n \in Fails : \A m \in Fails : n <= m
    BY <2>1, LeastExists
  <2>3. n \in 1..Len(s) /\ n - 1 \in 0..Len(s) /\ n - 1 \notin Fails
    BY <1>4, <1>5, <2>2
  <2>4. QED
    BY <1>6, <2>2, <2>3
<1>8. Good(Picked(s, keep), Len(s))
  <2> HIDE DEF Good
  <2>1. QED
    BY <1>2, <1>4, <1>7
<1>9. Kept(Len(s)) = keep
  BY <1>4
<1>10. DOMAIN Picked(s, keep) = 1..Len(Picked(s, keep))
  BY <1>8
<1> HIDE DEF Kept
<1>11. QED
  BY <1>8, <1>9, <1>10 DEF Entries

---------------------------------------------------------------------------
(* What the summary says, and what is computed from it.                    *)

\* Twice the error of a rounded quotient, times the divisor, is the divisor at most.
LEMMA RoundDivIs ==
    ASSUME NEW n \in Nat, NEW d \in Nat \ {0}
    PROVE  /\ RoundDiv(n, d) \in Nat
           /\ 2 * n - d <= 2 * (RoundDiv(n, d) * d)
           /\ 2 * (RoundDiv(n, d) * d) <= 2 * n + d
<1> DEFINE q == n \div d
           r == n % d
<1>1. q \in Nat /\ r \in Nat /\ r < d
  OBVIOUS
<1>2. n = d * q + r
  OBVIOUS
<1>3. d * q \in Nat /\ q * d = d * q /\ (q + 1) * d = d * q + d
  BY <1>1
<1>4. RoundDiv(n, d) = IF 2 * r > d \/ (2 * r = d /\ q % 2 = 1) THEN q + 1 ELSE q
  BY DEF RoundDiv
<1> HIDE DEF q, r
<1>5. CASE 2 * r > d \/ (2 * r = d /\ q % 2 = 1)
  <2>1. RoundDiv(n, d) = q + 1 /\ 2 * r >= d
    BY <1>1, <1>4, <1>5
  <2>2. QED
    BY <1>1, <1>2, <1>3, <2>1
<1>6. CASE ~ (2 * r > d \/ (2 * r = d /\ q % 2 = 1))
  <2>1. RoundDiv(n, d) = q /\ 2 * r <= d
    BY <1>1, <1>4, <1>6
  <2>2. QED
    BY <1>1, <1>2, <1>3, <2>1
<1>7. QED
  BY <1>5, <1>6

LEMMA ValuesAreNat ==
    ASSUME TypeInv, NEW w \in Clients
    PROVE  \A i \in Ids : /\ Value(view[w][i]) \in Nat
                          /\ view[w][i].quantity \in Nat /\ view[w][i].price \in Nat
<1> SUFFICES ASSUME NEW i \in Ids
             PROVE  /\ Value(view[w][i]) \in Nat
                    /\ view[w][i].quantity \in Nat /\ view[w][i].price \in Nat
  OBVIOUS
<1>1. view[w][i] \in Holding \cup {Gone}
  BY DEF TypeInv, TypeOK, Tables
<1>2. view[w][i].quantity \in Nat /\ view[w][i].price \in Nat
  BY <1>1 DEF Holding, Gone
<1>3. QED
  BY <1>2 DEF Value

\* The total of a summary as a SumOf, which has the same terms when the summary has.
TotalsAreSums ==
    \A w \in Clients : Total(w) = Cash + SumOf([i \in Ids |-> Value(view[w][i])], Ids)

LEMMA TotalIsSum == TypeInv => TotalsAreSums
<1> SUFFICES ASSUME TypeInv, NEW w \in Clients
             PROVE  Total(w) = Cash + SumOf([i \in Ids |-> Value(view[w][i])], Ids)
  BY DEF TotalsAreSums
<1> DEFINE f == [i \in Ids |-> Value(view[w][i])]
           Base(g) == g = [t \in SUBSET Ids |->
                              IF t = {} THEN 0
                              ELSE Value(view[w][CHOOSE x \in t : TRUE])
                                       + g[t \ {CHOOSE x \in t : TRUE}]]
<1>1. \A i \in Ids : f[i] \in Nat
  BY ValuesAreNat
<1>2. Total(w) = Cash + (CHOOSE g : Base(g))[Ids]
  BY DEF Total, MapThenSumSet, MapThenFoldSet
<1>3. ASSUME NEW g PROVE Base(g) <=> IsIter(g, f, Ids)
  <2>1. \A t \in SUBSET Ids : t # {} =>
            f[CHOOSE x \in t : TRUE] = Value(view[w][CHOOSE x \in t : TRUE])
    OBVIOUS
  <2> HIDE DEF f
  <2>2. QED
    BY <2>1 DEF IsIter, Unfold, Taken
<1> HIDE DEF f, Base
<1>4. PICK g : g = (CHOOSE h : Base(h)) /\ Base(g)
  BY <1>3, IdsAreFinite, IterExists
<1>5. IsSum(g, f, Ids)
  BY <1>1, <1>3, <1>4, IdsAreFinite, IterSums
<1>6. SumOf(f, Ids) = g[Ids]
  BY <1>1, <1>5, IdsAreFinite, SumsAgree
<1>7. QED
  BY <1>2, <1>4, <1>6 DEF f

LEMMA TotalIsSumNext == TypeInv' => TotalsAreSums'
  BY TotalIsSum, PTL

LEMMA TotalType ==
    ASSUME TypeInv, NEW w \in Clients
    PROVE  Total(w) \in Nat \ {0}
<1> DEFINE f == [i \in Ids |-> Value(view[w][i])]
<1>1. Total(w) = Cash + SumOf(f, Ids)
  BY TotalIsSum DEF TotalsAreSums
<1>2. \A i \in Ids : f[i] \in Nat
  BY ValuesAreNat
<1> HIDE DEF f
<1>3. SumOf(f, Ids) \in Nat
  BY <1>2, IdsAreFinite, SumType
<1>4. QED
  BY <1>1, <1>3, RebalanceAssumption

LEMMA WeightType ==
    ASSUME TypeInv, NEW w \in Clients, NEW i \in Ids
    PROVE  Weight(w, i) \in Nat
<1>1. Value(view[w][i]) * Scale \in Nat
  BY ValuesAreNat, RebalanceAssumption
<1>2. QED
  BY <1>1, TotalType, RoundDivIs DEF Weight

\* The row whose price and weight count is one of the symbol's.
LEMMA RowInIs ==
    ASSUME TypeInv, NEW w \in Clients, NEW s \in Listed(w)
    PROVE  /\ s \in Symbols
           /\ RowIn(w, s) \in HeldIds(w)
           /\ view[w][RowIn(w, s)].symbol = s
<1> DEFINE S == {i \in Ids : view[w][i].symbol = s}
<1>1. PICK i \in Ids : view[w][i] # Gone /\ view[w][i].symbol = s
  BY DEF Listed
<1>2. view[w] \in Tables
  BY DEF TypeInv, TypeOK
<1>3. s \in Symbols
  BY <1>1, <1>2, RowKinds
<1>4. S # {} /\ S \subseteq 1..MaxRows
  BY <1>1 DEF Ids
<1>5. \E x \in S : \A y \in S : x >= y
  BY <1>4, HoldingsAssumption, GreatestExists
<1>6. Max(S) \in S
  BY <1>5 DEF Max
<1>7. view[w][Max(S)] # Gone
  BY <1>3, <1>6, HoldingsAssumption DEF Gone
<1>8. QED
  BY <1>3, <1>6, <1>7 DEF RowIn, HeldIds

\* A decision of the model's or of the fallback's.
Choice == [symbol : Symbols, target : Nat]

LEMMA QuantityType ==
    ASSUME TypeInv, NEW w \in Clients, NEW d \in Choice, d.symbol \in Listed(w)
    PROVE  /\ PriceIn(w, d) \in Nat
           /\ Delta(w, d) \in Int /\ Size(Delta(w, d)) \in Nat
           /\ PriceIn(w, d) > 0 => Quantity(w, d) \in Nat
<1>1. RowIn(w, d.symbol) \in Ids
  BY RowInIs DEF HeldIds
<1>2. PriceIn(w, d) \in Nat
  BY <1>1, ValuesAreNat DEF PriceIn
<1>3. Weight(w, RowIn(w, d.symbol)) \in Nat /\ Total(w) \in Nat /\ d.target \in Nat
  BY <1>1, WeightType, TotalType DEF Choice
<1>4. Delta(w, d) \in Int
  BY <1>3 DEF Delta
<1>5. Size(Delta(w, d)) \in Nat
  BY <1>4 DEF Size
<1>6. ASSUME PriceIn(w, d) > 0 PROVE Quantity(w, d) \in Nat
  <2>1. Scale * PriceIn(w, d) \in Nat \ {0}
    BY <1>2, <1>6, RebalanceAssumption
  <2>2. QED
    BY <1>5, <2>1, RoundDivIs DEF Quantity
<1>7. QED
  BY <1>2, <1>4, <1>5, <1>6

LEMMA TradeType ==
    ASSUME TypeInv, NEW w \in Clients, NEW d \in Choice, Worthwhile(w, d)
    PROVE  TradeFor(w, d).order \in OrderType
<1>1. Quantity(w, d) \in Nat \ {0}
  BY QuantityType DEF Worthwhile
<1>2. QED
  BY <1>1 DEF TradeFor, OrderType, Choice

---------------------------------------------------------------------------
(* Proposals.                                                              *)

LEMMA ConsideredIs ==
    ASSUME NEW X, NEW decisions \in Seq(X)
    PROVE  LET all == Considered(decisions)
           IN  /\ all \in Seq(X) /\ Len(all) \in Nat /\ DOMAIN all = 1..Len(all)
               /\ Len(all) <= Len(decisions)
               /\ \A k \in DOMAIN all : k \in DOMAIN decisions /\ all[k] = decisions[k]
<1> DEFINE n == Min({MaxOrders, Len(decisions)})
<1>1. Len(decisions) \in Nat /\ MaxOrders \in Nat
  BY RebalanceAssumption
<1>2. n \in {MaxOrders, Len(decisions)} /\ n <= Len(decisions)
  <2> DEFINE S == {MaxOrders, Len(decisions)}
  <2>1. S \in SUBSET Nat /\ S # {}
    BY <1>1
  <2>2. \E x \in S : \A y \in S : x <= y
    BY <2>1, LeastExists
  <2>3. QED
    BY <2>2 DEF Min
<1>3. n \in Nat /\ n <= Len(decisions)
  BY <1>1, <1>2
<1> HIDE DEF n
<1>4. /\ SubSeq(decisions, 1, n) \in Seq(X)
      /\ Len(SubSeq(decisions, 1, n)) = n
      /\ \A k \in 1..n : SubSeq(decisions, 1, n)[k] = decisions[k]
  BY <1>3
<1>5. Considered(decisions) = SubSeq(decisions, 1, n)
  BY DEF Considered, n
<1> DEFINE all == Considered(decisions)
<1>6. all \in Seq(X) /\ Len(all) = n /\ \A k \in 1..n : all[k] = decisions[k]
  BY <1>4, <1>5
<1> HIDE DEF all
<1>7. DOMAIN all = 1..Len(all) /\ Len(all) \in Nat
  BY <1>6
<1>8. \A k \in DOMAIN all : k \in DOMAIN decisions /\ all[k] = decisions[k]
  BY <1>1, <1>3, <1>6, <1>7
<1>9. QED
  BY <1>3, <1>6, <1>7, <1>8 DEF all

\* A proposal has one trade for each decision that is worth one.
Matches(w, trades, all, at) ==
    /\ \A k \in DOMAIN trades :
          /\ at[k] \in DOMAIN all
          /\ Worthwhile(w, all[at[k]])
          /\ trades[k] = TradeFor(w, all[at[k]])
    /\ \A j, k \in DOMAIN trades : at[j] = at[k] => j = k
    /\ \A n \in DOMAIN all : Worthwhile(w, all[n]) => \E k \in DOMAIN trades : at[k] = n

\* Every trade of a proposal is on a decision, with the quantity computed from the summary.
LEMMA ProposalMatches ==
    ASSUME NEW w, NEW X, NEW decisions \in Seq(X)
    PROVE  LET trades == Proposal(w, decisions)
           IN  /\ Len(trades) \in Nat /\ DOMAIN trades = 1..Len(trades)
               /\ trades = [k \in 1..Len(trades) |-> trades[k]]
               /\ \E at : Matches(w, trades, Considered(decisions), at)
<1> DEFINE all == Considered(decisions)
           keep == {k \in DOMAIN all : Worthwhile(w, all[k])}
           kept == Picked(all, keep)
           trades == Proposal(w, decisions)
<1>1. all \in Seq(X) /\ DOMAIN all = 1..Len(all)
  BY ConsideredIs
<1>2. keep \in SUBSET (1..Len(all))
  BY <1>1
<1> HIDE DEF all
<1> HIDE DEF keep
<1>3. all \in Seq(X)
  BY <1>1
<1>4. Entries(kept, all, keep, X)
  BY <1>2, <1>3, PickedEntries
<1>5. trades = [k \in DOMAIN kept |-> TradeFor(w, kept[k])]
  BY DEF Proposal, all, keep
<1>6. DOMAIN kept = 1..Len(kept) /\ Len(kept) \in Nat
  BY <1>4 DEF Entries
<1>7. PICK at \in [DOMAIN kept -> keep] :
            /\ \A i \in DOMAIN kept : kept[i] = all[at[i]]
            /\ \A i, j \in DOMAIN kept : at[i] = at[j] => i = j
            /\ \A k \in keep : \E i \in DOMAIN kept : at[i] = k
  BY <1>4 DEF Entries
<1> HIDE DEF kept, trades
<1>8. DOMAIN trades = 1..Len(kept) /\ Len(trades) = Len(kept)
  BY <1>5, <1>6
<1>9. trades = [k \in 1..Len(trades) |-> trades[k]]
  BY <1>5, <1>6, <1>8
<1>10. Matches(w, trades, all, at)
  <2>1. \A n \in DOMAIN all : n \in keep <=> Worthwhile(w, all[n])
    BY DEF keep
  <2>2. keep \in SUBSET DOMAIN all
    BY DEF keep
  <2>3. QED
    BY <1>5, <1>6, <1>8, <1>7, <2>1, <2>2 DEF Matches
<1>11. QED
  BY <1>6, <1>8, <1>9, <1>10 DEF all, trades

Orders(trades) == [k \in DOMAIN trades |-> trades[k].order]

LEMMA OrdersType ==
    ASSUME TypeInv, NEW w \in Clients, NEW decisions \in Seq(Choice)
    PROVE  Orders(Proposal(w, decisions)) \in Seq(OrderType)
<1> DEFINE trades == Proposal(w, decisions)
           all == Considered(decisions)
<1>1. /\ Len(trades) \in Nat /\ DOMAIN trades = 1..Len(trades)
      /\ \E at : Matches(w, trades, all, at)
  BY ProposalMatches
<1>2. all \in Seq(Choice)
  BY ConsideredIs
<1> HIDE DEF trades, all
<1>3. ASSUME NEW k \in 1..Len(trades) PROVE trades[k].order \in OrderType
  <2>1. PICK d \in Choice : Worthwhile(w, d) /\ trades[k] = TradeFor(w, d)
    BY <1>1, <1>2 DEF Matches
  <2>2. QED
    BY <2>1, TradeType
<1>4. QED
  BY <1>1, <1>3 DEF Orders, trades

\* The fallback decides on each row with the weight it has.
LEMMA FallbackIs ==
    ASSUME TypeInv, NEW w \in Clients
    PROVE  /\ Fallback(w) \in Seq(Choice)
           /\ \A k \in DOMAIN Fallback(w) : \E i \in HeldIds(w) :
                  Fallback(w)[k] = [symbol |-> view[w][i].symbol, target |-> Weight(w, i)]
<1> DEFINE ids == [i \in Ids |-> i]
           held == Picked(ids, HeldIds(w))
<1>1. MaxRows \in Nat /\ ids \in Seq(Ids) /\ Len(ids) = MaxRows
  BY HoldingsAssumption DEF Ids
<1>2. HeldIds(w) \in SUBSET (1..Len(ids))
  BY <1>1 DEF HeldIds, Ids
<1>3. \A i \in HeldIds(w) : ids[i] = i
  BY DEF HeldIds
<1> HIDE DEF ids
<1>4. /\ held \in Seq(Ids)
      /\ \E at \in [DOMAIN held -> HeldIds(w)] : \A k \in DOMAIN held : held[k] = ids[at[k]]
  <2>1. Entries(held, ids, HeldIds(w), Ids)
    BY <1>1, <1>2, PickedEntries
  <2>2. QED
    BY <2>1 DEF Entries
<1>5. \A k \in DOMAIN held : held[k] \in HeldIds(w)
  BY <1>3, <1>4
<1>6. \A i \in HeldIds(w) :
          [symbol |-> view[w][i].symbol, target |-> Weight(w, i)] \in Choice
  <2> SUFFICES ASSUME NEW i \in HeldIds(w)
               PROVE  view[w][i].symbol \in Symbols /\ Weight(w, i) \in Nat
    BY DEF Choice
  <2>1. view[w] \in Tables /\ i \in Ids /\ view[w][i] # Gone
    BY DEF HeldIds, TypeInv, TypeOK
  <2>2. QED
    BY <2>1, RowKinds, WeightType
<1>7. Fallback(w) = [k \in DOMAIN held |->
                        [symbol |-> view[w][held[k]].symbol, target |-> Weight(w, held[k])]]
  BY DEF Fallback, ids
<1>8. DOMAIN held = 1..Len(held) /\ Len(held) \in Nat
  BY <1>4
<1> HIDE DEF held
<1>9. QED
  BY <1>5, <1>6, <1>7, <1>8

---------------------------------------------------------------------------
(* The workflow as a client of the holdings.                               *)

DecisionsType(w, decisions) == decisions \in Reports \/ decisions = Fallback(w)

\* Decisions, the fallback's included, are choices between the symbols.
LEMMA DecisionsAreChoices ==
    ASSUME TypeInv, NEW w \in Clients, NEW decisions, DecisionsType(w, decisions)
    PROVE  decisions \in Seq(Choice)
<1>1. Seq(Decision) \subseteq Seq(Choice)
  <2>1. Decision \subseteq Choice
    BY RebalanceAssumption DEF Decision, Choice
  <2>2. QED
    BY <2>1
<1>2. QED
  BY <1>1, FallbackIs, RebalanceAssumption DEF DecisionsType

LEMMA ExecuteIsNext ==
    ASSUME TypeInv, NEW c \in Clients, NEW orders \in Seq(OrderType), Execute(c, orders)
    PROVE  Next
<1>1. todo'[c] = orders
  BY DEF Execute, TypeInv, TypeOK
<1>2. QED
  BY <1>1 DEF Next

LEMMA DecideIsNext ==
    ASSUME TypeInv, NEW w \in Workflows, NEW decisions, DecisionsType(w, decisions),
           NEW isFallback, Decide(w, decisions, isFallback)
    PROVE  Next
<1>1. w \in Clients /\ decisions \in Seq(Choice)
  BY DecisionsAreChoices, HoldingsAssumption DEF Workflows
<1>2. <<>> \in Seq(OrderType) /\ Orders(Proposal(w, decisions)) \in Seq(OrderType)
  BY <1>1, OrdersType
<1>3. Execute(w, <<>>) \/ Execute(w, Orders(Proposal(w, decisions)))
  BY DEF Decide, Orders
<1>4. QED
  BY <1>1, <1>2, <1>3, ExecuteIsNext

\* Every step of a workflow, or of another client, is one of the holdings.
LEMMA StepsAreHoldings == TypeInv /\ [RNext]_rvars => [Next]_vars
<1> SUFFICES ASSUME TypeInv, [RNext]_rvars PROVE [Next]_vars
  OBVIOUS
<1>1. Workflows \subseteq Clients /\ Requests \subseteq OrderType
  BY HoldingsAssumption, RebalanceAssumption DEF Workflows
<1>2. ASSUME NEW s \in Symbols, Watch(s) \/ Unwatch(s) PROVE UNCHANGED vars
  BY <1>2 DEF Watch, Unwatch
<1>3. ASSUME NEW c \in Clients, Request(c) PROVE Next
  <2>1. CASE AskSummary(c)
    BY <2>1 DEF Next
  <2>2. ASSUME NEW o \in Requests, Execute(c, <<o>>) PROVE Next
    <3>1. <<o>> \in Seq(OrderType)
      BY <1>1
    <3>2. QED
      BY <2>2, <3>1, ExecuteIsNext
  <2>3. QED
    BY <1>3, <2>1, <2>2 DEF Request
<1>4. ASSUME NEW c \in Clients, Step(c) PROVE Next
  BY <1>4 DEF Step, Next
<1>5. ASSUME NEW w \in Workflows, NEW forced, RunRebalance(w, forced) PROVE Next
  <2>1. CASE AskSummary(w)
    BY <1>1, <2>1 DEF Next
  <2>2. CASE Execute(w, <<>>)
    <3>1. w \in Clients /\ <<>> \in Seq(OrderType)
      BY <1>1
    <3>2. QED
      BY <2>2, <3>1, ExecuteIsNext
  <2>3. QED
    BY <1>5, <2>1, <2>2 DEF RunRebalance
<1>6. ASSUME NEW w \in Workflows, PayloadRaises(w) PROVE Next
  <2>1. w \in Clients /\ <<>> \in Seq(OrderType)
    BY <1>1
  <2>2. QED
    BY <1>6, <2>1, ExecuteIsNext DEF PayloadRaises
<1>7. ASSUME NEW w \in Workflows, NEW decisions, DecisionsType(w, decisions), NEW b,
             Decide(w, decisions, b)
      PROVE  Next
  BY <1>7, DecideIsNext
<1>8. CASE UNCHANGED rvars
  BY <1>8 DEF rvars
<1>9. QED
  BY <1>2, <1>3, <1>4, <1>5, <1>6, <1>7, <1>8 DEF RNext, DecisionsType

\* Whatever the manager decides, its fallback and the review included, a workflow touches
\* the table only by well-formed orders, one by one, and by summaries: every theorem about
\* Holdings holds of a rebalance among its other clients.
THEOREM RebalanceUsesHoldings == RSpec => UsesHoldings
<1>1. RInit => Init
  BY DEF RInit
<1>2. Init => TypeInv
  BY InitType
<1>3. TypeInv /\ [RNext]_rvars => [Next]_vars
  BY StepsAreHoldings
<1>4. TypeInv /\ [Next]_vars => TypeInv'
  BY NextTypeOK, NextStageInv DEF TypeInv
<1>5. QED
  BY <1>1, <1>2, <1>3, <1>4, PTL DEF RSpec, UsesHoldings, Spec

---------------------------------------------------------------------------
(* The fallback.                                                           *)

\* The weight that the fallback asks for is the one the row has, if the symbol has one
\* row: the difference is zero, and so is the quantity.
LEMMA FallbackTradesNothing ==
    ASSUME TypeInv, NEW w \in Clients, OneRowEach(w)
    PROVE  Proposal(w, Fallback(w)) = <<>>
<1> DEFINE trades == Proposal(w, Fallback(w))
           all == Considered(Fallback(w))
<1>1. Fallback(w) \in Seq(Choice)
  BY FallbackIs
<1>2. /\ Len(trades) \in Nat /\ DOMAIN trades = 1..Len(trades)
      /\ trades = [k \in 1..Len(trades) |-> trades[k]]
      /\ \E at : Matches(w, trades, all, at)
  BY <1>1, ProposalMatches
<1>3. \A n \in DOMAIN all : n \in DOMAIN Fallback(w) /\ all[n] = Fallback(w)[n]
  BY <1>1, ConsideredIs
<1>4. ASSUME NEW i \in HeldIds(w), NEW d,
             d = [symbol |-> view[w][i].symbol, target |-> Weight(w, i)]
      PROVE  ~ Worthwhile(w, d)
  <2> SUFFICES ASSUME d.symbol \in Listed(w), PriceIn(w, d) > 0 PROVE Quantity(w, d) = 0
    BY DEF Worthwhile
  <2>1. RowIn(w, d.symbol) \in HeldIds(w) /\ view[w][RowIn(w, d.symbol)].symbol = d.symbol
    BY RowInIs
  <2>2. RowIn(w, d.symbol) = i
    BY <1>4, <2>1 DEF OneRowEach
  <2>3. d.target = Weight(w, i) /\ i \in Ids
    BY <1>4 DEF HeldIds
  <2>4. Weight(w, i) \in Nat /\ Total(w) \in Nat
    BY <2>3, WeightType, TotalType
  <2>5. Delta(w, d) = 0
    BY <2>2, <2>3, <2>4 DEF Delta
  <2>6. PriceIn(w, d) \in Nat
    BY <2>2, <2>3, ValuesAreNat DEF PriceIn
  <2>7. Scale * PriceIn(w, d) \in Nat \ {0}
    BY <2>6, RebalanceAssumption
  <2>8. Quantity(w, d) = RoundDiv(0, Scale * PriceIn(w, d))
    BY <2>5 DEF Quantity, Size
  <2>9. \A n \in Nat \ {0} : RoundDiv(0, n) = 0
    BY DEF RoundDiv
  <2>10. QED
    BY <2>7, <2>8, <2>9
<1>5. \A n \in DOMAIN all : ~ Worthwhile(w, all[n])
  BY <1>3, <1>4, FallbackIs
<1> HIDE DEF trades, all
<1>6. DOMAIN trades = {}
  BY <1>2, <1>5 DEF Matches
<1>7. trades \in Seq({}) /\ Len(trades) = 0
  BY <1>2, <1>6
<1>8. trades = <<>>
  BY <1>7, EmptySeq
<1>9. QED
  BY <1>8 DEF trades

\* A client that has its orders is done with its summary.
Settled == {"ended", "failed"} \cup Ordering

\* A client that is done with its summary keeps it as it was.
LEMMA SettledStays ==
    ASSUME TypeInv, [Next]_vars, NEW w \in Clients, stage[w] \in Settled
    PROVE  stage'[w] \in Settled /\ view'[w] = view[w]
<1>1. CASE UNCHANGED vars
  BY <1>1 DEF vars, summary
<1>2. ASSUME NEW c \in Clients, Acts(c), c # w
      PROVE  stage'[w] \in Settled /\ view'[w] = view[w]
  BY <1>2, OthersUntouched
<1>3. CASE Acts(w)
  <2>1. stage[w] \in Ordering /\ (Submit(w) \/ Fault(w))
    BY <1>3 DEF Acts, Execute, AskSummary, Sum, ListHoldings, FetchPrices, LoadPriced,
                SavePrices, Summarise, Fault, Submit, Store, LoadHolding, Insert, Update,
                UpdateNothing, Delete, Refresh, Settled, Ordering, Summing
  <2>2. ASSUME NextOrder(w) \/ OrderRaises(w) PROVE stage'[w] \in Settled
    BY <2>1, <2>2, AfterOrder DEF Settled, Ordering
  <2>3. view' = view
    BY <2>1 DEF Submit, Fault, Store, LoadHolding, Insert, Update, UpdateNothing, Delete,
                Refresh, summary
  <2>4. stage'[w] \in Settled
    <3>1. CASE Store(w) \/ Insert(w) \/ Update(w)
      BY <3>1 DEF Store, Insert, Update, Goto, Settled, Ordering, TypeInv, TypeOK
    <3>2. CASE LoadHolding(w)
      BY <2>2, <3>2 DEF LoadHolding, Goto, Settled, Ordering, TypeInv, TypeOK
    <3>3. CASE UpdateNothing(w) \/ Delete(w) \/ Refresh(w) \/ Fault(w)
      BY <2>1, <2>2, <3>3 DEF UpdateNothing, Delete, Refresh, Fault, Ordering, Summing
    <3>4. QED
      BY <2>1, <3>1, <3>2, <3>3 DEF Submit
  <2>5. QED
    BY <2>3, <2>4
<1>4. QED
  BY <1>1, <1>2, <1>3 DEF Next, Acts

\* The inductive strengthening of FallbackHolds: the view that the fallback was computed
\* from is not read again.
FallbackInv ==
    /\ DOMAIN fallback = Workflows /\ DOMAIN proposal = Workflows
    /\ \A w \in Workflows : fallback[w] =>
          /\ stage[w] \in Settled
          /\ OneRowEach(w) => proposal[w] = <<>>

\* A fallback computed from a well-formed summary proposes nothing, whatever comes next.
LEMMA NextFallback == TypeInv /\ FallbackInv /\ [RNext]_rvars => FallbackInv'
<1> SUFFICES ASSUME TypeInv, FallbackInv, [RNext]_rvars PROVE FallbackInv'
  OBVIOUS
<1>1. Workflows \subseteq Clients /\ [Next]_vars
  BY StepsAreHoldings, HoldingsAssumption DEF Workflows
<1>2. ASSUME NEW w \in Workflows, stage[w] \in Settled
      PROVE  stage'[w] \in Settled /\ (OneRowEach(w)' <=> OneRowEach(w))
  BY <1>1, <1>2, SettledStays DEF OneRowEach, HeldIds
<1>3. CASE fallback' = fallback /\ proposal' = proposal
  BY <1>2, <1>3 DEF FallbackInv
<1>4. ASSUME NEW w \in Workflows, NEW decisions, DecisionsType(w, decisions), NEW b \in BOOLEAN,
             b => decisions = Fallback(w), Decide(w, decisions, b)
      PROVE  FallbackInv'
  <2>1. /\ fallback' = [fallback EXCEPT ![w] = b]
        /\ proposal' = [proposal EXCEPT ![w] = Proposal(w, decisions)]
    BY <1>4 DEF Decide
  <2>2. stage'[w] \in Settled /\ view' = view
    BY <1>1, <1>4 DEF Decide, Execute, Goto, summary, Settled, Ordering, TypeInv, TypeOK
  <2>3. b /\ OneRowEach(w)' => Proposal(w, decisions) = <<>>
    <3>1. OneRowEach(w)' <=> OneRowEach(w)
      BY <2>2 DEF OneRowEach, HeldIds
    <3>2. QED
      BY <1>1, <1>4, <3>1, FallbackTradesNothing
  <2>4. QED
    BY <1>2, <2>1, <2>2, <2>3 DEF FallbackInv
<1>5. QED
  <2>1. ASSUME NEW c \in Clients, Request(c) \/ Step(c)
        PROVE  fallback' = fallback /\ proposal' = proposal
    BY <2>1 DEF Request, Step, flow
  <2>2. ASSUME NEW s, Watch(s) \/ Unwatch(s)
        PROVE  fallback' = fallback /\ proposal' = proposal
    BY <2>2 DEF Watch, Unwatch, flow
  <2>3. ASSUME NEW w \in Workflows, NEW b, RunRebalance(w, b) \/ PayloadRaises(w)
        PROVE  fallback' = fallback /\ proposal' = proposal
    BY <2>3 DEF RunRebalance, PayloadRaises
  <2>4. CASE UNCHANGED rvars
    BY <1>3, <2>4 DEF rvars, flow
  <2>5. CASE RNext
    BY <1>3, <1>4, <2>1, <2>2, <2>3, <2>5 DEF RNext, DecisionsType
  <2>6. QED
    BY <2>4, <2>5

\* A rebalance, undisturbed or not, leaves the books as the holdings promise them: no
\* shares from nowhere, and the sum of the orders where they do not overlap.
THEOREM RebalanceKeepsBooks == RSpec => [](TypeOK /\ NoPhantomShares /\ LedgerWhenApart)
  BY RebalanceUsesHoldings, TypeCorrect, NoSharesFromNowhere, OrdersApartAddUp, PTL
     DEF UsesHoldings

\* When the model gives no answer the position is kept: from any summary with one row for
\* each symbol, at whatever prices, cash and smallest trade, the fallback's proposal is empty.
THEOREM FallbackKeepsPosition == RSpec => []FallbackHolds
<1>1. RInit => TypeInv /\ FallbackInv
  BY InitType DEF RInit, FallbackInv
<1>2. TypeInv /\ FallbackInv /\ [RNext]_rvars => (TypeInv /\ FallbackInv)'
  BY StepsAreHoldings, NextTypeOK, NextStageInv, NextFallback DEF TypeInv
<1>3. FallbackInv => FallbackHolds
  BY DEF FallbackInv, FallbackHolds
<1>4. QED
  BY <1>1, <1>2, <1>3, PTL DEF RSpec

---------------------------------------------------------------------------
(* The arithmetic of a trade.                                              *)

\* S is the scale, T the total, q and P are the quantity and price of a row, W its weight
\* and t the target; D is the difference, Q the quantity that trades it, h what is held
\* afterwards and m the smallest trade.
LEMMA TradeLandsNear ==
    ASSUME NEW S \in Nat \ {0}, NEW T \in Nat \ {0}, NEW P \in Nat \ {0}, NEW q \in Nat,
           NEW t \in Nat, NEW m \in Nat, NEW W, NEW D, NEW Q, NEW h,
           W = RoundDiv((q * P) * S, T),
           D = T * (t - W),
           Q = RoundDiv(Size(D), S * P),
           \/ Q > 0 /\ h = IF D > 0 THEN q + Q ELSE Minus(q, Q)
           \/ (Size(D) < m * S \/ Q = 0) /\ h = q
    PROVE  \/ Size(2 * S * h * P - 2 * T * t) <= T + S * P
           \/ Size(2 * S * h * P - 2 * T * t) <= T + S * (2 * m)
<1> DEFINE a == (q * P) * S
           c == S * P
           v == T * t
           u == W * T
           b == Q * c
           k == m * S
<1>1. a \in Nat /\ c \in Nat \ {0} /\ v \in Nat /\ k \in Nat
  OBVIOUS
<1>2. W \in Nat /\ 2 * a - T <= 2 * u /\ 2 * u <= 2 * a + T
  BY <1>1, RoundDivIs
<1>3. u \in Nat /\ D = v - u
  BY <1>2
<1>4. Size(D) \in Nat /\ (D > 0 => Size(D) = D) /\ (D <= 0 => Size(D) = -D)
  BY <1>1, <1>3 DEF Size
<1>5. Q \in Nat /\ 2 * Size(D) - c <= 2 * b /\ 2 * b <= 2 * Size(D) + c
  BY <1>1, <1>4, RoundDivIs
<1>6. b \in Nat
  BY <1>1, <1>5
<1>7. h \in Nat
  BY <1>1, <1>5, <1>3 DEF Minus
<1>8. S * (2 * m) = 2 * k /\ 2 * T * t = 2 * v
  OBVIOUS
<1> DEFINE x == 2 * S * h * P
<1>9. ASSUME h = q PROVE x = 2 * a
  BY <1>9
<1>10. ASSUME h = q + Q PROVE x = 2 * a + 2 * b
  BY <1>5, <1>10
<1>11. ASSUME h = q - Q PROVE x = 2 * a - 2 * b
  BY <1>5, <1>11
<1>12. ASSUME h = 0 PROVE x = 0
  BY <1>12
<1>13. ASSUME q <= Q PROVE a <= b
  <2>1. b = a + (Q - q) * c
    BY <1>5
  <2>2. (Q - q) \in Nat
    BY <1>5, <1>13
  <2>3. (Q - q) * c \in Nat
    BY <1>1, <2>2
  <2>4. QED
    BY <1>1, <1>6, <2>1, <2>3
<1>14. x \in Int /\ Size(x - 2 * v) = IF x < 2 * v THEN 2 * v - x ELSE x - 2 * v
  BY <1>1, <1>7 DEF Size
<1> HIDE DEF a, b, c, k, u, v, x
<1>15. CASE Q > 0 /\ h = IF D > 0 THEN q + Q ELSE Minus(q, Q)
  <2>1. CASE D > 0
    <3>1. x = 2 * a + 2 * b
      BY <1>10, <1>15, <2>1
    <3>2. QED
      BY <1>1, <1>2, <1>3, <1>4, <1>5, <1>6, <1>8, <1>14, <2>1, <3>1 DEF x, c
  <2>2. CASE ~ (D > 0) /\ q > Q
    <3>1. x = 2 * a - 2 * b
      BY <1>11, <1>15, <2>2 DEF Minus
    <3>2. Size(D) = u - v
      BY <1>1, <1>3, <1>4, <2>2
    <3>3. x - 2 * v <= T + c /\ 2 * v - x <= T + c
      BY <1>1, <1>2, <1>3, <1>5, <1>6, <3>1, <3>2
    <3>4. Size(x - 2 * v) <= T + c
      BY <1>14, <3>3
    <3>5. QED
      BY <1>8, <3>4 DEF x, c
  <2>3. CASE ~ (D > 0) /\ ~ (q > Q)
    <3>1. x = 0 /\ a <= b
      BY <1>5, <1>12, <1>13, <1>15, <2>3 DEF Minus
    <3>2. QED
      BY <1>1, <1>2, <1>3, <1>4, <1>5, <1>6, <1>8, <1>14, <2>3, <3>1 DEF x, c
  <2>4. QED
    BY <2>1, <2>2, <2>3
<1>16. CASE (Size(D) < m * S \/ Q = 0) /\ h = q
  <2>1. x = 2 * a
    BY <1>9, <1>16
  <2>2. CASE Size(D) < m * S
    <3>1. Size(D) < k
      BY <2>2 DEF k
    <3>2. QED
      BY <1>1, <1>2, <1>3, <1>4, <1>8, <1>14, <2>1, <3>1 DEF x
  <2>3. CASE Q = 0
    <3>1. b = 0
      BY <1>1, <2>3 DEF b
    <3>2. QED
      BY <1>1, <1>2, <1>3, <1>4, <1>5, <1>8, <1>14, <2>1, <3>1 DEF x, c
  <2>4. QED
    BY <1>16, <2>2, <2>3
<1>17. QED
  BY <1>15, <1>16

---------------------------------------------------------------------------
(* A workflow that no one disturbs carries out its proposal.               *)

OrderAt(w, k) == proposal[w][k].order

\* Orders that are over, and those that have changed their row.
Progress(w) == Len(proposal[w]) - Len(todo[w])
Done(w) == {k \in DOMAIN proposal[w] :
               k <= Progress(w) \/ (stage[w] = "refresh" /\ k = Progress(w) + 1)}

Decided(w) == verdict[w] \in {"approved", "forced"}

\* The orders to do are the last ones of the proposal, which has one trade for each
\* decision that is worth one.
Follows(w) ==
    /\ stage[w] \in Ordering \cup {"ended"}
    /\ stage[w] = "ended" => todo[w] = <<>>
    /\ report[w] \in Seq(Choice)
    /\ Len(proposal[w]) \in Nat /\ DOMAIN proposal[w] = 1..Len(proposal[w])
    /\ \E at : Matches(w, proposal[w], Considered(report[w]), at)
    /\ Len(todo[w]) <= Len(proposal[w])
    /\ \A j \in 1..Len(todo[w]) : todo[w][j] = OrderAt(w, Progress(w) + j)

Distinct(w) == \A j, k \in DOMAIN report[w] : report[w][j].symbol = report[w][k].symbol => j = k
Clear(w) == alone[w] /\ OneRowEach(w) /\ Distinct(w)

\* The table is the one that the summary read, with the orders done applied to it.
Applied(w) ==
    /\ \A i \in Ids :
          /\ (\A k \in Done(w) : OrderAt(w, k).symbol # view[w][i].symbol) =>
                 holdings[i] = view[w][i]
          /\ \A k \in Done(w) : OrderAt(w, k).symbol = view[w][i].symbol =>
                 /\ holdings[i].quantity = Booked(view[w][i].quantity, OrderAt(w, k))
                 /\ holdings[i].symbol \in {view[w][i].symbol, "none"}
    /\ stage[w] = "loaded" => loaded[w] \in Ids /\ row[w] = holdings[loaded[w]]

CarriedOut(w) ==
    /\ stage[w] = "summed" /\ alone[w] => view[w] = holdings
    /\ Decided(w) => /\ Follows(w)
                     /\ verdict[w] = "approved" => Approved(proposal[w])
                     /\ Clear(w) => Applied(w)

WorkflowInv ==
    /\ DOMAIN report = Workflows /\ DOMAIN proposal = Workflows /\ DOMAIN verdict = Workflows
    /\ \A w \in Workflows : CarriedOut(w)

\* What is computed from a summary stays what it is as long as the summary does.
LEMMA DecisionsStay ==
    ASSUME TypeInv, TypeInv', NEW w \in Clients, view'[w] = view[w]
    PROVE  \A d : /\ Worthwhile(w, d)' <=> Worthwhile(w, d)
                  /\ TradeFor(w, d)' = TradeFor(w, d)
<1>1. TotalsAreSums /\ TotalsAreSums'
  BY TotalIsSum, TotalIsSumNext
<1>2. Total(w)' = Total(w)
  BY <1>1 DEF TotalsAreSums
<1>3. \A i : Weight(w, i)' = Weight(w, i)
  BY <1>2 DEF Weight
<1>4. \A s : RowIn(w, s)' = RowIn(w, s)
  BY DEF RowIn
<1>5. \A d : Delta(w, d)' = Delta(w, d) /\ PriceIn(w, d)' = PriceIn(w, d)
  BY <1>2, <1>3, <1>4 DEF Delta, PriceIn
<1>6. \A d : Quantity(w, d)' = Quantity(w, d)
  BY <1>5 DEF Quantity
<1>7. Listed(w)' = Listed(w)
  BY DEF Listed
<1>8. QED
  BY <1>5, <1>6, <1>7 DEF Worthwhile, TradeFor

\* A proposal once computed is not changed.
LEMMA MatchesStay ==
    ASSUME TypeInv, TypeInv', NEW w \in Clients, view'[w] = view[w], NEW trades, NEW all,
           \E at : Matches(w, trades, all, at),
           proposal'[w] = trades, Considered(report'[w]) = all
    PROVE  (\E at : Matches(w, proposal[w], Considered(report[w]), at))'
<1>1. PICK at : Matches(w, trades, all, at)
  OBVIOUS
<1>2. Matches(w, proposal[w], Considered(report[w]), at)'
  BY <1>1, DecisionsStay DEF Matches
<1>3. QED
  BY <1>2

\* Distinct decisions trade distinct symbols, each of which is held.
LEMMA OrdersAreApart ==
    ASSUME TypeInv, NEW w \in Workflows, Follows(w), Distinct(w)
    PROVE  /\ \A k \in DOMAIN proposal[w] :
                  OrderAt(w, k) \in OrderType /\ OrderAt(w, k).symbol \in Listed(w)
           /\ \A j, k \in DOMAIN proposal[w] :
                  OrderAt(w, j).symbol = OrderAt(w, k).symbol => j = k
<1> DEFINE all == Considered(report[w])
<1>1. w \in Clients /\ report[w] \in Seq(Choice)
  BY HoldingsAssumption DEF Workflows, Follows
<1>2. /\ all \in Seq(Choice) /\ DOMAIN all = 1..Len(all)
      /\ \A n \in DOMAIN all : n \in DOMAIN report[w] /\ all[n] = report[w][n]
  BY <1>1, ConsideredIs
<1> HIDE DEF all
<1>3. PICK at : Matches(w, proposal[w], all, at)
  BY DEF Follows, all
<1>4. ASSUME NEW k \in DOMAIN proposal[w]
      PROVE  /\ at[k] \in DOMAIN all /\ OrderAt(w, k).symbol = all[at[k]].symbol
             /\ OrderAt(w, k) \in OrderType /\ OrderAt(w, k).symbol \in Listed(w)
  <2>1. /\ at[k] \in DOMAIN all /\ Worthwhile(w, all[at[k]])
        /\ proposal[w][k] = TradeFor(w, all[at[k]])
    BY <1>3 DEF Matches
  <2>2. all[at[k]] \in Choice
    BY <1>2, <2>1
  <2>3. OrderAt(w, k) \in OrderType
    BY <1>1, <2>1, <2>2, TradeType DEF OrderAt
  <2>4. OrderAt(w, k).symbol = all[at[k]].symbol
    BY <2>1 DEF OrderAt, TradeFor
  <2>5. QED
    BY <2>1, <2>3, <2>4 DEF Worthwhile
<1>5. ASSUME NEW j \in DOMAIN proposal[w], NEW k \in DOMAIN proposal[w],
             OrderAt(w, j).symbol = OrderAt(w, k).symbol
      PROVE  j = k
  <2>1. at[j] = at[k]
    BY <1>2, <1>4, <1>5 DEF Distinct
  <2>2. QED
    BY <1>3, <2>1 DEF Matches
<1>6. QED
  BY <1>4, <1>5

\* The order in progress is the next one of the proposal.
LEMMA CurrentOrder ==
    ASSUME TypeInv, NEW w \in Workflows, Follows(w), stage[w] \in Ordering
    PROVE  /\ w \in Clients /\ todo[w] \in Seq(OrderType) /\ todo[w] # <<>>
           /\ Len(todo[w]) \in Nat \ {0} /\ Len(todo[w]) <= Len(proposal[w])
           /\ Len(proposal[w]) \in Nat /\ DOMAIN proposal[w] = 1..Len(proposal[w])
           /\ Progress(w) \in Nat /\ Progress(w) + 1 \in DOMAIN proposal[w]
           /\ Order(w) = OrderAt(w, Progress(w) + 1)
<1>1. w \in Clients
  BY HoldingsAssumption DEF Workflows
<1>2. todo[w] \in Seq(OrderType) /\ todo[w] # <<>>
  BY <1>1 DEF TypeInv, TypeOK, StageInv, Staged
<1>3. Len(todo[w]) \in Nat \ {0}
  BY <1>2
<1>4. /\ Len(todo[w]) <= Len(proposal[w])
      /\ Len(proposal[w]) \in Nat /\ DOMAIN proposal[w] = 1..Len(proposal[w])
      /\ \A j \in 1..Len(todo[w]) : todo[w][j] = OrderAt(w, Progress(w) + j)
  BY DEF Follows
<1>5. Progress(w) \in Nat /\ Progress(w) + 1 \in DOMAIN proposal[w]
  <2>1. ASSUME NEW m \in Nat, NEW n \in Nat \ {0}, n <= m PROVE m - n \in Nat /\ m - n + 1 \in 1..m
    BY <2>1
  <2>2. Progress(w) \in Nat /\ Progress(w) + 1 \in 1..Len(proposal[w])
    BY <1>3, <1>4, <2>1 DEF Progress
  <2>3. QED
    BY <1>4, <2>2
<1>6. Order(w) = todo[w][1]
  BY <1>2 DEF Order
<1>7. QED
  BY <1>1, <1>2, <1>3, <1>4, <1>5, <1>6

\* It finds the row that the summary read, and no other row of the symbol.
LEMMA OwnRow ==
    ASSUME TypeInv, NEW w \in Workflows, Follows(w), Clear(w), Applied(w),
           stage[w] \in {"stored", "loaded"}
    PROVE  /\ Progress(w) + 1 \notin Done(w)
           /\ Order(w) \in OrderType
           /\ \E i \in Ids : /\ RowsOf(Order(w).symbol) = {i}
                             /\ view[w][i] = holdings[i] /\ view[w][i].symbol = Order(w).symbol
<1> DEFINE o == Order(w)
<1>1. /\ Progress(w) \in Nat /\ Progress(w) + 1 \in DOMAIN proposal[w]
      /\ o = OrderAt(w, Progress(w) + 1) /\ w \in Clients
  BY CurrentOrder DEF Ordering
<1>2. Progress(w) + 1 \notin Done(w)
  BY <1>1 DEF Done
<1>3. o \in OrderType /\ o.symbol \in Listed(w)
  BY <1>1, OrdersAreApart DEF Clear
<1>4. \A k \in Done(w) : OrderAt(w, k).symbol # o.symbol
  BY <1>1, <1>2, OrdersAreApart DEF Clear, Done
<1>5. PICK i \in HeldIds(w) : view[w][i].symbol = o.symbol
  BY <1>3 DEF Listed, HeldIds
<1> HIDE DEF o
<1>6. i \in Ids /\ holdings[i] = view[w][i]
  BY <1>4, <1>5 DEF Applied, HeldIds
<1>7. ASSUME NEW j \in RowsOf(o.symbol) PROVE j = i
  <2>1. j \in Ids /\ holdings[j].symbol = o.symbol
    BY DEF RowsOf
  <2>2. o.symbol \in Symbols /\ o.symbol # "none"
    BY <1>3, HoldingsAssumption DEF OrderType
  <2>3. view[w][j].symbol = o.symbol
    BY <1>4, <2>1, <2>2 DEF Applied
  <2>4. j \in HeldIds(w)
    BY <2>1, <2>2, <2>3 DEF HeldIds, Gone
  <2>5. QED
    BY <1>5, <2>3, <2>4 DEF Clear, OneRowEach
<1>8. i \in RowsOf(o.symbol)
  BY <1>5, <1>6 DEF RowsOf
<1>9. QED
  BY <1>2, <1>3, <1>5, <1>6, <1>7, <1>8 DEF o

\* Steps of others leave all this alone, or the workflow is no longer alone.
LEMMA OthersKeep ==
    ASSUME TypeInv, TypeInv', NEW w \in Workflows, CarriedOut(w),
           UNCHANGED <<stage[w], todo[w], loaded[w], row[w], view[w]>>,
           UNCHANGED <<report[w], proposal[w], verdict[w]>>,
           alone'[w] => /\ alone[w]
                        /\ stage[w] \notin {"idle"} \cup Summing => holdings' = holdings
    PROVE  CarriedOut(w)'
<1>1. w \in Clients
  BY HoldingsAssumption DEF Workflows
<1>2. ASSUME Follows(w) PROVE Follows(w)'
  <2>1. (\E at : Matches(w, proposal[w], Considered(report[w]), at))'
    BY <1>1, <1>2, MatchesStay DEF Follows
  <2>2. QED
    BY <1>2, <2>1 DEF Follows, Progress, OrderAt
<1>3. Clear(w)' => Clear(w)
  BY DEF Clear, OneRowEach, HeldIds, Distinct
<1>4. ASSUME Follows(w), Applied(w), Clear(w)' PROVE Applied(w)'
  <2>1. holdings' = holdings
    BY <1>4 DEF Clear, Follows, Ordering, Summing
  <2>2. Done(w)' = Done(w)
    BY DEF Done, Progress
  <2>3. QED
    BY <1>4, <2>1, <2>2 DEF Applied, OrderAt
<1>5. stage'[w] = "summed" /\ alone'[w] => view'[w] = holdings'
  BY DEF CarriedOut, Summing
<1>6. Decided(w)' <=> Decided(w)
  BY DEF Decided
<1>7. QED
  BY <1>2, <1>3, <1>4, <1>5, <1>6 DEF CarriedOut

\* A step of the workflow's own goes on with its order or turns to the next: workflows
\* skip an order that raises.
LEMMA OwnStep ==
    ASSUME TypeInv, NEW w \in Workflows, stage[w] \in Ordering, Submit(w) \/ Fault(w)
    PROVE  \/ NextOrder(w)
           \/ todo'[w] = todo[w] /\ stage'[w] \in Ordering
<1>1. w \in Clients /\ w \in Tolerant
  BY HoldingsAssumption DEF Workflows
<1>2. OrderRaises(w) => NextOrder(w)
  BY <1>1 DEF OrderRaises
<1>3. CASE Store(w) \/ Insert(w) \/ Update(w)
  BY <1>1, <1>3 DEF Store, Insert, Update, Goto, Ordering, TypeInv, TypeOK
<1>4. CASE LoadHolding(w)
  BY <1>1, <1>4 DEF LoadHolding, Goto, Ordering, TypeInv, TypeOK
<1>5. CASE UpdateNothing(w) \/ Delete(w) \/ Refresh(w) \/ Fault(w)
  BY <1>2, <1>5 DEF UpdateNothing, Delete, Refresh, Fault, Ordering, Summing
<1>6. QED
  BY <1>3, <1>4, <1>5 DEF Submit

LEMMA OwnStepFollows ==
    ASSUME TypeInv, TypeInv', NEW w \in Workflows, Follows(w), stage[w] \in Ordering,
           Submit(w) \/ Fault(w), view'[w] = view[w],
           UNCHANGED <<report[w], proposal[w]>>
    PROVE  Follows(w)'
<1>1. w \in Clients
  BY HoldingsAssumption DEF Workflows
<1>2. (\E at : Matches(w, proposal[w], Considered(report[w]), at))'
  BY <1>1, MatchesStay DEF Follows
<1>3. CASE NextOrder(w)
  <2>1. /\ todo'[w] = Tail(todo[w])
        /\ stage'[w] \in {"store", "ended"}
        /\ stage'[w] = "ended" => Tail(todo[w]) = <<>>
    BY <1>1, <1>3 DEF NextOrder, Goto, TypeInv, TypeOK
  <2>2. /\ todo[w] \in Seq(OrderType) /\ Len(todo[w]) \in Nat \ {0}
        /\ Len(todo[w]) <= Len(proposal[w]) /\ Len(proposal[w]) \in Nat
    BY CurrentOrder
  <2>3. /\ Len(todo'[w]) = Len(todo[w]) - 1
        /\ \A j \in 1..Len(todo[w]) - 1 : todo'[w][j] = todo[w][j + 1]
    BY <2>1, <2>2
  <2>4. Len(todo'[w]) <= Len(proposal'[w]) /\ Progress(w)' = Progress(w) + 1
    BY <2>2, <2>3 DEF Progress
  <2>5. Progress(w) \in Nat
    BY CurrentOrder
  <2>6. ASSUME NEW j \in 1..Len(todo'[w])
        PROVE  todo'[w][j] = OrderAt(w, Progress(w) + j)'
    <3>1. j \in Nat /\ j \in 1..Len(todo[w]) - 1 /\ j + 1 \in 1..Len(todo[w])
      BY <2>2, <2>3
    <3>2. todo[w][j + 1] = OrderAt(w, Progress(w) + (j + 1))
      BY <3>1 DEF Follows
    <3>3. Progress(w) + (j + 1) = Progress(w)' + j
      BY <2>4, <2>5, <3>1
    <3>4. todo[w][j + 1] = proposal'[w][Progress(w)' + j].order
      BY <3>2, <3>3 DEF OrderAt
    <3>5. QED
      BY <2>3, <3>1, <3>4 DEF OrderAt
  <2>7. QED
    BY <1>2, <2>1, <2>4, <2>6 DEF Follows, Ordering
<1>4. CASE todo'[w] = todo[w] /\ stage'[w] \in Ordering
  BY <1>2, <1>4 DEF Follows, Progress, OrderAt, Ordering
<1>5. QED
  BY <1>3, <1>4, OwnStep

\* The row's new quantity is what the order makes of the one that the summary read.
LEMMA WriteApplies ==
    ASSUME TypeInv, NEW w \in Workflows, Follows(w), Clear(w), Applied(w),
           Update(w) \/ Delete(w),
           view'[w] = view[w], proposal'[w] = proposal[w],
           Done(w)' = Done(w) \cup {Progress(w) + 1}, stage'[w] # "loaded"
    PROVE  Applied(w)'
<1> DEFINE o == Order(w)
           n == Progress(w) + 1
<1>1. stage[w] = "loaded" /\ loaded[w] \in Ids /\ row[w] = holdings[loaded[w]]
  BY DEF Update, Delete, Applied
<1>2. w \in Clients /\ o = OrderAt(w, n) /\ n \in DOMAIN proposal[w] /\ row[w].symbol = o.symbol
  <2>1. loaded[w] # 0
    BY DEF Update, Delete
  <2>2. QED
    BY <1>1, <2>1, CurrentOrder DEF Ordering, TypeInv, StageInv, Staged
<1>3. PICK i \in Ids : /\ RowsOf(o.symbol) = {i}
                       /\ view[w][i] = holdings[i] /\ view[w][i].symbol = o.symbol
  BY <1>1, OwnRow
<1>4. n \notin Done(w) /\ o \in OrderType
  BY <1>1, OwnRow
<1>5. loaded[w] = i
  BY <1>1, <1>2, <1>3 DEF RowsOf
<1> HIDE DEF o, n
<1>6. \A j \in Ids : j # i => holdings'[j] = holdings[j]
  BY <1>5 DEF Update, Delete, TypeInv, TypeOK, Tables
<1>7. /\ holdings'[i].quantity = Booked(view[w][i].quantity, o)
      /\ holdings'[i].symbol \in {o.symbol, "none"}
  <2>1. Left(w) = Booked(view[w][i].quantity, o)
    BY <1>1, <1>3, <1>5 DEF Left, o
  <2>2. CASE Update(w)
    <3>1. holdings[i] \in Holding
      <4>1. holdings[i] # Gone /\ holdings \in Tables
        BY <1>5, <2>2 DEF Update, TypeInv, TypeOK
      <4>2. QED
        BY <4>1 DEF Tables
    <3>2. holdings'[i].quantity = Left(w) /\ holdings'[i].symbol = holdings[i].symbol
      BY <1>5, <2>2, <3>1 DEF Update, TypeInv, TypeOK, Tables, Holding
    <3>3. QED
      BY <1>3, <2>1, <3>2
  <2>3. CASE Delete(w)
    BY <1>5, <2>1, <2>3 DEF Delete, Gone, TypeInv, TypeOK, Tables
  <2>4. QED
    BY <2>2, <2>3
<1>8. \A k \in Done(w)' : k \in Done(w) \/ k = n
  BY DEF n
<1>9. \A k \in DOMAIN proposal[w] : OrderAt(w, k).symbol = o.symbol => k = n
  BY <1>2, OrdersAreApart DEF Clear
<1>10. \A k : OrderAt(w, k)' = OrderAt(w, k)
  BY DEF OrderAt
<1>11. n \in Done(w)' /\ \A k \in Done(w) : k \in Done(w)' /\ k \in DOMAIN proposal[w]
  BY DEF n, Done
<1>12. ASSUME NEW j \in Ids, j # i
       PROVE  /\ (\A k \in Done(w)' : OrderAt(w, k).symbol # view[w][j].symbol) =>
                     holdings'[j] = view[w][j]
              /\ \A k \in Done(w)' : OrderAt(w, k).symbol = view[w][j].symbol =>
                     /\ holdings'[j].quantity = Booked(view[w][j].quantity, OrderAt(w, k))
                     /\ holdings'[j].symbol \in {view[w][j].symbol, "none"}
  <2>1. view[w][j].symbol # o.symbol
    <3>1. o.symbol # "none"
      BY <1>4, HoldingsAssumption DEF OrderType
    <3>2. view[w][j].symbol = o.symbol => j \in HeldIds(w) /\ i \in HeldIds(w)
      BY <1>3, <3>1 DEF HeldIds, Gone
    <3>3. QED
      BY <1>3, <1>12, <3>2 DEF Clear, OneRowEach
  <2>2. OrderAt(w, n).symbol # view[w][j].symbol
    BY <1>2, <2>1
  <2>3. QED
    BY <1>6, <1>8, <1>11, <1>12, <2>2 DEF Applied
<1>13. /\ ~ \A k \in Done(w)' : OrderAt(w, k).symbol # view[w][i].symbol
       /\ \A k \in Done(w)' : OrderAt(w, k).symbol = view[w][i].symbol => k = n
  BY <1>2, <1>3, <1>8, <1>9, <1>11
<1>14. QED
  BY <1>2, <1>3, <1>7, <1>10, <1>12, <1>13, <1>4 DEF Applied

\* An order of the workflow itself is the next one of its proposal.
LEMMA OwnStepApplies ==
    ASSUME TypeInv, TypeInv', NEW w \in Workflows, Follows(w), Clear(w), Applied(w),
           stage[w] \in Ordering, Submit(w),
           view'[w] = view[w], proposal'[w] = proposal[w]
    PROVE  Applied(w)'
<1>1. /\ w \in Clients /\ Progress(w) \in Nat /\ Progress(w) + 1 \in DOMAIN proposal[w]
      /\ todo[w] \in Seq(OrderType) /\ Len(todo[w]) \in Nat \ {0}
      /\ Len(proposal[w]) \in Nat /\ DOMAIN proposal[w] = 1..Len(proposal[w])
  BY CurrentOrder
<1>2. OrderRaises(w) => NextOrder(w)
  BY <1>1 DEF OrderRaises, Workflows
<1>3. ASSUME NextOrder(w)
      PROVE  /\ Progress(w)' = Progress(w) + 1
             /\ stage'[w] \in {"store", "ended"}
  <2>1. todo'[w] = Tail(todo[w]) /\ stage'[w] \in {"store", "ended"}
    BY <1>1, <1>3 DEF NextOrder, Goto, TypeInv, TypeOK
  <2>2. Len(todo'[w]) = Len(todo[w]) - 1
    BY <1>1, <2>1
  <2>3. Progress(w)' = Len(proposal[w]) - Len(todo'[w])
    BY DEF Progress
  <2>4. Progress(w)' = Progress(w) + 1
    BY <1>1, <2>2, <2>3 DEF Progress
  <2>5. QED
    BY <2>1, <2>4
<1>4. \A k \in DOMAIN proposal[w] : k \in Nat
  BY <1>1
<1>5. ASSUME holdings' = holdings, Done(w)' = Done(w),
             stage'[w] = "loaded" => loaded'[w] \in Ids /\ row'[w] = holdings[loaded'[w]]
      PROVE  Applied(w)'
  BY <1>5 DEF Applied, OrderAt
<1>6. CASE Store(w)
  <2>1. /\ stage[w] = "store" /\ stage'[w] = "stored" /\ todo' = todo /\ holdings' = holdings
    BY <1>1, <1>6 DEF Store, Goto, TypeInv, TypeOK
  <2>2. QED
    BY <1>5, <2>1 DEF Done, Progress
<1>7. CASE LoadHolding(w)
  <2>1. PICK i \in Ids : RowsOf(Order(w).symbol) = {i}
    BY <1>7, OwnRow DEF LoadHolding
  <2>2. Order(w).symbol \in Symbols
    BY <1>7, OwnRow DEF LoadHolding, OrderType
  <2>3. First(Order(w).symbol) = i
    BY <2>1, <2>2, FirstIsRow
  <2>4. i # 0
    BY DEF Ids
  <2>5. /\ stage[w] = "stored" /\ stage'[w] = "loaded" /\ todo' = todo /\ holdings' = holdings
        /\ loaded'[w] = i /\ row'[w] = holdings[i]
    BY <1>1, <1>7, <2>3, <2>4 DEF LoadHolding, Goto, TypeInv, TypeOK
  <2>6. QED
    BY <1>5, <2>5 DEF Done, Progress
<1>8. CASE Insert(w)
  BY <1>8 DEF Insert, Applied, Ids
<1>9. CASE Update(w)
  <2>1. stage[w] = "loaded" /\ stage'[w] = "refresh" /\ todo' = todo
    BY <1>1, <1>9 DEF Update, Goto, TypeInv, TypeOK
  <2>2. Done(w)' = Done(w) \cup {Progress(w) + 1}
    BY <1>1, <2>1 DEF Done, Progress
  <2>3. QED
    BY <1>9, <2>1, <2>2, WriteApplies
<1>10. CASE UpdateNothing(w)
  <2>1. stage[w] = "loaded" /\ loaded[w] # 0 /\ holdings[loaded[w]] = Gone
    BY <1>10 DEF UpdateNothing
  <2>2. row[w] \in Holding
    BY <1>1, <2>1 DEF TypeInv, StageInv, Staged
  <2>3. row[w] = Gone
    BY <2>1 DEF Applied
  <2>4. QED
    BY <2>2, <2>3, HoldingsAssumption DEF Holding, Gone
<1>11. CASE Delete(w)
  <2>1. stage[w] = "loaded" /\ NextOrder(w)
    BY <1>11 DEF Delete
  <2>2. Progress(w)' = Progress(w) + 1 /\ stage'[w] \notin {"refresh", "loaded"}
    BY <1>3, <2>1
  <2>3. Done(w)' = Done(w) \cup {Progress(w) + 1}
    BY <1>1, <1>4, <2>1, <2>2 DEF Done
  <2>4. QED
    BY <1>11, <2>2, <2>3, WriteApplies
<1>12. CASE Refresh(w)
  <2>1. stage[w] = "refresh" /\ NextOrder(w) /\ holdings' = holdings
    BY <1>2, <1>12 DEF Refresh
  <2>2. Progress(w)' = Progress(w) + 1 /\ stage'[w] \notin {"refresh", "loaded"}
    BY <1>3, <2>1
  <2>3. Done(w)' = Done(w)
    BY <1>1, <1>4, <2>1, <2>2 DEF Done
  <2>4. QED
    BY <1>5, <2>1, <2>2, <2>3
<1>13. QED
  BY <1>6, <1>7, <1>8, <1>9, <1>10, <1>11, <1>12 DEF Submit

LEMMA OwnStepCarriesOut ==
    ASSUME TypeInv, TypeInv', NEW w \in Workflows, CarriedOut(w), Step(w)
    PROVE  CarriedOut(w)'
<1>1. w \in Clients
  BY HoldingsAssumption DEF Workflows
<1>2. /\ UNCHANGED <<report, proposal, verdict>>
      /\ alone'[w] => alone[w] /\ ~ Disturbed(w, w)
  BY DEF Step, flow
<1>3. stage[w] # "summed"
  BY DEF Step, Submit, Sum, Fault, Store, LoadHolding, Insert, Update, UpdateNothing, Delete,
         Refresh, ListHoldings, FetchPrices, LoadPriced, SavePrices, Summarise, Ordering, Summing
<1>4. ASSUME stage'[w] = "summed", alone'[w] PROVE view'[w] = holdings'
  <2>1. Summarise(w) \/ stage'[w] # "summed"
    <3>1. CASE stage[w] \in Settled
      <4>1. Acts(w)
        BY DEF Step, Acts
      <4>2. [Next]_vars
        BY <1>1, <4>1 DEF Next, Acts
      <4>3. QED
        BY <1>1, <3>1, <4>2, SettledStays DEF Settled, Ordering
    <3>2. CASE stage[w] \notin Settled
      BY <1>1, <3>2 DEF Step, Submit, Sum, Fault, Store, LoadHolding, Insert, Update,
         UpdateNothing, Delete, Refresh, ListHoldings, FetchPrices, LoadPriced, SavePrices,
         Ordering, Summing, Settled, Goto, TypeInv, TypeOK
    <3>3. QED
      BY <3>1, <3>2
  <2>2. QED
    BY <1>1, <1>4, <2>1 DEF Summarise, TypeInv, TypeOK
<1>5. ASSUME Decided(w)
      PROVE  Follows(w)' /\ (Clear(w)' => Applied(w)')
  <2>1. Follows(w)
    BY <1>5 DEF CarriedOut
  <2>2. stage[w] \in Ordering /\ (Submit(w) \/ Fault(w))
    BY <2>1 DEF Follows, Step, Submit, Sum, Fault, Store, LoadHolding, Insert, Update,
         UpdateNothing, Delete, Refresh, ListHoldings, FetchPrices, LoadPriced, SavePrices,
         Summarise, Ordering, Summing
  <2>3. view'[w] = view[w]
    <3>1. [Next]_vars
      BY <1>1 DEF Step, Next
    <3>2. QED
      BY <1>1, <2>2, <3>1, SettledStays DEF Settled
  <2>4. Follows(w)'
    BY <1>2, <2>1, <2>2, <2>3, OwnStepFollows
  <2>5. ASSUME Clear(w)' PROVE Applied(w)'
    <3>1. Clear(w)
      BY <1>2, <2>3, <2>5 DEF Clear, OneRowEach, HeldIds, Distinct
    <3>2. Submit(w)
      <4>1. ~ Fault(w)
        BY <1>2, <2>2, <2>5 DEF Clear, Disturbed, Fault, Ordering, Summing, TypeInv, TypeOK
      <4>2. QED
        BY <2>2, <4>1
    <3>3. Applied(w)
      BY <1>5, <3>1 DEF CarriedOut
    <3>4. QED
      BY <1>2, <2>1, <2>2, <2>3, <3>1, <3>2, <3>3, OwnStepApplies
  <2>6. QED
    BY <2>4, <2>5
<1>6. QED
  BY <1>2, <1>4, <1>5 DEF CarriedOut, Decided

LEMMA DecideCarriesOut ==
    ASSUME TypeInv, TypeInv', NEW w \in Workflows, WorkflowInv,
           NEW decisions, DecisionsType(w, decisions), NEW b, Decide(w, decisions, b)
    PROVE  CarriedOut(w)'
<1> DEFINE trades == Proposal(w, decisions)
<1>1. w \in Clients /\ decisions \in Seq(Choice)
  BY DecisionsAreChoices, HoldingsAssumption DEF Workflows
<1>2. /\ report'[w] = decisions /\ proposal'[w] = trades
      /\ verdict'[w] = "approved" => Approved(trades)
      /\ alone' = alone /\ view' = view /\ holdings' = holdings
      /\ stage[w] = "summed" /\ stage'[w] \in {"store", "ended"}
  BY <1>1 DEF Decide, Execute, Goto, WorkflowInv, summary, TypeInv, TypeOK
<1>3. /\ Decided(w)' => todo'[w] = Orders(trades)
      /\ stage'[w] = "ended" => todo'[w] = <<>>
  BY <1>1 DEF Decide, Execute, Goto, Decided, Orders, WorkflowInv, TypeInv, TypeOK
<1>4. Len(trades) \in Nat /\ DOMAIN trades = 1..Len(trades)
  BY <1>1, ProposalMatches
<1>5. (\E at : Matches(w, proposal[w], Considered(report[w]), at))'
  <2>1. \E at : Matches(w, trades, Considered(decisions), at)
    BY <1>1, ProposalMatches
  <2> HIDE DEF trades
  <2>2. QED
    BY <1>1, <1>2, <2>1, MatchesStay
<1> HIDE DEF trades
<1>6. ASSUME Decided(w)' PROVE Follows(w)' /\ Progress(w)' = 0 /\ stage'[w] # "refresh"
  <2>1. todo'[w] = [k \in 1..Len(trades) |-> trades[k].order]
    BY <1>3, <1>4, <1>6 DEF Orders
  <2>2. Len(todo'[w]) = Len(trades) /\ \A j \in 1..Len(trades) : todo'[w][j] = trades[j].order
    BY <1>4, <2>1
  <2>3. Progress(w)' = 0
    BY <1>2, <1>4, <2>2 DEF Progress
  <2>4. \A j \in 1..Len(todo'[w]) : todo'[w][j] = proposal'[w][Progress(w)' + j].order
    BY <1>2, <1>4, <2>2, <2>3
  <2>5. /\ Len(proposal'[w]) \in Nat /\ DOMAIN proposal'[w] = 1..Len(proposal'[w])
        /\ Len(todo'[w]) <= Len(proposal'[w])
    BY <1>2, <1>4, <2>2
  <2>6. Follows(w)'
    BY <1>1, <1>2, <1>3, <1>5, <2>4, <2>5 DEF Follows, OrderAt, Ordering
  <2>7. QED
    BY <1>2, <2>3, <2>6
<1>7. ASSUME Decided(w)', Clear(w)' PROVE Applied(w)'
  <2>1. view[w] = holdings
    BY <1>2, <1>7 DEF Clear, WorkflowInv, CarriedOut
  <2>2. Done(w)' = {}
    BY <1>2, <1>4, <1>6, <1>7 DEF Done
  <2>3. QED
    BY <1>2, <2>1, <2>2 DEF Applied
<1>8. QED
  BY <1>2, <1>6, <1>7 DEF CarriedOut

\* WorkflowInv is inductive: a step of the workflow, of another one or of a client.
LEMMA NextWorkflow == TypeInv /\ WorkflowInv /\ [RNext]_rvars => WorkflowInv'
<1> SUFFICES ASSUME TypeInv, WorkflowInv, [RNext]_rvars PROVE WorkflowInv'
  OBVIOUS
<1>1. Workflows \subseteq Clients /\ [Next]_vars /\ TypeInv'
  BY StepsAreHoldings, NextTypeOK, NextStageInv, HoldingsAssumption DEF Workflows, TypeInv
<1>2. \A w \in Workflows : CarriedOut(w)
  BY DEF WorkflowInv
<1>3. /\ DOMAIN report' = Workflows /\ DOMAIN proposal' = Workflows
      /\ DOMAIN verdict' = Workflows
  BY DEF RNext, Watch, Unwatch, Request, Step, RunRebalance, PayloadRaises, Decide,
         WorkflowInv, rvars, flow
<1>4. ASSUME NEW w \in Workflows, UNCHANGED <<vars, flow, alone>> PROVE CarriedOut(w)'
  BY <1>1, <1>2, <1>4, OthersKeep DEF vars, flow, session, summary
<1>5. ASSUME NEW c \in Clients, NEW w \in Workflows, w # c, AskSummary(c) \/ \E o : Execute(c, o)
      PROVE  /\ UNCHANGED <<stage[w], todo[w], loaded[w], row[w], view[w]>>
             /\ holdings' = holdings
  BY <1>1, <1>5 DEF AskSummary, Execute, Goto, session, summary, TypeInv, TypeOK
<1>6. ASSUME NEW w \in Workflows, NEW c \in Clients, Request(c) PROVE CarriedOut(w)'
  <2>1. UNCHANGED <<report, proposal, verdict, alone>> /\ w # c
    BY <1>6 DEF Request, flow
  <2>2. AskSummary(c) \/ \E o : Execute(c, o)
    BY <1>6 DEF Request
  <2>3. QED
    BY <1>1, <1>2, <1>5, <2>1, <2>2, OthersKeep
<1>7. ASSUME NEW w \in Workflows, NEW c \in Clients, Step(c) PROVE CarriedOut(w)'
  <2>1. CASE c = w
    BY <1>1, <1>2, <1>7, <2>1, OwnStepCarriesOut
  <2>2. CASE c # w
    <3>1. UNCHANGED <<stage[w], todo[w], loaded[w], row[w], view[w]>>
      BY <1>1, <1>7, <2>2, OthersUntouched DEF Step, Acts
    <3>2. /\ UNCHANGED <<report, proposal, verdict>>
          /\ alone'[w] => alone[w] /\ ~ Disturbed(w, c)
      BY <1>7 DEF Step, flow
    <3>3. alone'[w] => (stage[w] \notin {"idle"} \cup Summing => holdings' = holdings)
      BY <2>2, <3>2 DEF Disturbed
    <3>4. QED
      BY <1>1, <1>2, <3>1, <3>2, <3>3, OthersKeep
  <2>3. QED
    BY <2>1, <2>2
<1>8. ASSUME NEW w \in Workflows, NEW v \in Workflows, v # w, NEW b, NEW decisions,
             RunRebalance(v, b) \/ PayloadRaises(v) \/ Decide(v, decisions, b)
      PROVE  CarriedOut(w)'
  <2>1. /\ UNCHANGED <<report[w], proposal[w], verdict[w]>>
        /\ alone' = alone
    BY <1>8 DEF RunRebalance, PayloadRaises, Decide, WorkflowInv
  <2>2. AskSummary(v) \/ \E o : Execute(v, o)
    BY <1>8 DEF RunRebalance, PayloadRaises, Decide
  <2>3. QED
    BY <1>1, <1>2, <1>5, <1>8, <2>1, <2>2, OthersKeep
<1>9. ASSUME NEW w \in Workflows, NEW forced, RunRebalance(w, forced) PROVE CarriedOut(w)'
  <2>1. stage[w] = "idle" /\ verdict' = verdict
    BY <1>9 DEF RunRebalance
  <2>2. stage'[w] # "summed"
    BY <1>1, <1>9 DEF RunRebalance, Execute, AskSummary, Goto, TypeInv, TypeOK
  <2>3. ~ Decided(w)
    BY <1>2, <2>1 DEF CarriedOut, Follows, Ordering
  <2>4. QED
    BY <2>1, <2>2, <2>3 DEF CarriedOut, Decided
<1>10. ASSUME NEW w \in Workflows, PayloadRaises(w) PROVE CarriedOut(w)'
  BY <1>1, <1>10 DEF PayloadRaises, Execute, Goto, CarriedOut, Decided, WorkflowInv, TypeInv,
     TypeOK
<1>11. ASSUME NEW w \in Workflows, NEW v \in Workflows, NEW decisions,
              DecisionsType(v, decisions), NEW b, Decide(v, decisions, b)
       PROVE  CarriedOut(w)'
  BY <1>1, <1>8, <1>11, DecideCarriesOut
<1>12. ASSUME NEW w \in Workflows PROVE CarriedOut(w)'
  <2>1. CASE UNCHANGED rvars
    BY <1>4, <2>1 DEF rvars
  <2>2. ASSUME NEW s \in Symbols, Watch(s) \/ Unwatch(s) PROVE CarriedOut(w)'
    BY <1>4, <2>2 DEF Watch, Unwatch
  <2>3. ASSUME NEW v \in Workflows, NEW forced, RunRebalance(v, forced) \/ PayloadRaises(v)
        PROVE  CarriedOut(w)'
    BY <1>8, <1>9, <1>10, <2>3
  <2>4. QED
    BY <1>6, <1>7, <1>11, <2>1, <2>2, <2>3 DEF RNext, DecisionsType
<1>13. QED
  BY <1>3, <1>12 DEF WorkflowInv

---------------------------------------------------------------------------
(* What the proposal leaves.                                               *)

LEMMA MaxOfTwo ==
    ASSUME NEW x \in Nat, NEW y \in Nat
    PROVE  Max({x, y}) \in Nat /\ x <= Max({x, y}) /\ y <= Max({x, y})
<1>1. \E m \in {x, y} : \A n \in {x, y} : m >= n
  <2>1. x >= y \/ y >= x
    OBVIOUS
  <2>2. QED
    BY <2>1
<1>2. QED
  BY <1>1 DEF Max

LEMMA HeldType ==
    ASSUME TypeInv, NEW s
    PROVE  Held(s) \in Nat
<1> DEFINE f == [j \in Ids |-> holdings[j].quantity]
<1>1. Held(s) = SumOf(f, RowsOf(s))
  BY HeldIsSum
<1>2. \A j \in Ids : f[j] \in Nat
  BY QuantitiesAreNat DEF TypeInv, TypeOK
<1>3. RowsOf(s) \subseteq Ids /\ IsFiniteSet(RowsOf(s))
  BY IdsAreFinite, FS_Subset DEF RowsOf
<1> HIDE DEF f
<1>4. QED
  BY <1>1, <1>2, <1>3, SumType

\* With one row for each symbol, what is held of one is what its row says.
LEMMA HeldInOneRow ==
    ASSUME TypeInv, NEW s \in Symbols, NEW i \in Ids, RowsOf(s) \subseteq {i},
           holdings[i].symbol \in {s, "none"}
    PROVE  Held(s) = holdings[i].quantity
<1> DEFINE f == [j \in Ids |-> holdings[j].quantity]
<1>1. Held(s) = SumOf(f, RowsOf(s))
  BY HeldIsSum
<1>2. f[i] \in Nat /\ f[i] = holdings[i].quantity
  BY QuantitiesAreNat DEF TypeInv, TypeOK
<1>3. SumOf(f, {}) = 0
  BY SumZero, FS_EmptySet
<1>4. CASE RowsOf(s) = {}
  <2>1. holdings[i].symbol = "none"
    BY <1>4 DEF RowsOf
  <2>2. holdings[i] = Gone
    BY <2>1, RowKinds DEF TypeInv, TypeOK
  <2>3. QED
    BY <1>1, <1>3, <1>4, <2>2 DEF Gone
<1>5. CASE RowsOf(s) = {i}
  <2>1. IsFiniteSet({i}) /\ {i} \ {i} = {}
    BY FS_Singleton
  <2> HIDE DEF f
  <2>2. SumOf(f, {i}) = f[i] + SumOf(f, {i} \ {i})
    BY <1>2, <2>1, SumSplit
  <2>3. QED
    BY <1>1, <1>2, <1>3, <1>5, <2>1, <2>2
<1>6. QED
  BY <1>4, <1>5

\* Undisturbed and done, a workflow has changed a row by its own trade, or not at all.
LEMMA WhatIsHeld ==
    ASSUME TypeInv, NEW w \in Workflows, CarriedOut(w), Plain(w),
           NEW k \in DOMAIN Considered(report[w]), report[w][k].symbol \in Listed(w)
    PROVE  LET d == report[w][k]
               q == view[w][RowIn(w, d.symbol)].quantity
           IN  \/ /\ Quantity(w, d) > 0
                  /\ Held(d.symbol) = IF Delta(w, d) > 0 THEN q + Quantity(w, d)
                                      ELSE Minus(q, Quantity(w, d))
               \/ ~ Worthwhile(w, d) /\ Held(d.symbol) = q
<1> DEFINE d == report[w][k]
           all == Considered(report[w])
           i == RowIn(w, d.symbol)
<1>1. w \in Clients /\ Decided(w) /\ Follows(w) /\ Clear(w) /\ Applied(w) /\ stage[w] = "ended"
  BY HoldingsAssumption DEF Workflows, Plain, Decided, CarriedOut, Clear, Distinct
<1>2. \A n \in DOMAIN all : n \in DOMAIN report[w] /\ all[n] = report[w][n]
  BY <1>1, ConsideredIs DEF Follows
<1>3. d.symbol \in Symbols /\ i \in HeldIds(w) /\ view[w][i].symbol = d.symbol
  BY <1>1, RowInIs
<1> HIDE DEF all
<1>4. PICK at : Matches(w, proposal[w], all, at)
  BY <1>1 DEF Follows, all
<1>5. Done(w) = DOMAIN proposal[w]
  <2>1. Len(proposal[w]) \in Nat /\ DOMAIN proposal[w] = 1..Len(proposal[w]) /\ todo[w] = <<>>
    BY <1>1 DEF Follows
  <2>2. Progress(w) = Len(proposal[w])
    BY <2>1 DEF Progress
  <2>3. QED
    BY <2>1, <2>2 DEF Done
<1>6. \A j \in DOMAIN proposal[w] :
          /\ OrderAt(w, j) = TradeFor(w, all[at[j]]).order
          /\ OrderAt(w, j).symbol = all[at[j]].symbol
          /\ at[j] \in DOMAIN all /\ Worthwhile(w, all[at[j]])
  <2> SUFFICES ASSUME NEW j \in DOMAIN proposal[w]
               PROVE  /\ OrderAt(w, j) = TradeFor(w, all[at[j]]).order
                      /\ OrderAt(w, j).symbol = all[at[j]].symbol
                      /\ at[j] \in DOMAIN all /\ Worthwhile(w, all[at[j]])
    OBVIOUS
  <2>1. /\ at[j] \in DOMAIN all /\ Worthwhile(w, all[at[j]])
        /\ proposal[w][j] = TradeFor(w, all[at[j]])
    BY <1>4 DEF Matches
  <2>2. OrderAt(w, j) = TradeFor(w, all[at[j]]).order
    BY <2>1 DEF OrderAt
  <2>3. TradeFor(w, all[at[j]]).order.symbol = all[at[j]].symbol
    BY DEF TradeFor
  <2>4. QED
    BY <2>1, <2>2, <2>3
<1>7. k \in DOMAIN all /\ all[k] = d
  BY <1>2 DEF all
<1> HIDE DEF d, i
<1>8. \A j \in DOMAIN proposal[w] : OrderAt(w, j).symbol = d.symbol => at[j] = k
  BY <1>1, <1>2, <1>6, <1>7 DEF Clear, Distinct
<1>9. /\ i \in Ids /\ d.symbol # "none"
      /\ holdings[i].symbol \in {d.symbol, "none"}
  BY <1>1, <1>3, HoldingsAssumption DEF HeldIds, Applied
<1>10. RowsOf(d.symbol) \subseteq {i}
  <2> SUFFICES ASSUME NEW j \in Ids, holdings[j].symbol = d.symbol PROVE j = i
    BY DEF RowsOf
  <2>1. view[w][j].symbol = d.symbol
    BY <1>1, <1>9 DEF Applied
  <2>2. j \in HeldIds(w)
    BY <1>9, <2>1 DEF HeldIds, Gone
  <2>3. QED
    BY <1>1, <1>3, <2>1, <2>2 DEF Clear, OneRowEach
<1>11. Held(d.symbol) = holdings[i].quantity
  BY <1>3, <1>9, <1>10, HeldInOneRow
<1>12. CASE Worthwhile(w, d)
  <2>1. PICK j \in DOMAIN proposal[w] : at[j] = k
    BY <1>4, <1>7, <1>12 DEF Matches
  <2>2. OrderAt(w, j) = TradeFor(w, d).order /\ OrderAt(w, j).symbol = d.symbol
    BY <1>6, <1>7, <2>1
  <2>3. holdings[i].quantity = Booked(view[w][i].quantity, OrderAt(w, j))
    BY <1>1, <1>3, <1>5, <1>9, <2>2 DEF Applied
  <2>4. holdings[i].quantity = IF Delta(w, d) > 0 THEN view[w][i].quantity + Quantity(w, d)
                               ELSE Minus(view[w][i].quantity, Quantity(w, d))
    BY <2>2, <2>3 DEF Booked, TradeFor
  <2>5. QED
    BY <1>11, <1>12, <2>4 DEF Worthwhile, d, i
<1>13. CASE ~ Worthwhile(w, d)
  <2>1. \A j \in DOMAIN proposal[w] : OrderAt(w, j).symbol # d.symbol
    BY <1>6, <1>7, <1>8, <1>13
  <2>2. holdings[i] = view[w][i]
    BY <1>1, <1>3, <1>5, <1>9, <2>1 DEF Applied
  <2>3. QED
    BY <1>11, <1>13, <2>2 DEF d, i
<1>14. QED
  BY <1>12, <1>13

\* What the orders of a proposal leave is what the decision aimed at, as far as it rounds.
LEMMA OnTarget ==
    ASSUME TypeInv, NEW w \in Workflows, CarriedOut(w), Plain(w),
           NEW k \in DOMAIN Considered(report[w]),
           report[w][k].symbol \in Listed(w), PriceIn(w, report[w][k]) > 0
    PROVE  LET d == report[w][k]
           IN  Size(2 * Scale * Held(d.symbol) * PriceIn(w, d) - 2 * Total(w) * d.target)
                   <= Slack(w, d)
<1> DEFINE d == report[w][k]
           i == RowIn(w, d.symbol)
           q == view[w][i].quantity
           P == PriceIn(w, d)
           T == Total(w)
           h == Held(d.symbol)
           off == Size(2 * Scale * h * P - 2 * T * d.target)
           most == Max({2 * MinTrade, P})
<1>1. w \in Clients /\ report[w] \in Seq(Choice)
  BY HoldingsAssumption DEF Workflows, Plain, CarriedOut, Decided, Follows
<1>2. d \in Choice
  BY <1>1, ConsideredIs
<1>3. i \in Ids /\ P = view[w][i].price
  BY <1>1, RowInIs DEF HeldIds, PriceIn
<1>4. /\ q \in Nat /\ P \in Nat \ {0} /\ T \in Nat \ {0} /\ d.target \in Nat
      /\ Scale \in Nat \ {0} /\ MinTrade \in Nat
  BY <1>1, <1>2, <1>3, ValuesAreNat, TotalType, RebalanceAssumption DEF Choice
<1>5. Weight(w, i) = RoundDiv((q * P) * Scale, T)
  BY <1>3 DEF Weight, Value
<1>6. Delta(w, d) = T * (d.target - Weight(w, i)) /\ d.symbol \in Listed(w)
  BY DEF Delta
<1>7. Quantity(w, d) = RoundDiv(Size(Delta(w, d)), Scale * P)
  BY DEF Quantity
<1>8. Quantity(w, d) \in Nat /\ Size(Delta(w, d)) \in Nat
  BY <1>1, <1>2, <1>4, <1>6, QuantityType
<1>9. \/ Quantity(w, d) > 0 /\ h = IF Delta(w, d) > 0 THEN q + Quantity(w, d)
                                   ELSE Minus(q, Quantity(w, d))
      \/ ~ Worthwhile(w, d) /\ h = q
  BY WhatIsHeld
<1>10. Slack(w, d) = T + Scale * most
  BY DEF Slack
<1> HIDE DEF d, i, q, P, T, h
<1>11. ~ Worthwhile(w, d) => Size(Delta(w, d)) < MinTrade * Scale \/ Quantity(w, d) = 0
  <2>1. MinTrade * Scale \in Nat
    BY <1>4
  <2>2. QED
    BY <1>4, <1>6, <1>8, <2>1 DEF Worthwhile, P
<1>12. off <= T + Scale * P \/ off <= T + Scale * (2 * MinTrade)
  BY <1>4, <1>5, <1>6, <1>7, <1>9, <1>11, TradeLandsNear
<1>13. most \in Nat /\ P <= most /\ 2 * MinTrade <= most
  BY <1>4, MaxOfTwo
<1> HIDE DEF most
<1>14. Scale * P <= Scale * most /\ Scale * (2 * MinTrade) <= Scale * most
  BY <1>4, <1>13
<1>15. h \in Nat
  BY <1>4, <1>8, <1>9 DEF Minus
<1>16. off \in Int
  BY <1>4, <1>15 DEF Size
<1> HIDE DEF off
<1>17. off <= T + Scale * most
  BY <1>4, <1>12, <1>13, <1>14, <1>16
<1>18. QED
  BY <1>10, <1>17 DEF off, d, P, T, h

LEMMA InitWorkflow == RInit => WorkflowInv
<1> SUFFICES ASSUME RInit PROVE WorkflowInv
  OBVIOUS
<1>1. ASSUME NEW w \in Workflows PROVE stage[w] = "idle" /\ verdict[w] = "none"
  BY HoldingsAssumption DEF RInit, Init, Workflows
<1>2. ASSUME NEW w \in Workflows PROVE CarriedOut(w)
  BY <1>1 DEF CarriedOut, Decided
<1>3. QED
  BY <1>2 DEF RInit, WorkflowInv

LEMMA WorkflowIsInvariant == RSpec => [](TypeInv /\ WorkflowInv)
<1>1. RInit => TypeInv /\ WorkflowInv
  BY InitType, InitWorkflow DEF RInit
<1>2. TypeInv /\ WorkflowInv /\ [RNext]_rvars => (TypeInv /\ WorkflowInv)'
  BY StepsAreHoldings, NextTypeOK, NextStageInv, NextWorkflow DEF TypeInv
<1>3. QED
  BY <1>1, <1>2, PTL DEF RSpec

\* A rebalance that no one disturbs ends with each symbol it decided on worth the target
\* weight of the portfolio that its summary read, up to the rounding of weights and
\* quantities and the smallest trade: whatever the holdings, prices, cash, scale and
\* decisions, bought, sold or sold out.
THEOREM RebalanceHitsTarget == RSpec => []HitsTarget
<1>1. TypeInv /\ WorkflowInv => HitsTarget
  BY OnTarget DEF HitsTarget, WorkflowInv
<1>2. QED
  BY <1>1, WorkflowIsInvariant, PTL

\* The review looks at the target weights and the orders land near them: what was
\* approved leaves no symbol that it bought above the limit by more than the slack.
THEOREM ApprovedStaysWithinLimit == RSpec => []WithinLimit
<1>1. TypeInv /\ WorkflowInv => WithinLimit
  <2> SUFFICES ASSUME TypeInv, WorkflowInv, NEW w \in Workflows, Plain(w),
                      verdict[w] = "approved", NEW n \in DOMAIN proposal[w]
               PROVE  LET t == proposal[w][n]
                      IN  2 * Scale * Held(t.order.symbol) * PriceIn(w, t.order)
                              <= 2 * Total(w) * MaxPosition + Slack(w, t.order)
    BY DEF WithinLimit
  <2> DEFINE all == Considered(report[w])
             t == proposal[w][n]
             x == 2 * Scale * Held(t.order.symbol) * PriceIn(w, t.order)
  <2>1. /\ w \in Clients /\ CarriedOut(w) /\ Follows(w) /\ Clear(w) /\ Applied(w)
        /\ Approved(proposal[w])
    BY HoldingsAssumption DEF WorkflowInv, Workflows, Plain, Decided, CarriedOut, Clear, Distinct
  <2>2. PICK k \in DOMAIN all : Worthwhile(w, all[k]) /\ t = TradeFor(w, all[k])
    BY <2>1 DEF Follows, Matches
  <2> DEFINE d == report[w][k]
  <2>3. all[k] = d /\ d \in Choice
    BY <2>1, ConsideredIs DEF Follows
  <2> HIDE DEF all
  <2>4. t.order.symbol = d.symbol /\ t.target = d.target /\ t.target <= MaxPosition
    BY <2>1, <2>2, <2>3 DEF TradeFor, Approved
  <2>5. PriceIn(w, t.order) = PriceIn(w, d) /\ Slack(w, t.order) = Slack(w, d)
    BY <2>4 DEF PriceIn, Slack
  <2>6. Size(2 * Scale * Held(d.symbol) * PriceIn(w, d) - 2 * Total(w) * d.target) <= Slack(w, d)
    BY <2>1, <2>2, <2>3, OnTarget DEF Worthwhile, all
  <2>7. /\ Held(d.symbol) \in Nat /\ PriceIn(w, d) \in Nat /\ Total(w) \in Nat
        /\ Scale \in Nat /\ MaxPosition \in Nat /\ d.target \in Nat
    <3>1. d.symbol \in Listed(w)
      BY <2>2, <2>3 DEF Worthwhile
    <3>2. QED
      BY <2>1, <2>3, <3>1, HeldType, TotalType, QuantityType, RebalanceAssumption DEF Choice
  <2>8. Slack(w, d) \in Nat
    <3>1. 2 * MinTrade \in Nat
      BY RebalanceAssumption
    <3>2. Max({2 * MinTrade, PriceIn(w, d)}) \in Nat
      BY <2>7, <3>1, MaxOfTwo
    <3>3. QED
      BY <2>7, <3>2 DEF Slack
  <2>9. x = 2 * Scale * Held(d.symbol) * PriceIn(w, d) /\ x \in Nat
    BY <2>4, <2>5, <2>7
  <2>10. 2 * Total(w) * d.target \in Nat /\ 2 * Total(w) * MaxPosition \in Nat
    BY <2>7
  <2>11. 2 * Total(w) * d.target <= 2 * Total(w) * MaxPosition
    BY <2>4, <2>7
  <2> HIDE DEF d, x, t
  <2>12. x - 2 * Total(w) * d.target <= Slack(w, d)
    BY <2>6, <2>8, <2>9, <2>10 DEF Size
  <2>13. x <= 2 * Total(w) * MaxPosition + Slack(w, d)
    BY <2>8, <2>9, <2>10, <2>11, <2>12
  <2>14. QED
    BY <2>5, <2>13 DEF x, t
<1>2. QED
  BY <1>1, WorkflowIsInvariant, PTL
=============================================================================
