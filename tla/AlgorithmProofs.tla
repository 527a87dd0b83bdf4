-------------------------- MODULE AlgorithmProofs --------------------------
(***************************************************************************)
(* The pure algorithms, for inputs of any length: the backtest looks at no *)
(* later bar and its badge is earned, the memory's context fits its budget *)
(* or is a summary of everything, and the list of model profiles says what *)
(* would be built.                                                         *)
(*                                                                         *)
(* Each is a pass over a sequence: a recursive function, chosen for its    *)
(* equation.  That there is one is shown first, and what it computes by a  *)
(* least counterexample.                                                   *)
(***************************************************************************)
EXTENDS MCAlgorithms, FiniteSetTheorems, SequenceTheorems, WellFoundedInduction, TLAPS

\* A set of natural numbers that is not empty has a least element.
LEMMA LeastExists ==
    ASSUME NEW S \in SUBSET Nat, S # {}
    PROVE  \E x \in S : \A y \in S : x <= y
<1> DEFINE Less == {p \in Nat \X Nat : p[1] < p[2]}
<1>1. IsWellFoundedOn(Less, Nat)
  BY NatLessThanWellFounded DEF OpToRel
<1>2. PICK x \in S : \A y \in S : ~ (<<y, x>> \in Less)
  <2> HIDE DEF Less
  <2> QED
    BY <1>1, WFMin
<1>3. \A y \in S : ~ (y < x)
  BY <1>2
<1>4. QED
  BY <1>3

\* What Append makes of a sequence of n - 1 elements.
LEMMA AppendIs ==
    ASSUME NEW n \in Nat \ {0}, NEW v, NEW x
    PROVE  Append([k \in 1..n - 1 |-> v[k]], x) = [k \in 1..n |-> IF k = n THEN x ELSE v[k]]
<1> DEFINE c == [k \in 1..n - 1 |-> v[k]]
           X == {v[k] : k \in 1..n - 1} \cup {x}
<1>1. c \in Seq(X) /\ Len(c) = n - 1 /\ x \in X
  OBVIOUS
<1> HIDE DEF c, X
<1>2. /\ Append(c, x) \in Seq(X) /\ Len(Append(c, x)) = n
      /\ \A k \in 1..n : Append(c, x)[k] = IF k = n THEN x ELSE c[k]
  BY <1>1
<1>3. \A k \in 1..n : k # n => c[k] = v[k]
  BY DEF c
<1>4. Append(c, x) = [k \in 1..n |-> IF k = n THEN x ELSE v[k]]
  <2> DEFINE d == [k \in 1..n |-> IF k = n THEN x ELSE v[k]]
  <2>1. \A k \in 1..n : Append(c, x)[k] = d[k]
    BY <1>2, <1>3
  <2>2. Append(c, x) = [k \in 1..n |-> Append(c, x)[k]]
    <3> DEFINE e == Append(c, x)
    <3>1. e \in Seq(X) /\ Len(e) = n
      BY <1>2
    <3> HIDE DEF e
    <3>2. e = [k \in 1..Len(e) |-> e[k]]
      BY <3>1
    <3>3. QED
      BY <3>1, <3>2 DEF e
  <2>3. d = [k \in 1..n |-> d[k]]
    OBVIOUS
  <2> HIDE DEF d
  <2>4. QED
    BY <2>1, <2>2, <2>3 DEF d
<1>5. QED
  BY <1>4 DEF c

\* A sequence over a set is one over every larger set.
LEMMA SeqOfMore ==
    ASSUME NEW X, NEW Y, X \subseteq Y, NEW s \in Seq(X)
    PROVE  s \in Seq(Y)
<1>1. Len(s) \in Nat /\ s = [n \in 1..Len(s) |-> s[n]]
  OBVIOUS
<1>2. \A n \in 1..Len(s) : s[n] \in X
  OBVIOUS
<1>3. \A n \in 1..Len(s) : s[n] \in Y
  BY <1>2
<1>4. QED
  BY <1>1, <1>3

---------------------------------------------------------------------------
(* The pass over the bars.                                                 *)

\* The account after the n-th bar, from the one before it.
After(f, n, bars, req) ==
    IF n = 0 THEN Start
    ELSE Mark(Trade(f[n - 1], bars[n], SeenAt(bars, n), req), bars[n])

IsRun(f, bars, req) == f = [n \in 0..Len(bars) |-> After(f, n, bars, req)]

\* There is a pass over every series.
LEMMA RunExists ==
    ASSUME NEW X, NEW bars \in Seq(X), NEW req
    PROVE  \E f : IsRun(f, bars, req)
<1> DEFINE L == 0..Len(bars)
           Upto(n, f) == /\ f = [i \in L |-> f[i]]
                         /\ \A i \in 0..n : f[i] = After(f, i, bars, req)
           Fails == {n \in L : ~ \E f : Upto(n, f)}
<1>1. Len(bars) \in Nat
  OBVIOUS
<1>2. Fails = {}
  <2> SUFFICES ASSUME Fails # {} PROVE FALSE
    OBVIOUS
  <2>1. PICK n \in Fails : \A m \in Fails : n <= m
    <3>1. Fails \in SUBSET Nat
      BY <1>1
    <3> HIDE DEF Fails
    <3>2. QED
      BY <3>1, LeastExists
  <2>2. n \in L /\ n \in Nat
    BY <1>1, <2>1
  <2>3. n # 0
    <3> DEFINE f == [i \in L |-> Start]
    <3>1. Upto(0, f)
      BY <1>1 DEF After
    <3>2. QED
      BY <2>1, <3>1
  <2>4. n - 1 \in L /\ n - 1 \notin Fails
    BY <1>1, <2>1, <2>2, <2>3
  <2>5. PICK f : Upto(n - 1, f)
    BY <2>4
  <2> DEFINE g == [i \in L |-> IF i = n THEN After(f, n, bars, req) ELSE f[i]]
  <2>6. \A i \in 0..n - 1 : g[i] = f[i]
    BY <1>1, <2>2
  <2>7. g = [i \in L |-> g[i]]
    OBVIOUS
  <2>8. g[n] = After(f, n, bars, req)
    BY <2>2
  <2> HIDE DEF g
  <2>9. ASSUME NEW i \in 0..n PROVE g[i] = After(g, i, bars, req)
    <3>1. CASE i = n
      <4>1. g[n - 1] = f[n - 1]
        BY <2>2, <2>3, <2>6
      <4>2. QED
        BY <2>3, <2>8, <3>1, <4>1 DEF After
    <3>2. CASE i # n
      <4>1. i \in 0..n - 1 /\ (i # 0 => i - 1 \in 0..n - 1)
        BY <2>2, <3>2
      <4>2. f[i] = After(f, i, bars, req)
        BY <2>5, <4>1
      <4>3. g[i] = f[i] /\ (i # 0 => g[i - 1] = f[i - 1])
        BY <2>6, <4>1
      <4>4. QED
        BY <4>2, <4>3 DEF After
    <3>3. QED
      BY <3>1, <3>2
  <2>10. Upto(n, g)
    BY <2>7, <2>9
  <2>11. QED
    BY <2>1, <2>10
<1>3. PICK f : Upto(Len(bars), f)
  BY <1>1, <1>2
<1>4. f = [i \in L |-> f[i]] /\ \A i \in L : f[i] = After(f, i, bars, req)
  BY <1>3
<1>5. f = [i \in L |-> After(f, i, bars, req)]
  BY <1>4
<1>6. QED
  BY <1>5 DEF IsRun

\* A run of two bars or more is the end of such a pass.
LEMMA RunIs ==
    ASSUME NEW X, NEW bars \in Seq(X), Len(bars) >= 2, NEW req
    PROVE  \E f : /\ IsRun(f, bars, req)
                  /\ RunSingle(bars, req) = Finish(f[Len(bars)], Last(bars))
<1> DEFINE f == CHOOSE g : IsRun(g, bars, req)
<1>1. IsRun(f, bars, req)
  BY RunExists
<1>2. RunSingle(bars, req) = Finish(f[Len(bars)], Last(bars))
  BY DEF RunSingle, IsRun, After
<1>3. QED
  BY <1>1, <1>2

---------------------------------------------------------------------------
(* The curve.                                                              *)

\* One more point for each bar, and none is changed later.
LEMMA CurveGrows ==
    ASSUME NEW X, NEW bars \in Seq(X), NEW req, NEW f, IsRun(f, bars, req)
    PROVE  /\ \A n \in 0..Len(bars) : DOMAIN f[n] = DOMAIN Start
           /\ \E v : \A n \in 0..Len(bars) : f[n].curve = [k \in 1..n |-> v[k]]
<1> DEFINE N == Len(bars)
           Marked1(n) == Trade(f[n - 1], bars[n], SeenAt(bars, n), req)
           v == [k \in 1..N |-> f[k].curve[k]]
           Good(n) == DOMAIN f[n] = DOMAIN Start /\ f[n].curve = [k \in 1..n |-> v[k]]
           Fails == {n \in 0..N : ~ Good(n)}
<1>1. N \in Nat
  OBVIOUS
<1>2. \A n \in 0..N : f[n] = After(f, n, bars, req)
  BY DEF IsRun
<1>3. Good(0)
  BY <1>1, <1>2 DEF After, Start
<1>4. ASSUME NEW n \in 1..N, Good(n - 1) PROVE Good(n)
  <2> DEFINE a == f[n - 1]
             b == Marked1(n)
             c == a.curve
             x == b.cash + (b.shares * bars[n]) \div Lot
  <2>1. n \in Nat /\ n # 0 /\ n \in 0..N
    BY <1>1
  <2>2. DOMAIN a = DOMAIN Start
    BY <1>4
  <2>3. DOMAIN b = DOMAIN a /\ b.curve = c
    BY <2>2 DEF Trade, Buy, Sell, Start
  <2>4. f[n] = [b EXCEPT !.curve = Append(@, x)]
    BY <1>2, <2>1 DEF After, Mark
  <2> HIDE DEF b, x
  <2>5. f[n].curve = Append(c, x) /\ DOMAIN f[n] = DOMAIN Start
    BY <2>2, <2>3, <2>4 DEF Start
  <2>6. c = [k \in 1..n - 1 |-> v[k]]
    BY <1>4
  <2> HIDE DEF a, c, v
  <2>8. Append(c, x) = [k \in 1..n |-> IF k = n THEN x ELSE c[k]]
    BY <2>1, <2>6, AppendIs
  <2>9. v[n] = x
    BY <1>1, <2>1, <2>5, <2>8 DEF v
  <2>10. Append(c, x) = [k \in 1..n |-> v[k]]
    BY <2>1, <2>6, <2>8, <2>9
  <2>11. QED
    BY <2>5, <2>10
<1>5. Fails = {}
  <2> SUFFICES ASSUME Fails # {} PROVE FALSE
    OBVIOUS
  <2> HIDE DEF Good
  <2>1. PICK n \in Fails : \A m \in Fails : n <= m
    <3>1. Fails \in SUBSET Nat
      BY <1>1
    <3> HIDE DEF Fails
    <3>2. QED
      BY <3>1, LeastExists
  <2>2. n \in 1..N /\ n - 1 \in 0..N /\ n - 1 \notin Fails
    BY <1>1, <1>3, <2>1
  <2>3. QED
    BY <1>4, <2>1, <2>2
<1>6. \A n \in 0..N : Good(n)
  BY <1>5
<1>7. QED
  BY <1>6

\* A run of the first bars is the beginning of the run of all.
LEMMA PrefixRunsAlike ==
    ASSUME NEW X, NEW bars \in Seq(X), NEW req, NEW m \in 1..Len(bars),
           NEW f, IsRun(f, bars, req), NEW g, IsRun(g, SubSeq(bars, 1, m), req)
    PROVE  \A n \in 0..m : g[n] = f[n]
<1> DEFINE first == SubSeq(bars, 1, m)
           Fails == {n \in 0..m : g[n] # f[n]}
<1>1. Len(bars) \in Nat /\ m \in Nat /\ m <= Len(bars)
  OBVIOUS
<1>2. first \in Seq(X) /\ Len(first) = m /\ \A k \in 1..m : first[k] = bars[k]
  BY <1>1
<1>3. \A n \in 1..m : SeenAt(first, n) = SeenAt(bars, n)
  <2> SUFFICES ASSUME NEW n \in 1..m PROVE SubSeq(first, 1, n) = SubSeq(bars, 1, n)
    BY DEF SeenAt
  <2>1. /\ SubSeq(first, 1, n) \in Seq(X) /\ Len(SubSeq(first, 1, n)) = n
        /\ \A k \in 1..n : SubSeq(first, 1, n)[k] = first[k]
    <3> HIDE DEF first
    <3>1. QED
      BY <1>2
  <2>2. /\ SubSeq(bars, 1, n) \in Seq(X) /\ Len(SubSeq(bars, 1, n)) = n
        /\ \A k \in 1..n : SubSeq(bars, 1, n)[k] = bars[k]
    BY <1>1
  <2> HIDE DEF first
  <2>3. \A k \in 1..n : SubSeq(first, 1, n)[k] = SubSeq(bars, 1, n)[k]
    BY <1>2, <2>1, <2>2
  <2>4. QED
    BY <2>1, <2>2, <2>3
<1>4. /\ \A n \in 0..Len(bars) : f[n] = After(f, n, bars, req)
      /\ \A n \in 0..m : g[n] = After(g, n, first, req)
  BY <1>2 DEF IsRun
<1> HIDE DEF first
<1>5. g[0] = f[0]
  BY <1>1, <1>4 DEF After
<1>6. ASSUME NEW n \in 1..m, g[n - 1] = f[n - 1] PROVE g[n] = f[n]
  <2>1. n # 0 /\ n \in 0..m /\ n \in 0..Len(bars)
    BY <1>1
  <2>2. first[n] = bars[n] /\ SeenAt(first, n) = SeenAt(bars, n)
    BY <1>2, <1>3
  <2>3. QED
    BY <1>4, <1>6, <2>1, <2>2 DEF After
<1>7. Fails = {}
  <2> SUFFICES ASSUME Fails # {} PROVE FALSE
    OBVIOUS
  <2>1. PICK n \in Fails : \A k \in Fails : n <= k
    <3>1. Fails \in SUBSET Nat
      BY <1>1
    <3> HIDE DEF Fails
    <3>2. QED
      BY <3>1, LeastExists
  <2>2. n \in 1..m /\ n - 1 \in 0..m /\ n - 1 \notin Fails
    BY <1>1, <1>5, <2>1
  <2>3. QED
    BY <1>6, <2>1, <2>2
<1>8. QED
  BY <1>7

\* Counting an open position as closed changes no point of the curve.
LEMMA FinishKeepsCurve ==
    ASSUME NEW a, DOMAIN a = DOMAIN Start, NEW close
    PROVE  Finish(a, close).curve = a.curve
  BY DEF Finish, Start

\* The engine looks at no later bar: of any series, at any prices and for any request, the
\* curve of the first bars is the beginning of the curve of them all.
THEOREM NoBarIsReadAhead ==
    \A X, req : \A bars \in Seq(X) : LooksBack(bars, req)
<1> SUFFICES ASSUME NEW X, NEW req, NEW bars \in Seq(X), NEW n \in 2..Len(bars)
             PROVE  RunSingle(SubSeq(bars, 1, n), req).curve
                        = SubSeq(RunSingle(bars, req).curve, 1, n)
  BY DEF LooksBack
<1> DEFINE first == SubSeq(bars, 1, n)
<1>1. Len(bars) \in Nat /\ n \in Nat /\ n <= Len(bars) /\ Len(bars) >= 2 /\ n \in 1..Len(bars)
  OBVIOUS
<1>2. first \in Seq(X) /\ Len(first) = n /\ Len(first) >= 2
  BY <1>1
<1>3. PICK f : /\ IsRun(f, bars, req)
               /\ RunSingle(bars, req) = Finish(f[Len(bars)], Last(bars))
  BY <1>1, RunIs
<1>4. PICK g : /\ IsRun(g, first, req)
               /\ RunSingle(first, req) = Finish(g[n], Last(first))
  <2> HIDE DEF first
  <2>1. QED
    BY <1>2, RunIs
<1>5. PICK v : \A k \in 0..Len(bars) : f[k].curve = [i \in 1..k |-> v[i]]
  BY <1>3, CurveGrows
<1>6. g[n] = f[n]
  BY <1>1, <1>3, <1>4, PrefixRunsAlike
<1>7. DOMAIN f[n] = DOMAIN Start /\ DOMAIN f[Len(bars)] = DOMAIN Start
  BY <1>1, <1>3, CurveGrows
<1>8. RunSingle(first, req).curve = [i \in 1..n |-> v[i]]
  BY <1>1, <1>4, <1>5, <1>6, <1>7, FinishKeepsCurve
<1>9. RunSingle(bars, req).curve = [i \in 1..Len(bars) |-> v[i]]
  BY <1>1, <1>3, <1>5, <1>7, FinishKeepsCurve
<1>10. SubSeq([i \in 1..Len(bars) |-> v[i]], 1, n) = [i \in 1..n |-> v[i]]
  <2> DEFINE s == [i \in 1..Len(bars) |-> v[i]]
  <2>1. s \in Seq({v[i] : i \in 1..Len(bars)}) /\ Len(s) = Len(bars)
    BY <1>1
  <2> HIDE DEF s
  <2>2. SubSeq(s, 1, n) = [i \in 1..n |-> s[i]]
    BY <1>1, <2>1
  <2>3. QED
    BY <1>1, <2>2 DEF s
<1>11. QED
  BY <1>8, <1>9, <1>10

---------------------------------------------------------------------------
(* The badge.                                                              *)

\* As long as nothing is traded there is the initial cash and nothing else.
LEMMA TradesAreCounted ==
    ASSUME NEW bars \in Seq(Int), NEW req, NEW f, IsRun(f, bars, req)
    PROVE  \A n \in 0..Len(bars) :
               /\ DOMAIN f[n] = DOMAIN Start
               /\ f[n].trades \in Nat
               /\ f[n].trades = 0 =>
                    /\ f[n].shares = 0 /\ f[n].cash = InitialCash
                    /\ f[n].curve = [k \in 1..n |-> InitialCash]
<1> DEFINE N == Len(bars)
           Idle(n) == /\ f[n].shares = 0 /\ f[n].cash = InitialCash
                      /\ f[n].curve = [k \in 1..n |-> InitialCash]
           Good(n) == /\ DOMAIN f[n] = DOMAIN Start /\ f[n].trades \in Nat
                      /\ f[n].trades = 0 => Idle(n)
           Fails == {n \in 0..N : ~ Good(n)}
<1>1. N \in Nat /\ \A n \in 1..N : bars[n] \in Int
  OBVIOUS
<1>2. \A n \in 0..N : f[n] = After(f, n, bars, req)
  BY DEF IsRun
<1>3. Good(0)
  BY <1>1, <1>2 DEF After, Start
<1>4. ASSUME NEW n \in 1..N, Good(n - 1) PROVE Good(n)
  <2> DEFINE a == f[n - 1]
             b == Trade(a, bars[n], SeenAt(bars, n), req)
             x == b.cash + (b.shares * bars[n]) \div Lot
  <2>1. n \in Nat \ {0} /\ n # 0 /\ n \in 0..N /\ bars[n] \in Int
    BY <1>1
  <2>2. DOMAIN a = DOMAIN Start /\ a.trades \in Nat /\ (a.trades = 0 => Idle(n - 1))
    BY <1>4
  <2>3. DOMAIN b = DOMAIN a /\ (b = a \/ b.trades = a.trades + 1)
    BY <2>2 DEF Trade, Buy, Sell, Start
  <2>4. f[n] = [b EXCEPT !.curve = Append(@, x)]
    BY <1>2, <2>1 DEF After, Mark
  <2> HIDE DEF a, b, x
  <2>5. /\ DOMAIN f[n] = DOMAIN Start /\ f[n].trades = b.trades
        /\ f[n].cash = b.cash /\ f[n].shares = b.shares /\ f[n].curve = Append(b.curve, x)
    BY <2>2, <2>3, <2>4 DEF Start
  <2>6. f[n].trades \in Nat
    BY <2>2, <2>3, <2>5
  <2>7. ASSUME f[n].trades = 0 PROVE Idle(n)
    <3>1. b = a /\ a.trades = 0
      <4>1. b.trades = 0 /\ a.trades \in Nat
        BY <2>2, <2>5, <2>7
      <4>2. b.trades # a.trades + 1
        BY <4>1
      <4>3. QED
        BY <2>3, <4>1, <4>2
    <3>2. a.shares = 0 /\ a.cash = InitialCash /\ a.curve = [k \in 1..n - 1 |-> InitialCash]
      BY <2>2, <3>1 DEF a
    <3>3. x = InitialCash
      BY <2>1, <3>1, <3>2, BacktestAssumption DEF x
    <3>4. Append(a.curve, x) = [k \in 1..n |-> InitialCash]
      <4> DEFINE v == [k \in 1..n |-> InitialCash]
      <4>1. a.curve = [k \in 1..n - 1 |-> v[k]]
        BY <2>1, <3>2
      <4>2. Append(a.curve, x) = [k \in 1..n |-> IF k = n THEN x ELSE v[k]]
        <5> HIDE DEF v
        <5>1. QED
          BY <2>1, <4>1, AppendIs
      <4>3. QED
        BY <3>3, <4>2
    <3>5. QED
      BY <2>5, <3>1, <3>2, <3>4
  <2>8. QED
    BY <2>5, <2>6, <2>7
<1>5. Fails = {}
  <2> SUFFICES ASSUME Fails # {} PROVE FALSE
    OBVIOUS
  <2> HIDE DEF Good
  <2>1. PICK n \in Fails : \A m \in Fails : n <= m
    <3>1. Fails \in SUBSET Nat
      BY <1>1
    <3> HIDE DEF Fails
    <3>2. QED
      BY <3>1, LeastExists
  <2>2. n \in 1..N /\ n - 1 \in 0..N /\ n - 1 \notin Fails
    BY <1>1, <1>3, <2>1
  <2>3. QED
    BY <1>4, <2>1, <2>2
<1>6. QED
  BY <1>5

\* A run that never trades has no Sharpe ratio but 0.
LEMMA IdleScoresNothing ==
    ASSUME NEW bars \in Seq(Int), NEW req
    PROVE  LET r == RunSingle(bars, req)
           IN  r.trades \in Nat /\ (r.trades = 0 => Sharpes(r.curve) = {0})
<1> DEFINE r == RunSingle(bars, req)
<1>1. CASE Len(bars) < 2
  <2>1. r.trades = 0 /\ r.curve = <<InitialCash>>
    BY <1>1 DEF RunSingle, Start
  <2>2. QED
    BY <2>1 DEF Sharpes
<1>2. CASE ~ (Len(bars) < 2)
  <2>1. Len(bars) \in Nat /\ Len(bars) >= 2
    BY <1>2
  <2>2. PICK f : IsRun(f, bars, req) /\ r = Finish(f[Len(bars)], Last(bars))
    BY <2>1, RunIs
  <2> DEFINE a == f[Len(bars)]
  <2>3. /\ DOMAIN a = DOMAIN Start /\ a.trades \in Nat
        /\ a.trades = 0 => a.shares = 0 /\ a.curve = [k \in 1..Len(bars) |-> InitialCash]
    BY <2>1, <2>2, TradesAreCounted
  <2> HIDE DEF a, r
  <2>4. r.trades = a.trades /\ r.curve = a.curve
    BY <2>2, <2>3 DEF Finish, Start, a
  <2>5. ASSUME r.trades = 0 PROVE Sharpes(r.curve) = {0}
    <3>1. r.curve = [k \in 1..Len(bars) |-> InitialCash]
      BY <2>3, <2>4, <2>5
    <3>2. Len(r.curve) = Len(bars)
      BY <2>1, <3>1
    <3>3. Steady(r.curve)
      <4> SUFFICES ASSUME NEW m \in 1..Len(r.curve) - 1, NEW n \in 1..Len(r.curve) - 1
                   PROVE  r.curve[m + 1] * r.curve[n] = r.curve[n + 1] * r.curve[m]
        BY DEF Steady
      <4>1. QED
        BY <2>1, <3>1, <3>2
    <3>4. QED
      BY <3>3 DEF Sharpes
  <2>6. QED
    BY <2>3, <2>4, <2>5 DEF r
<1>3. QED
  BY <1>1, <1>2

\* A part with a Sharpe ratio of 0 leaves nothing but an F.
LEMMA BadgeNeedsBoth ==
    ASSUME NEW is, NEW oos, NEW isFall, NEW oosFall, is \in Int, oos \in Int,
           Badge(is, oos, isFall, oosFall) # "F"
    PROVE  is # 0 /\ oos # 0
  BY DEF Badge

\* A badge is earned: whatever the prices, the request and the Sharpe ratios that the two
\* curves allow, a walk-forward whose badge is above F has traded in both of its parts.
THEOREM IdleGetsNoBadge ==
    \A req : \A bars \in Seq(Int) :
        req.train \in 0..100 => Earned(bars, req)
<1> SUFFICES ASSUME NEW bars \in Seq(Int), NEW req, req.train \in 0..100
             PROVE  Earned(bars, req)
  OBVIOUS
<1> DEFINE split == (Len(bars) * req.train) \div 100
           train == SubSeq(bars, 1, split)
           test == SubSeq(bars, split + 1, Len(bars))
<1>1. Len(bars) \in Nat /\ split \in 0..Len(bars)
  <2>1. Len(bars) \in Nat
    OBVIOUS
  <2>2. \A l \in Nat, p \in 0..100 : l * p \in Nat /\ l * (100 - p) \in Nat
    OBVIOUS
  <2>3. \A l \in Nat, p \in 0..100 : l * p \in 0..100 * l
    BY <2>2
  <2>4. \A l \in Nat : \A x \in 0..100 * l : x \div 100 \in 0..l
    OBVIOUS
  <2>5. QED
    BY <2>1, <2>3, <2>4
<1>2. train \in Seq(Int) /\ test \in Seq(Int)
  <2> HIDE DEF split
  <2>1. QED
    BY <1>1
<1> HIDE DEF split, train, test
<1> DEFINE runs == WalkForward(bars, req)
<1>3. runs.train = RunSingle(train, req) /\ runs.test = RunSingle(test, req)
  BY DEF WalkForward, split, train, test
<1> HIDE DEF runs
<1>4. /\ runs.train.trades \in Nat
      /\ runs.train.trades = 0 => Sharpes(runs.train.curve) = {0}
      /\ runs.test.trades \in Nat
      /\ runs.test.trades = 0 => Sharpes(runs.test.curve) = {0}
  BY <1>2, <1>3, IdleScoresNothing
<1>5. /\ Sharpes(runs.train.curve) \subseteq Int
      /\ Sharpes(runs.test.curve) \subseteq Int
  BY BacktestAssumption DEF Sharpes
<1>6. ASSUME NEW is \in Sharpes(runs.train.curve), NEW oos \in Sharpes(runs.test.curve),
             Badge(is, oos, MaxDrawdown(runs.train.curve), MaxDrawdown(runs.test.curve)) # "F"
      PROVE  runs.test.trades > 0 /\ runs.train.trades > 0
  <2>1. is # 0 /\ oos # 0
    BY <1>5, <1>6, BadgeNeedsBoth
  <2>2. QED
    BY <1>4, <2>1
<1>7. QED
  BY <1>6 DEF Earned, runs

---------------------------------------------------------------------------
(* Passes over a sequence.                                                 *)

\* A pass of N steps from start.
IsPass(f, N, start, step) ==
    f[0] = start /\ \A n \in 1..N : f[n] = step[<<f[n - 1], n>>]

\* There is a pass of any number of steps.
LEMMA PassExists ==
    ASSUME NEW S, NEW start \in S, NEW N \in Nat, NEW step \in [S \X (1..N) -> S]
    PROVE  \E f \in [0..N -> S] : IsPass(f, N, start, step)
<1> DEFINE Upto(n, f) == f[0] = start /\ \A i \in 1..n : f[i] = step[<<f[i - 1], i>>]
           Fails == {n \in 0..N : ~ \E f \in [0..N -> S] : Upto(n, f)}
<1>1. Fails = {}
  <2> SUFFICES ASSUME Fails # {} PROVE FALSE
    OBVIOUS
  <2>1. PICK n \in Fails : \A m \in Fails : n <= m
    <3>1. Fails \in SUBSET Nat
      OBVIOUS
    <3> HIDE DEF Fails
    <3>2. QED
      BY <3>1, LeastExists
  <2>2. n # 0
    <3> DEFINE f == [i \in 0..N |-> start]
    <3>1. f \in [0..N -> S] /\ Upto(0, f)
      OBVIOUS
    <3>2. QED
      BY <2>1, <3>1
  <2>3. n \in 1..N /\ n - 1 \in 0..N /\ n - 1 \notin Fails
    <3>1. n \in 0..N
      BY <2>1
    <3> HIDE DEF Fails
    <3>2. QED
      BY <2>1, <2>2, <3>1
  <2>4. PICK f \in [0..N -> S] : Upto(n - 1, f)
    BY <2>3
  <2> DEFINE g == [f EXCEPT ![n] = step[<<f[n - 1], n>>]]
  <2>5. g \in [0..N -> S]
    BY <2>3
  <2>6. Upto(n, g)
    <3>1. g[0] = start /\ g[n] = step[<<g[n - 1], n>>]
      <4>1. 0 # n /\ n - 1 # n /\ n \in 0..N
        BY <2>3
      <4>2. g[0] = f[0] /\ g[n - 1] = f[n - 1] /\ g[n] = step[<<f[n - 1], n>>]
        BY <2>3, <4>1
      <4>3. QED
        BY <2>4, <4>2
    <3>2. ASSUME NEW i \in 1..n, i # n PROVE g[i] = step[<<g[i - 1], i>>]
      <4>1. i \in 1..n - 1 /\ i - 1 # n
        BY <2>3, <3>2
      <4>2. f[i] = step[<<f[i - 1], i>>]
        BY <2>4, <4>1
      <4>3. g[i] = f[i] /\ g[i - 1] = f[i - 1]
        BY <2>3, <4>1
      <4>4. QED
        BY <4>2, <4>3
    <3>3. QED
      BY <3>1, <3>2
  <2>7. QED
    BY <2>1, <2>5, <2>6
<1>2. QED
  BY <1>1 DEF IsPass

---------------------------------------------------------------------------
(* What the memories of a list come to.                                    *)

IsSum(f, s) == f = [n \in 0..Len(s) |-> IF n = 0 THEN 0 ELSE f[n - 1] + s[n]]

\* The sum of a list, as such a pass.
LEMMA TokensIs ==
    ASSUME NEW s \in Seq(Nat)
    PROVE  \E f \in [0..Len(s) -> Nat] :
              /\ f[0] = 0 /\ \A n \in 1..Len(s) : f[n] = f[n - 1] + s[n]
              /\ Tokens(s) = f[Len(s)]
<1> DEFINE N == Len(s)
           step == [p \in Nat \X (1..N) |-> p[1] + s[p[2]]]
           f == CHOOSE g : IsSum(g, s)
<1>1. N \in Nat /\ \A n \in 1..N : s[n] \in Nat
  OBVIOUS
<1>2. step \in [Nat \X (1..N) -> Nat]
  BY <1>1
<1>3. \E g : IsSum(g, s)
  <2> HIDE DEF step
  <2>1. PICK g \in [0..N -> Nat] : IsPass(g, N, 0, step)
    BY <1>1, <1>2, PassExists
  <2>2. \A a \in Nat, n \in 1..N : step[<<a, n>>] = a + s[n]
    BY DEF step
  <2>3. ASSUME NEW n \in 0..N PROVE g[n] = IF n = 0 THEN 0 ELSE g[n - 1] + s[n]
    <3>1. CASE n = 0
      BY <2>1, <3>1 DEF IsPass
    <3>2. CASE n # 0
      <4>1. n \in 1..N /\ n - 1 \in 0..N
        BY <1>1, <3>2
      <4>2. g[n] = step[<<g[n - 1], n>>] /\ g[n - 1] \in Nat
        BY <2>1, <4>1 DEF IsPass
      <4>3. QED
        BY <2>2, <3>2, <4>1, <4>2
    <3>3. QED
      BY <3>1, <3>2
  <2>4. g = [n \in 0..N |-> IF n = 0 THEN 0 ELSE g[n - 1] + s[n]]
    BY <2>3
  <2>5. QED
    BY <2>4 DEF IsSum
<1>4. IsSum(f, s)
  BY <1>3
<1>5. Tokens(s) = f[N]
  BY DEF Tokens, IsSum
<1> HIDE DEF f
<1>6. f[0] = 0 /\ \A n \in 1..N : f[n] = f[n - 1] + s[n]
  BY <1>1, <1>4 DEF IsSum
<1> DEFINE Fails == {n \in 0..N : f[n] \notin Nat}
<1>7. Fails = {}
  <2> SUFFICES ASSUME Fails # {} PROVE FALSE
    OBVIOUS
  <2>1. PICK n \in Fails : \A m \in Fails : n <= m
    <3>1. Fails \in SUBSET Nat
      BY <1>1
    <3> HIDE DEF Fails
    <3>2. QED
      BY <3>1, LeastExists
  <2>2. n \in 1..N /\ n - 1 \in 0..N /\ n - 1 \notin Fails
    BY <1>1, <1>6, <2>1
  <2>3. f[n - 1] \in Nat /\ f[n] = f[n - 1] + s[n] /\ s[n] \in Nat
    BY <1>1, <1>6, <2>2
  <2>4. QED
    BY <2>1, <2>3
<1>8. f \in [0..N -> Nat]
  BY <1>4, <1>7 DEF IsSum
<1>9. QED
  BY <1>5, <1>6, <1>8

LEMMA TokensType ==
    ASSUME NEW s \in Seq(Nat)
    PROVE  Tokens(s) \in Nat
  BY TokensIs

LEMMA TokensOfNone == Tokens(<<>>) = 0
<1>1. <<>> \in Seq(Nat) /\ Len(<<>>) = 0
  OBVIOUS
<1>2. QED
  BY <1>1, TokensIs

\* One memory more adds its tokens.
LEMMA TokensOfAppend ==
    ASSUME NEW s \in Seq(Nat), NEW x \in Nat
    PROVE  Tokens(Append(s, x)) = Tokens(s) + x
<1> DEFINE N == Len(s)
           t == Append(s, x)
<1>1. N \in Nat /\ t \in Seq(Nat) /\ Len(t) = N + 1 /\ t[N + 1] = x /\ \A n \in 1..N : t[n] = s[n]
  OBVIOUS
<1> HIDE DEF t
<1>2. PICK f \in [0..N -> Nat] :
         /\ f[0] = 0 /\ \A n \in 1..N : f[n] = f[n - 1] + s[n]
         /\ Tokens(s) = f[N]
  BY TokensIs
<1>3. PICK g \in [0..N + 1 -> Nat] :
         /\ g[0] = 0 /\ \A n \in 1..N + 1 : g[n] = g[n - 1] + t[n]
         /\ Tokens(t) = g[N + 1]
  BY <1>1, TokensIs
<1> DEFINE Fails == {n \in 0..N : g[n] # f[n]}
<1>4. Fails = {}
  <2> SUFFICES ASSUME Fails # {} PROVE FALSE
    OBVIOUS
  <2>1. PICK n \in Fails : \A m \in Fails : n <= m
    <3>1. Fails \in SUBSET Nat
      BY <1>1
    <3> HIDE DEF Fails
    <3>2. QED
      BY <3>1, LeastExists
  <2>2. n \in 0..N /\ n # 0
    BY <1>2, <1>3, <2>1
  <2>3. n \in 1..N /\ n \in 1..N + 1 /\ n - 1 \in 0..N /\ n - 1 \notin Fails
    <3> HIDE DEF Fails
    <3>1. QED
      BY <1>1, <2>1, <2>2
  <2>4. g[n - 1] = f[n - 1]
    BY <2>3
  <2>5. g[n] = g[n - 1] + t[n] /\ f[n] = f[n - 1] + s[n] /\ t[n] = s[n]
    BY <1>1, <1>2, <1>3, <2>3
  <2>6. QED
    BY <2>1, <2>4, <2>5
<1>5. g[N] = f[N]
  BY <1>1, <1>4
<1>6. g[N + 1] = g[N] + x
  <2>1. N + 1 \in 1..N + 1 /\ (N + 1) - 1 = N
    BY <1>1
  <2>2. g[N + 1] = g[(N + 1) - 1] + t[N + 1]
    BY <1>3, <2>1
  <2>3. QED
    BY <1>1, <2>1, <2>2
<1>7. QED
  BY <1>2, <1>3, <1>5, <1>6 DEF t

LEMMA CountType ==
    ASSUME NEW s \in Seq(Nat), NEW x
    PROVE  Count(s, x) \in Nat
<1> DEFINE C == {n \in 1..Len(s) : s[n] = x}
<1>1. Len(s) \in Nat /\ DOMAIN s = 1..Len(s)
  OBVIOUS
<1>2. IsFiniteSet(1..Len(s))
  BY <1>1, FS_Interval
<1>3. IsFiniteSet(C)
  BY <1>2, FS_Subset
<1>4. Cardinality(C) \in Nat
  BY <1>3, FS_CardinalityType
<1>5. QED
  BY <1>1, <1>4 DEF Count

\* One memory more is counted once.
LEMMA CountOfAppend ==
    ASSUME NEW s \in Seq(Nat), NEW y \in Nat, NEW x
    PROVE  Count(Append(s, y), x) = Count(s, x) + (IF y = x THEN 1 ELSE 0)
<1> DEFINE N == Len(s)
           t == Append(s, y)
           C == {n \in 1..N : s[n] = x}
           D == {n \in 1..N + 1 : t[n] = x}
<1>1. /\ N \in Nat /\ DOMAIN s = 1..N /\ DOMAIN t = 1..N + 1
      /\ t[N + 1] = y /\ \A n \in 1..N : t[n] = s[n]
  OBVIOUS
<1>2. Count(s, x) = Cardinality(C) /\ Count(t, x) = Cardinality(D)
  BY <1>1 DEF Count
<1> HIDE DEF t
<1>3. IsFiniteSet(C) /\ N + 1 \notin C
  <2>1. IsFiniteSet(1..N)
    BY <1>1, FS_Interval
  <2>2. QED
    BY <1>1, <2>1, FS_Subset
<1>4. D = IF y = x THEN C \cup {N + 1} ELSE C
  BY <1>1
<1> HIDE DEF C, D
<1>5. Cardinality(C) \in Nat /\ Cardinality(C \cup {N + 1}) = Cardinality(C) + 1
  BY <1>3, FS_CardinalityType, FS_AddElement
<1>6. QED
  BY <1>2, <1>4, <1>5 DEF t

---------------------------------------------------------------------------
(* What fits.                                                              *)

IsTrim(f, memories, budget) ==
    f = [n \in 0..Len(memories) |->
            IF n = 0 THEN [remaining |-> Active(budget), selected |-> <<>>]
            ELSE Pick(f[n - 1], memories[n])]

Picked == [remaining : Nat, selected : Seq(Nat)]

LEMMA PickType ==
    ASSUME NEW acc \in Picked, NEW m \in Nat
    PROVE  Pick(acc, m) \in Picked
<1>1. acc.remaining \in Nat /\ acc.selected \in Seq(Nat)
  BY DEF Picked
<1>2. CASE m <= acc.remaining
  <2>1. acc.remaining - m \in Nat /\ Append(acc.selected, m) \in Seq(Nat)
    BY <1>1, <1>2
  <2>2. QED
    BY <1>2, <2>1 DEF Pick, Picked
<1>3. CASE ~ (m <= acc.remaining)
  BY <1>3 DEF Pick
<1>4. QED
  BY <1>2, <1>3

\* What trim selects, as such a pass.
LEMMA TrimIs ==
    ASSUME NEW memories \in Seq(Nat), NEW budget, Active(budget) \in Nat
    PROVE  \E f : /\ f[0] = [remaining |-> Active(budget), selected |-> <<>>]
                  /\ \A n \in 1..Len(memories) : f[n] = Pick(f[n - 1], memories[n])
                  /\ Trim(memories, budget) = f[Len(memories)].selected
<1> DEFINE N == Len(memories)
           first == [remaining |-> Active(budget), selected |-> <<>>]
           step == [p \in Picked \X (1..N) |-> Pick(p[1], memories[p[2]])]
           f == CHOOSE g : IsTrim(g, memories, budget)
<1>1. N \in Nat /\ \A n \in 1..N : memories[n] \in Nat
  OBVIOUS
<1>2. first \in Picked
  BY DEF Picked
<1>3. step \in [Picked \X (1..N) -> Picked]
  BY <1>1, PickType
<1>4. \E g : IsTrim(g, memories, budget)
  <2> HIDE DEF step, first
  <2>1. PICK g \in [0..N -> Picked] : IsPass(g, N, first, step)
    BY <1>1, <1>2, <1>3, PassExists
  <2>2. \A a \in Picked, n \in 1..N : step[<<a, n>>] = Pick(a, memories[n])
    BY DEF step
  <2>3. ASSUME NEW n \in 0..N
        PROVE  g[n] = IF n = 0 THEN first ELSE Pick(g[n - 1], memories[n])
    <3>1. CASE n = 0
      BY <2>1, <3>1 DEF IsPass
    <3>2. CASE n # 0
      <4>1. n \in 1..N /\ n - 1 \in 0..N
        BY <1>1, <3>2
      <4>2. g[n] = step[<<g[n - 1], n>>] /\ g[n - 1] \in Picked
        BY <2>1, <4>1 DEF IsPass
      <4>3. QED
        BY <2>2, <3>2, <4>1, <4>2
    <3>3. QED
      BY <3>1, <3>2
  <2>4. g = [n \in 0..N |-> IF n = 0 THEN first ELSE Pick(g[n - 1], memories[n])]
    BY <2>3
  <2>5. QED
    BY <2>4 DEF IsTrim, first
<1>5. IsTrim(f, memories, budget)
  BY <1>4
<1>6. Trim(memories, budget) = f[N].selected
  BY DEF Trim, IsTrim
<1> HIDE DEF f
<1>7. f[0] = first /\ \A n \in 1..N : f[n] = Pick(f[n - 1], memories[n])
  BY <1>1, <1>5 DEF IsTrim
<1>8. QED
  BY <1>6, <1>7

\* What is left over of the budget is what is spent on nothing, and a memory that was
\* passed over did not fit into it.
Fair(acc, seen, budget) ==
    /\ acc \in Picked
    /\ Tokens(acc.selected) = Active(budget) - acc.remaining
    /\ \A x \in Nat : Count(acc.selected, x) < Count(seen, x) => x > acc.remaining

\* To pick, or to pass over, the next memory is fair.
LEMMA PickIsFair ==
    ASSUME NEW acc, NEW seen \in Seq(Nat), NEW budget, Active(budget) \in Nat,
           Fair(acc, seen, budget), NEW m \in Nat
    PROVE  Fair(Pick(acc, m), Append(seen, m), budget)
<1> DEFINE new == Pick(acc, m)
<1>1. new \in Picked
  BY PickType DEF Fair
<1>2. acc.remaining \in Nat /\ acc.selected \in Seq(Nat)
  BY DEF Fair, Picked
<1>3. \A x \in Nat : /\ Count(acc.selected, x) \in Nat /\ Count(seen, x) \in Nat
                     /\ Count(Append(seen, m), x) = Count(seen, x) + (IF m = x THEN 1 ELSE 0)
  BY <1>2, CountType, CountOfAppend
<1>4. CASE m <= acc.remaining
  <2>1. new.remaining = acc.remaining - m /\ new.selected = Append(acc.selected, m)
    BY <1>4 DEF Pick
  <2> HIDE DEF new
  <2>2. Tokens(new.selected) = Tokens(acc.selected) + m
    BY <1>2, <2>1, TokensOfAppend
  <2>3. Tokens(new.selected) = Active(budget) - new.remaining
    BY <1>2, <2>1, <2>2 DEF Fair
  <2>4. ASSUME NEW x \in Nat, Count(new.selected, x) < Count(Append(seen, m), x)
        PROVE  x > new.remaining
    <3>1. Count(new.selected, x) = Count(acc.selected, x) + (IF m = x THEN 1 ELSE 0)
      BY <1>2, <2>1, CountOfAppend
    <3>2. Count(acc.selected, x) < Count(seen, x)
      <4> DEFINE d == IF m = x THEN 1 ELSE 0
      <4>1. d \in Nat
        OBVIOUS
      <4>2. Count(acc.selected, x) + d < Count(seen, x) + d
        BY <1>3, <2>4, <3>1
      <4> HIDE DEF d
      <4>3. Count(acc.selected, x) \in Nat /\ Count(seen, x) \in Nat
        BY <1>3
      <4>4. QED
        BY <4>1, <4>2, <4>3
    <3>3. x > acc.remaining
      BY <3>2 DEF Fair
    <3>4. QED
      BY <1>2, <2>1, <3>3
  <2>5. QED
    BY <1>1, <2>3, <2>4 DEF Fair, new
<1>5. CASE ~ (m <= acc.remaining)
  <2>1. new = acc
    BY <1>5 DEF Pick
  <2>2. ASSUME NEW x \in Nat, Count(acc.selected, x) < Count(Append(seen, m), x)
        PROVE  x > acc.remaining
    <3>1. CASE x = m
      BY <1>2, <1>5, <3>1
    <3>2. CASE x # m
      <4>1. Count(acc.selected, x) < Count(seen, x)
        BY <1>3, <2>2, <3>2
      <4>2. QED
        BY <4>1 DEF Fair
    <3>3. QED
      BY <3>1, <3>2
  <2>3. QED
    BY <2>1, <2>2 DEF Fair
<1>6. QED
  BY <1>4, <1>5

\* What trim keeps fits into the budget, and nothing it left out would still fit.
LEMMA TrimFits ==
    ASSUME NEW memories \in Seq(Nat), NEW budget, Active(budget) \in Nat
    PROVE  LET kept == Trim(memories, budget)
           IN  /\ Tokens(kept) <= Active(budget)
               /\ \A x \in Nat : Count(kept, x) < Count(memories, x)
                                    => Tokens(kept) + x > Active(budget)
<1> DEFINE N == Len(memories)
<1>1. N \in Nat /\ \A n \in 1..N : memories[n] \in Nat
  OBVIOUS
<1>2. PICK f : /\ f[0] = [remaining |-> Active(budget), selected |-> <<>>]
               /\ \A n \in 1..N : f[n] = Pick(f[n - 1], memories[n])
               /\ Trim(memories, budget) = f[N].selected
  BY TrimIs
<1> DEFINE seen(n) == SubSeq(memories, 1, n)
           Good(n) == Fair(f[n], seen(n), budget)
           Fails == {n \in 0..N : ~ Good(n)}
<1>3. Good(0)
  <2>1. seen(0) = <<>>
    BY SubSeqEmpty
  <2>2. f[0].remaining = Active(budget) /\ f[0].selected = <<>> /\ f[0] \in Picked
    BY <1>2 DEF Picked
  <2>3. <<>> \in Seq(Nat)
    OBVIOUS
  <2>4. \A x : Count(<<>>, x) \in Nat
    BY <2>3, CountType
  <2>5. \A x : ~ (Count(<<>>, x) < Count(<<>>, x))
    BY <2>4
  <2>6. Tokens(<<>>) = Active(budget) - Active(budget)
    BY TokensOfNone
  <2> HIDE DEF seen
  <2>7. QED
    BY <2>1, <2>2, <2>5, <2>6 DEF Fair
<1>4. ASSUME NEW n \in 1..N, Good(n - 1) PROVE Good(n)
  <2>1. f[n] = Pick(f[n - 1], memories[n]) /\ memories[n] \in Nat
    BY <1>1, <1>2
  <2>2. seen(n - 1) \in Seq(Nat)
    BY <1>1
  <2>3. seen(n) = Append(seen(n - 1), memories[n])
    <3>1. seen(n) = seen(n - 1) \o <<memories[n]>>
      BY <1>1, SubSeqRecursiveSecond
    <3>2. \A s \in Seq(Nat), x \in Nat : s \o <<x>> = Append(s, x)
      OBVIOUS
    <3>3. QED
      BY <2>1, <2>2, <3>1, <3>2
  <2> HIDE DEF seen
  <2>4. QED
    BY <1>4, <2>1, <2>2, <2>3, PickIsFair
<1>5. Fails = {}
  <2> SUFFICES ASSUME Fails # {} PROVE FALSE
    OBVIOUS
  <2> HIDE DEF Good
  <2>1. PICK n \in Fails : \A m \in Fails : n <= m
    <3>1. Fails \in SUBSET Nat
      BY <1>1
    <3> HIDE DEF Fails
    <3>2. QED
      BY <3>1, LeastExists
  <2>2. n \in 1..N /\ n - 1 \in 0..N /\ n - 1 \notin Fails
    BY <1>1, <1>3, <2>1
  <2>3. QED
    BY <1>4, <2>1, <2>2
<1>6. seen(N) = memories
  BY SubSeqFull
<1>7. Fair(f[N], memories, budget)
  <2>1. Good(N)
    BY <1>1, <1>5
  <2>2. QED
    BY <1>6, <2>1
<1>8. f[N].remaining \in Nat
  BY <1>7 DEF Fair, Picked
<1>9. QED
  BY <1>2, <1>7, <1>8 DEF Fair

---------------------------------------------------------------------------
(* What a summary has read.                                                *)

Least(a, b) == IF a < b THEN a ELSE b

\* Every chunk starts before the end, and the last one reaches it.
LEMMA ChunksReachTheEnd ==
    ASSUME NEW L \in Nat, NEW C \in Nat \ {0}
    PROVE  LET N == (L + C - 1) \div C
           IN  /\ N \in Nat
               /\ N = 0 <=> L = 0
               /\ \A k \in 1..N : (k - 1) * C \in Nat /\ (k - 1) * C < L
               /\ L <= N * C
<1> DEFINE N == (L + C - 1) \div C
<1>1. N \in Int /\ N * C <= L + C - 1 /\ L + C - 1 < N * C + C
  OBVIOUS
<1>2. QED
  BY <1>1

\* Where the k-th chunk ends.
ChunkEnd(k, L) == Least(k * ChunkSize, L)

\* Each chunk begins where the one before it ended, and the last ends with the list.
LEMMA ChunksAre ==
    ASSUME NEW X, NEW memories \in Seq(X)
    PROVE  LET chunks == Chunks(memories)
               L == Len(memories)
           IN  /\ Len(chunks) \in Nat /\ DOMAIN chunks = 1..Len(chunks)
               /\ Len(chunks) = 0 <=> L = 0
               /\ \A k \in 1..Len(chunks) :
                     /\ chunks[k] = SubSeq(memories, (k - 1) * ChunkSize + 1, ChunkEnd(k, L))
                     /\ (k - 1) * ChunkSize \in 0..L - 1
                     /\ ChunkEnd(k, L) \in (k - 1) * ChunkSize + 1 .. L
                     /\ ChunkEnd(k, L) - (k - 1) * ChunkSize <= ChunkSize
                     /\ k > 1 => ChunkEnd(k - 1, L) = (k - 1) * ChunkSize
               /\ L # 0 => ChunkEnd(Len(chunks), L) = L
<1> DEFINE C == ChunkSize
           L == Len(memories)
           N == (L + C - 1) \div C
           chunks == Chunks(memories)
<1>1. C \in Nat \ {0} /\ L \in Nat
  BY BudgetAssumption
<1>2. /\ N \in Nat /\ (N = 0 <=> L = 0) /\ L <= N * C
      /\ \A k \in 1..N : (k - 1) * C \in Nat /\ (k - 1) * C < L
  BY <1>1, ChunksReachTheEnd
<1> HIDE DEF L
<1>3. chunks = [k \in 1..N |-> SubSeq(memories, (k - 1) * C + 1, ChunkEnd(k, L))]
  BY DEF Chunks, ChunkEnd, Least, L
<1> HIDE DEF N, chunks
<1>4. Len(chunks) = N /\ DOMAIN chunks = 1..N
  BY <1>2, <1>3
<1>5. \A k \in Int : k * C = (k - 1) * C + C /\ k * C \in Int
  BY <1>1
<1>6. ASSUME NEW k \in 1..N
      PROVE  /\ (k - 1) * C \in 0..L - 1
             /\ ChunkEnd(k, L) \in (k - 1) * C + 1 .. L
             /\ ChunkEnd(k, L) - (k - 1) * C <= C
             /\ ChunkEnd(k - 1, L) = (k - 1) * C
  <2>1. k * C = (k - 1) * C + C /\ (k - 1) * C \in Nat /\ (k - 1) * C < L
    <3>1. k \in Int
      BY <1>2
    <3>2. k * C = (k - 1) * C + C
      BY <1>5, <3>1
    <3>3. (k - 1) * C \in Nat /\ (k - 1) * C < L
      BY <1>2
    <3>4. QED
      BY <3>2, <3>3
  <2>2. QED
    BY <1>1, <2>1 DEF ChunkEnd, Least
<1>7. ChunkEnd(N, L) = L
  BY <1>1, <1>2, <1>5 DEF ChunkEnd, Least
<1>8. QED
  BY <1>2, <1>3, <1>4, <1>6, <1>7 DEF chunks, L

IsJoin(f, s) == f = [k \in 1..Len(s) |-> IF k = 1 THEN s[k] ELSE f[k - 1] \o s[k]]

\* The chunks are the memories, in order.
LEMMA ChunksJoin ==
    ASSUME NEW X, NEW memories \in Seq(X)
    PROVE  FlattenSeq(Chunks(memories)) = memories
<1> DEFINE L == Len(memories)
           chunks == Chunks(memories)
           N == Len(chunks)
           f == CHOOSE g : IsJoin(g, chunks)
           upto(k) == SubSeq(memories, 1, ChunkEnd(k, L))
<1>1. /\ L \in Nat /\ N \in Nat /\ DOMAIN chunks = 1..N /\ (N = 0 <=> L = 0)
      /\ L # 0 => ChunkEnd(N, L) = L
      /\ \A k \in 1..N :
            /\ chunks[k] = SubSeq(memories, (k - 1) * ChunkSize + 1, ChunkEnd(k, L))
            /\ (k - 1) * ChunkSize \in 0..L - 1
            /\ ChunkEnd(k, L) \in (k - 1) * ChunkSize + 1 .. L
            /\ k > 1 => ChunkEnd(k - 1, L) = (k - 1) * ChunkSize
  BY ChunksAre
<1>2. CASE N = 0
  <2>1. memories = <<>>
    BY <1>1, <1>2
  <2>2. chunks = <<>>
    <3>1. chunks = [k \in DOMAIN chunks |-> chunks[k]]
      BY DEF Chunks
    <3> HIDE DEF chunks
    <3>2. DOMAIN chunks = {}
      BY <1>1, <1>2
    <3>3. QED
      BY <3>1, <3>2
  <2>3. QED
    BY <2>1, <2>2 DEF FlattenSeq
<1>3. CASE N # 0
  <2> HIDE DEF chunks
  <2>1. chunks[1] = upto(1)
    <3>1. (1 - 1) * ChunkSize = 0
      BY BudgetAssumption
    <3>2. 1 \in 1..N
      BY <1>1, <1>3
    <3>3. chunks[1] = SubSeq(memories, (1 - 1) * ChunkSize + 1, ChunkEnd(1, L))
      BY <1>1, <3>2
    <3> DEFINE z == (1 - 1) * ChunkSize
               e == ChunkEnd(1, L)
    <3>4. z + 1 = 1
      BY <3>1
    <3>5. chunks[1] = SubSeq(memories, z + 1, e)
      BY <3>3
    <3> HIDE DEF z, e
    <3>6. chunks[1] = SubSeq(memories, 1, e)
      BY <3>4, <3>5
    <3>7. QED
      BY <3>6 DEF e
  <2>2. ASSUME NEW k \in 1..N, k # 1 PROVE upto(k - 1) \o chunks[k] = upto(k)
    <3> DEFINE a == (k - 1) * ChunkSize
               b == ChunkEnd(k, L)
    <3>1. /\ chunks[k] = SubSeq(memories, a + 1, b) /\ a \in 0..L - 1 /\ b \in a + 1 .. L
          /\ ChunkEnd(k - 1, L) = a
      BY <1>1, <2>2
    <3> HIDE DEF a, b
    <3>2. 1 \in 1..L + 1 /\ a \in 1 - 1 .. L /\ b \in a .. L
      BY <1>1, <3>1
    <3>3. SubSeq(memories, 1, a) \o SubSeq(memories, a + 1, b) = SubSeq(memories, 1, b)
      BY <3>2, ConcatAdjacentSubSeq
    <3>4. QED
      BY <3>1, <3>3 DEF b
  <2> HIDE DEF upto
  <2>3. IsJoin([k \in 1..N |-> upto(k)], chunks)
    <3> DEFINE g == [k \in 1..N |-> upto(k)]
    <3>1. ASSUME NEW k \in 1..N
          PROVE  upto(k) = IF k = 1 THEN chunks[k] ELSE g[k - 1] \o chunks[k]
      <4>1. CASE k = 1
        BY <2>1, <4>1
      <4>2. CASE k # 1
        <5>1. k - 1 \in 1..N
          BY <1>1, <4>2
        <5>2. QED
          BY <2>2, <4>2, <5>1
      <4>3. QED
        BY <4>1, <4>2
    <3>2. g = [k \in 1..N |-> IF k = 1 THEN chunks[k] ELSE g[k - 1] \o chunks[k]]
      BY <3>1
    <3>3. QED
      BY <3>2 DEF IsJoin
  <2>4. IsJoin(f, chunks)
    BY <2>3
  <2>5. FlattenSeq(chunks) = f[N]
    BY <1>3 DEF FlattenSeq, IsJoin
  <2> HIDE DEF f
  <2>6. \A k \in 1..N : f[k] = IF k = 1 THEN chunks[k] ELSE f[k - 1] \o chunks[k]
    BY <2>4 DEF IsJoin
  <2> DEFINE Fails == {k \in 1..N : f[k] # upto(k)}
  <2>7. Fails = {}
    <3> SUFFICES ASSUME Fails # {} PROVE FALSE
      OBVIOUS
    <3>1. PICK k \in Fails : \A m \in Fails : k <= m
      <4>1. Fails \in SUBSET Nat
        BY <1>1
      <4> HIDE DEF Fails
      <4>2. QED
        BY <4>1, LeastExists
    <3>2. k \in 1..N /\ k # 1
      BY <2>1, <2>6, <3>1
    <3>3. k - 1 \in 1..N /\ k - 1 \notin Fails
      <4> HIDE DEF Fails
      <4>1. QED
        BY <1>1, <3>1, <3>2
    <3>4. QED
      BY <2>2, <2>6, <3>1, <3>2, <3>3
  <2>8. f[N] = upto(N)
    <3>1. N \in 1..N
      BY <1>1, <1>3
    <3>2. QED
      BY <2>7, <3>1
  <2>9. upto(N) = memories
    BY <1>1, <1>3, SubSeqFull DEF upto
  <2>10. QED
    BY <2>5, <2>8, <2>9 DEF chunks
<1>4. QED
  BY <1>2, <1>3

\* No chunk is empty or longer than chunk_size.
LEMMA ChunksAreShort ==
    ASSUME NEW X, NEW memories \in Seq(X), NEW k \in DOMAIN Chunks(memories)
    PROVE  Len(Chunks(memories)[k]) \in 1..ChunkSize
<1> DEFINE L == Len(memories)
           a == (k - 1) * ChunkSize
           b == ChunkEnd(k, L)
<1>1. /\ Chunks(memories)[k] = SubSeq(memories, a + 1, b) /\ L \in Nat
      /\ a \in 0..L - 1 /\ b \in a + 1 .. L /\ b - a <= ChunkSize
  BY ChunksAre
<1> HIDE DEF a, b
<1>2. a + 1 \in Int /\ b \in Int /\ \A i \in a + 1 .. b : memories[i] \in X
  BY <1>1
<1>3. Len(SubSeq(memories, a + 1, b)) = b - (a + 1) + 1
  BY <1>1, <1>2, SubSeqProperties
<1>4. QED
  BY <1>1, <1>3, BudgetAssumption

---------------------------------------------------------------------------
(* What search_context hands out.                                          *)

\* Whatever the memories and the budget are: a context fits its budget and leaves out
\* nothing there would still be room for, or is a summary that has read everything.
THEOREM ContextsFit ==
    \A memories \in Seq(Nat), budget \in Nat : Fits(memories, budget)
<1> SUFFICES ASSUME NEW memories \in Seq(Nat), NEW budget \in Nat PROVE Fits(memories, budget)
  OBVIOUS
<1> DEFINE total == Active(budget)
           room == Allocate(budget).history
           trigger == Allocate(budget).trigger
           context == Context(memories, budget)
<1>1. total \in Nat \ {0}
  BY BudgetAssumption DEF Active
<1>2. room = (total * 60) \div 100 /\ trigger = (total * 80) \div 100
  BY DEF Allocate
<1> HIDE DEF total
<1>3. CASE ShouldCompress(Tokens(memories), budget)
  <2>1. context.compressed /\ context.summary.mapped = Chunks(memories)
    BY <1>3 DEF Context, MapReduce
  <2>2. QED
    BY <2>1, ChunksJoin, ChunksAreShort DEF Fits
<1>4. CASE ~ ShouldCompress(Tokens(memories), budget)
  <2>1. ~ context.compressed /\ context.kept = Trim(memories, room)
    BY <1>4 DEF Context
  <2>2. Tokens(memories) \in Nat /\ Tokens(memories) < trigger
    <3>1. Tokens(memories) \in Nat
      BY TokensType
    <3>2. trigger \in Nat
      BY <1>1, <1>2
    <3>3. ~ (Tokens(memories) >= trigger)
      BY <1>4 DEF ShouldCompress
    <3> HIDE DEF trigger
    <3>4. QED
      BY <3>1, <3>2, <3>3
  <2>3. room \in Nat \ {0}
    <3>1. trigger > 0
      BY <1>1, <1>2, <2>2
    <3>2. QED
      BY <1>1, <1>2, <3>1
  <2>4. Active(room) = room
    BY <2>3 DEF Active
  <2> HIDE DEF room, context
  <2>5. /\ Tokens(context.kept) <= room
        /\ \A x \in Nat : Count(context.kept, x) < Count(memories, x)
                             => Tokens(context.kept) + x > room
    BY <2>1, <2>3, <2>4, TrimFits
  <2>6. ToSet(memories) \subseteq Nat
    BY DEF ToSet
  <2>7. QED
    BY <2>1, <2>5, <2>6 DEF Fits, room, context
<1>5. QED
  BY <1>3, <1>4

---------------------------------------------------------------------------
(* The list of profiles.                                                   *)

\* The profiles once the first n items of the list are in.
Listed(f, n, settings, json) ==
    IF n = 0 THEN FromSettings(settings) ELSE Add(f[n - 1], json[n])

IsLoad(f, settings, json) == f = [n \in 0..Len(json) |-> Listed(f, n, settings, json)]

\* There is a pass over every list of profiles.
LEMMA LoadExists ==
    ASSUME NEW X, NEW json \in Seq(X), NEW settings
    PROVE  \E f : IsLoad(f, settings, json)
<1> DEFINE L == 0..Len(json)
           Upto(n, f) == /\ f = [i \in L |-> f[i]]
                         /\ \A i \in 0..n : f[i] = Listed(f, i, settings, json)
           Fails == {n \in L : ~ \E f : Upto(n, f)}
<1>1. Len(json) \in Nat
  OBVIOUS
<1>2. Fails = {}
  <2> SUFFICES ASSUME Fails # {} PROVE FALSE
    OBVIOUS
  <2>1. PICK n \in Fails : \A m \in Fails : n <= m
    <3>1. Fails \in SUBSET Nat
      BY <1>1
    <3> HIDE DEF Fails
    <3>2. QED
      BY <3>1, LeastExists
  <2>2. n \in L /\ n \in Nat
    BY <1>1, <2>1
  <2>3. n # 0
    <3> DEFINE f == [i \in L |-> FromSettings(settings)]
    <3>1. Upto(0, f)
      BY <1>1 DEF Listed
    <3>2. QED
      BY <2>1, <3>1
  <2>4. n - 1 \in L /\ n - 1 \notin Fails
    BY <1>1, <2>1, <2>2, <2>3
  <2>5. PICK f : Upto(n - 1, f)
    BY <2>4
  <2> DEFINE g == [i \in L |-> IF i = n THEN Listed(f, n, settings, json) ELSE f[i]]
  <2>6. \A i \in 0..n - 1 : g[i] = f[i]
    BY <1>1, <2>2
  <2>7. g = [i \in L |-> g[i]]
    OBVIOUS
  <2>8. g[n] = Listed(f, n, settings, json)
    BY <2>2
  <2> HIDE DEF g
  <2>9. ASSUME NEW i \in 0..n PROVE g[i] = Listed(g, i, settings, json)
    <3>1. CASE i = n
      <4>1. g[n - 1] = f[n - 1]
        BY <2>2, <2>3, <2>6
      <4>2. QED
        BY <2>3, <2>8, <3>1, <4>1 DEF Listed
    <3>2. CASE i # n
      <4>1. i \in 0..n - 1 /\ (i # 0 => i - 1 \in 0..n - 1)
        BY <2>2, <3>2
      <4>2. f[i] = Listed(f, i, settings, json)
        BY <2>5, <4>1
      <4>3. g[i] = f[i] /\ (i # 0 => g[i - 1] = f[i - 1])
        BY <2>6, <4>1
      <4>4. QED
        BY <4>2, <4>3 DEF Listed
    <3>3. QED
      BY <3>1, <3>2
  <2>10. Upto(n, g)
    BY <2>7, <2>9
  <2>11. QED
    BY <2>1, <2>10
<1>3. PICK f : Upto(Len(json), f)
  BY <1>1, <1>2
<1>4. f = [i \in L |-> f[i]] /\ \A i \in L : f[i] = Listed(f, i, settings, json)
  BY <1>3
<1>5. f = [i \in L |-> Listed(f, i, settings, json)]
  BY <1>4
<1>6. QED
  BY <1>5 DEF IsLoad

Entries(P, K) == [provider : P, key : K, isDefault : BOOLEAN]

\* The profile that the settings make the default one.
Own(settings) == IF settings.provider = "mock" THEN "mock" ELSE "default"

\* The mock is always there, and one profile at most is marked.
InOrder(profiles, P, K) ==
    /\ "mock" \in DOMAIN profiles
    /\ \A id \in DOMAIN profiles : profiles[id] \in Entries(P, K)
    /\ \A i, j \in Marked(profiles) : i = j

\* What the settings say has not been replaced.
Kept(profiles, settings) ==
    /\ Marked(profiles) = {Own(settings)}
    /\ profiles[Own(settings)] = FromSettings(settings)[Own(settings)]

\* The profiles of the settings alone are in order.
LEMMA SettingsInOrder ==
    ASSUME NEW settings, NEW P, NEW K, {"mock", settings.provider} \subseteq P, "none" \in K
    PROVE  InOrder(FromSettings(settings), P, K) /\ Kept(FromSettings(settings), settings)
<1> DEFINE p == FromSettings(settings)
<1>1. CASE settings.provider = "mock"
  <2>1. DOMAIN p = {"mock"} /\ p["mock"] = Entry("mock", "none", TRUE)
    BY <1>1 DEF FromSettings
  <2>2. Marked(p) = {"mock"}
    BY <2>1 DEF Marked, Entry
  <2>3. p["mock"] \in Entries(P, K)
    BY <2>1 DEF Entries, Entry
  <2>4. QED
    BY <1>1, <2>1, <2>2, <2>3 DEF InOrder, Kept, Own
<1>2. CASE settings.provider # "mock"
  <2>1. /\ DOMAIN p = {"mock", "default"}
        /\ p["mock"] = Entry("mock", "none", FALSE)
        /\ p["default"] = Entry(settings.provider, "none", TRUE)
    BY <1>2 DEF FromSettings
  <2>2. Marked(p) = {"default"}
    BY <2>1 DEF Marked, Entry
  <2>3. p["mock"] \in Entries(P, K) /\ p["default"] \in Entries(P, K)
    BY <2>1 DEF Entries, Entry
  <2>4. QED
    BY <1>2, <2>1, <2>2, <2>3 DEF InOrder, Kept, Own
<1>3. QED
  BY <1>1, <1>2

\* A profile that is added, or that replaces one, leaves them in order.
LEMMA AddKeepsOrder ==
    ASSUME NEW profiles, NEW P, NEW K, InOrder(profiles, P, K), NEW id,
           NEW entry \in Entries(P, K), NEW item, item.id = id, item.entry = entry
    PROVE  InOrder(Add(profiles, item), P, K)
<1> DEFINE base == IF entry.isDefault THEN Unmarked(profiles) ELSE profiles
           new == Add(profiles, item)
<1>1. /\ DOMAIN base = DOMAIN profiles
      /\ \A i \in DOMAIN base : base[i] \in Entries(P, K)
      /\ entry.isDefault => \A i \in DOMAIN base : ~ base[i].isDefault
      /\ ~ entry.isDefault => base = profiles
  BY DEF InOrder, Unmarked, Entries
<1>2. new = [i \in DOMAIN base \cup {id} |-> IF i = id THEN entry ELSE base[i]]
  BY DEF Add, Set
<1> HIDE DEF base, new
<1>3. "mock" \in DOMAIN new /\ \A i \in DOMAIN new : new[i] \in Entries(P, K)
  BY <1>1, <1>2 DEF InOrder
<1>4. \A i \in Marked(new) : i # id => i \in Marked(profiles) /\ ~ entry.isDefault
  BY <1>1, <1>2 DEF Marked
<1>5. id \in Marked(new) => entry.isDefault
  BY <1>2 DEF Marked
<1>6. \A i, j \in Marked(new) : i = j
  BY <1>4, <1>5 DEF InOrder
<1>7. QED
  BY <1>3, <1>6 DEF InOrder, new

\* One that is no default and has an id of its own leaves the default of the settings.
LEMMA AddKeepsSettings ==
    ASSUME NEW profiles, NEW settings, Kept(profiles, settings), NEW item,
           item.id \notin {"mock", "default"}, ~ item.entry.isDefault
    PROVE  Kept(Add(profiles, item), settings)
<1>1. Add(profiles, item)
        = [i \in DOMAIN profiles \cup {item.id} |-> IF i = item.id THEN item.entry ELSE profiles[i]]
  BY DEF Add, Set
<1>2. Own(settings) # item.id /\ Own(settings) \in DOMAIN profiles
  BY DEF Own, Kept, Marked
<1>3. Marked(Add(profiles, item)) = Marked(profiles)
  <2> DEFINE new == Add(profiles, item)
  <2>1. item.id \notin Marked(profiles)
    BY <1>2 DEF Kept
  <2>2. /\ DOMAIN new = DOMAIN profiles \cup {item.id}
        /\ ~ new[item.id].isDefault
        /\ \A i \in DOMAIN profiles : i # item.id => new[i] = profiles[i]
    BY <1>1
  <2> HIDE DEF new
  <2>3. \A i : i \in Marked(new) <=> i \in Marked(profiles)
    BY <2>1, <2>2 DEF Marked
  <2>4. QED
    BY <2>3 DEF new
<1>4. QED
  BY <1>1, <1>2, <1>3 DEF Kept

\* Whatever the list and the settings are: what is listed is what would be built.
THEOREM ListedIsBuilt ==
    \A I, P, K, settings : \A json \in Seq([id : I, entry : Entries(P, K)]) :
        Agree(settings, json)
<1> SUFFICES ASSUME NEW I, NEW P0, NEW K0, NEW settings,
                    NEW json \in Seq([id : I, entry : Entries(P0, K0)])
             PROVE  Agree(settings, json)
  OBVIOUS
<1> DEFINE P == P0 \cup {"mock", settings.provider}
           K == K0 \cup {"none"}
           N == Len(json)
           f == CHOOSE g : IsLoad(g, settings, json)
<1>1. N \in Nat /\ \A n \in 1..N : json[n] \in [id : I, entry : Entries(P0, K0)]
  <2> DEFINE Item == [id : I, entry : Entries(P0, K0)]
  <2> HIDE DEF Item
  <2>1. json \in Seq(Item)
    BY DEF Item
  <2>2. N \in Nat /\ \A n \in 1..N : json[n] \in Item
    BY <2>1
  <2>3. QED
    BY <2>2 DEF Item
<1>2. IsLoad(f, settings, json)
  BY LoadExists
<1>3. Load(settings, json) = f[N]
  BY DEF Load, IsLoad, Listed
<1>4. \A n \in 0..N : f[n] = Listed(f, n, settings, json)
  BY <1>2 DEF IsLoad
<1>5. \A n \in 1..N : json[n].entry \in Entries(P, K)
  BY <1>1 DEF Entries
<1> HIDE DEF f, P, K
<1> DEFINE Quiet(n) == \A m \in 1..n : json[m].id \notin {"mock", "default"} /\ ~ json[m].entry.isDefault
           Good(n) == InOrder(f[n], P, K) /\ (Quiet(n) => Kept(f[n], settings))
           Fails == {n \in 0..N : ~ Good(n)}
<1>6. Good(0)
  <2>1. f[0] = FromSettings(settings)
    BY <1>1, <1>4 DEF Listed
  <2>2. QED
    BY <2>1, SettingsInOrder DEF P, K
<1>7. ASSUME NEW n \in 1..N, Good(n - 1) PROVE Good(n)
  <2>1. n \in 0..N /\ n # 0
    BY <1>1
  <2>2. f[n] = Add(f[n - 1], json[n])
    BY <1>4, <2>1 DEF Listed
  <2>3. InOrder(f[n], P, K)
    BY <1>5, <1>7, <2>2, AddKeepsOrder
  <2>4. ASSUME Quiet(n) PROVE Kept(f[n], settings)
    <3>1. Quiet(n - 1) /\ json[n].id \notin {"mock", "default"} /\ ~ json[n].entry.isDefault
      BY <1>1, <2>4
    <3>2. QED
      BY <1>7, <2>2, <3>1, AddKeepsSettings
  <2>5. QED
    BY <2>3, <2>4
<1>8. Fails = {}
  <2> SUFFICES ASSUME Fails # {} PROVE FALSE
    OBVIOUS
  <2> HIDE DEF Good
  <2>1. PICK n \in Fails : \A m \in Fails : n <= m
    <3>1. Fails \in SUBSET Nat
      BY <1>1
    <3> HIDE DEF Fails
    <3>2. QED
      BY <3>1, LeastExists
  <2>2. n \in 1..N /\ n - 1 \in 0..N /\ n - 1 \notin Fails
    BY <1>1, <1>6, <2>1
  <2>3. QED
    BY <1>7, <2>1, <2>2
<1> DEFINE profiles == Load(settings, json)
<1>9. InOrder(profiles, P, K) /\ (Quiet(N) => Kept(profiles, settings))
  BY <1>1, <1>3, <1>8
<1> HIDE DEF profiles
<1>10. Cardinality(Marked(profiles)) <= 1
  <2>1. Marked(profiles) = {} \/ \E x : Marked(profiles) = {x}
    BY <1>9 DEF InOrder
  <2>2. Cardinality({}) = 0 /\ \A x : Cardinality({x}) = 1
    BY FS_EmptySet, FS_Singleton
  <2>3. Cardinality(Marked(profiles)) \in {0, 1}
    BY <2>1, <2>2
  <2>4. QED
    BY <2>3
<1>11. DefaultId(profiles) \in DOMAIN profiles
  BY <1>9 DEF DefaultId, InOrder, Marked
<1>12. ASSUME NEW id \in DOMAIN profiles, profiles[id].provider \in Hosted \cup {"mock"}
       PROVE  ListedAsConfigured(profiles[id], settings)
                <=> ForProfile(profiles[id], settings) # "error"
  <2>1. profiles[id].provider # "error"
    BY <1>12 DEF Hosted, Families
  <2>2. QED
    BY <1>12, <2>1 DEF ListedAsConfigured, ForProfile, Built
<1>13. ASSUME Quiet(N)
       PROVE  ForNone(settings) = ForProfile(profiles[DefaultId(profiles)], settings)
  <2>1. DefaultId(profiles) = Own(settings)
    BY <1>9, <1>13 DEF DefaultId, Kept
  <2>2. profiles[DefaultId(profiles)] = Entry(settings.provider, "none", TRUE)
    BY <1>9, <1>13, <2>1 DEF Kept, Own, FromSettings
  <2>3. QED
    BY <2>2 DEF ForNone, ForProfile, Built, HasKey, Entry
<1>14. (\A n \in DOMAIN json : json[n].id \notin {"mock", "default"} /\ ~ json[n].entry.isDefault)
         => Quiet(N)
  OBVIOUS
<1>15. QED
  BY <1>10, <1>11, <1>12, <1>13, <1>14 DEF Agree, profiles

---------------------------------------------------------------------------
(* The inputs that the run enumerates.                                     *)

InputInv ==
    /\ kind = "backtest" => input \in Seq(Closes) /\ request \in Requests
    /\ kind = "context" => input \in Seq(Estimates) /\ request \in Budgets
    /\ kind = "profiles" => input \in Seq(Items)

\* One element more is of the kind of the others.
LEMMA InputStep ==
    ASSUME InputInv, [Next]_<<kind, request, input>>
    PROVE  InputInv'
<1>1. CASE OneMoreBar
  BY <1>1 DEF OneMoreBar, InputInv
<1>2. CASE OneMoreMemory
  BY <1>2 DEF OneMoreMemory, InputInv
<1>3. CASE OneMoreProfile
  <2>1. PICK item \in Items : input' = Append(input, item)
    BY <1>3 DEF OneMoreProfile
  <2>2. kind = "profiles" /\ kind' = kind /\ input \in Seq(Items)
    BY <1>3 DEF OneMoreProfile, InputInv
  <2>3. input' \in Seq(Items)
    BY <2>1, <2>2
  <2>4. QED
    BY <2>2, <2>3 DEF InputInv
<1>4. CASE UNCHANGED <<kind, request, input>>
  BY <1>4 DEF InputInv
<1>5. QED
  BY <1>1, <1>2, <1>3, <1>4 DEF Next

LEMMA InputsAreTyped == Spec => []InputInv
<1>1. Init => InputInv
  BY DEF Init, InputInv
<1>2. QED
  BY <1>1, InputStep, PTL DEF Spec

\* The engine looks at no later bar (engine.py, bars[: index + 1]), for every set of closes
\* and of requests and for series of any length.
THEOREM NoLookAheadHolds == Spec => []NoLookAhead
<1>1. InputInv => NoLookAhead
  BY NoBarIsReadAhead DEF InputInv, NoLookAhead
<1>2. QED
  BY <1>1, InputsAreTyped, PTL

\* A walk-forward whose badge is above F has traded in both parts, at all positive prices
\* and for every train_ratio that a request may ask for.
THEOREM BadgeIsEarnedHolds == Spec => []BadgeIsEarned
<1>1. InputInv => BadgeIsEarned
  <2> SUFFICES ASSUME InputInv, kind = "backtest" PROVE Earned(input, request)
    BY DEF BadgeIsEarned
  <2>1. input \in Seq(Closes) /\ request.train \in 0..100 /\ Closes \subseteq Int
    BY AlgorithmsAssumption DEF InputInv
  <2>2. input \in Seq(Int)
    BY <2>1, SeqOfMore
  <2>3. QED
    BY <2>1, <2>2, IdleGetsNoBadge
<1>2. QED
  BY <1>1, InputsAreTyped, PTL

\* What search_context hands to an agent fits its budget or is a summary of everything, for
\* any number of memories of any size.
THEOREM ContextFitsHolds == Spec => []ContextFits
<1>1. InputInv => ContextFits
  <2> SUFFICES ASSUME InputInv, kind = "context" PROVE Fits(input, request)
    BY DEF ContextFits
  <2>1. input \in Seq(Estimates) /\ request \in Nat /\ Estimates \subseteq Nat
    BY AlgorithmsAssumption DEF InputInv
  <2>2. input \in Seq(Nat)
    BY <2>1, SeqOfMore
  <2>3. QED
    BY <2>1, <2>2, ContextsFit
<1>2. QED
  BY <1>1, InputsAreTyped, PTL

\* What list_llm_profiles shows is what get_llm_provider_for_profile builds, for an
\* LLM_PROFILES_JSON of any length.
THEOREM ProfilesAgreeHolds == Spec => []ProfilesAgree
<1>1. InputInv => ProfilesAgree
  <2> SUFFICES ASSUME InputInv, kind = "profiles" PROVE Agree(request, input)
    BY DEF ProfilesAgree
  <2> DEFINE P == {"openai", "gemini", "unknown"}
             K == {"own", "unset", "none"}
             I == {"default", "extra"}
  <2>1. Items = [id : I, entry : Entries(P, K)]
    BY DEF Items, Entries
  <2> HIDE DEF P, K, I
  <2>2. input \in Seq([id : I, entry : Entries(P, K)])
    BY <2>1 DEF InputInv
  <2>3. QED
    BY <2>2, ListedIsBuilt
<1>2. QED
  BY <1>1, InputsAreTyped, PTL
=============================================================================
