--------------------------- MODULE HoldingsProofs ---------------------------
(***************************************************************************)
(* Orders of the mock broker on the holdings, for any symbols, clients,    *)
(* prices and tables: orders that are never in progress together on a      *)
(* symbol add up, and those that are invent no shares.                     *)
(*                                                                         *)
(* The argument of the first: while ~strayed, a step that writes a row     *)
(* writes one of its own order's symbol, so the rows of a symbol change    *)
(* only by orders on it.  If these are apart, the one whose session is     *)
(* open still holds the row as the table has it, and what it writes is one *)
(* sequential order on the ledger's balance.                               *)
(***************************************************************************)
EXTENDS Holdings, FiniteSetTheorems, SequenceTheorems, WellFoundedInduction, TLAPS

---------------------------------------------------------------------------
(* Least elements, and sums over finite sets: what MapThenSumSet of the    *)
(* community modules computes, whichever element its recursion takes       *)
(* first.  The recursion is a function chosen for its equation.  That      *)
(* there is one, and that it does not depend on the elements taken, is     *)
(* shown by a counterexample of least cardinality.                         *)

\* A set of natural numbers that is not empty has a least element.
LEMMA LeastExists ==
    ASSUME NEW S \in SUBSET Nat, S # {}
    PROVE  \E x \in S : \A y \in S : x <= y
<1> DEFINE Less == {p \in Nat \X Nat : p[1] < p[2]}
<1>1. IsWellFoundedOn(Less, Nat)
  BY NatLessThanWellFounded DEF OpToRel
<1>2. PICK x \in S : \A y \in S : ~ (<<y, x>> \in Less)
  <2> HIDE DEF Less
  <2> QED
    BY <1>1, WFMin
<1>3. \A y \in S : ~ (y < x)
  BY <1>2
<1>4. QED
  BY <1>3

\* A bounded one has a greatest.
LEMMA GreatestExists ==
    ASSUME NEW n \in Nat, NEW S \in SUBSET (1..n), S # {}
    PROVE  \E x \in S : \A y \in S : x >= y
<1> DEFINE T == {n - x : x \in S}
<1>1. T \in SUBSET Nat /\ T # {}
  <2>1. \A x \in S : x \in 1..n /\ n - x \in Nat
    OBVIOUS
  <2>2. PICK x \in S : TRUE
    OBVIOUS
  <2>3. n - x \in T
    OBVIOUS
  <2>4. QED
    BY <2>1, <2>3
<1>2. PICK t \in T : \A u \in T : t <= u
  BY <1>1, LeastExists
<1>3. PICK x \in S : t = n - x
  BY <1>2
<1>4. \A y \in S : n - x <= n - y
  BY <1>2, <1>3
<1>5. QED
  BY <1>3, <1>4

\* A collection of subsets of a finite set has one of which no part is in it.
LEMMA SmallestExists ==
    ASSUME NEW S, IsFiniteSet(S), NEW B \in SUBSET (SUBSET S), B # {}
    PROVE  \E s \in B : \A x \in s : s \ {x} \notin B
<1> DEFINE N == {Cardinality(s) : s \in B}
<1>1. \A s \in B : IsFiniteSet(s) /\ Cardinality(s) \in Nat
  BY FS_Subset, FS_CardinalityType
<1>2. PICK n \in N : \A k \in N : n <= k
  <2>1. N \in SUBSET Nat /\ N # {}
    BY <1>1
  <2> HIDE DEF N
  <2>2. QED
    BY <2>1, LeastExists
<1>3. PICK s \in B : n = Cardinality(s)
  BY <1>2
<1>4. ASSUME NEW x \in s, s \ {x} \in B PROVE FALSE
  <2>1. Cardinality(s \ {x}) = Cardinality(s) - 1
    BY <1>1, FS_RemoveElement
  <2>2. n <= Cardinality(s \ {x})
    BY <1>2, <1>4
  <2>3. QED
    BY <1>1, <1>3, <2>1, <2>2
<1>5. QED
  BY <1>4

---------------------------------------------------------------------------
(* The recursion of MapThenSumSet.                                         *)

SumOf(f, S) == MapThenSumSet(LAMBDA x : f[x], S)

Taken(s) == CHOOSE x \in s : TRUE
Unfold(f, g, s) == IF s = {} THEN 0 ELSE f[Taken(s)] + g[s \ {Taken(s)}]
IsIter(g, f, S) == g = [s \in SUBSET S |-> Unfold(f, g, s)]

\* The sums of f over the subsets of S.
IsSum(g, f, S) ==
    /\ g \in [SUBSET S -> Nat]
    /\ g[{}] = 0
    /\ \A s \in SUBSET S : \A x \in s : g[s] = f[x] + g[s \ {x}]

LEMMA SumUnfolds ==
    ASSUME NEW f, NEW S
    PROVE  SumOf(f, S) = (CHOOSE g : IsIter(g, f, S))[S]
  BY DEF SumOf, MapThenSumSet, MapThenFoldSet, IsIter, Unfold, Taken

LEMMA IterExists ==
    ASSUME NEW S, IsFiniteSet(S), NEW f
    PROVE  \E g : IsIter(g, f, S)
<1> DEFINE Upto(n, g) == \A s \in SUBSET S : Cardinality(s) <= n => g[s] = Unfold(f, g, s)
           Fails == {n \in Nat : ~ \E g : Upto(n, g)}
<1>1. \A s \in SUBSET S : IsFiniteSet(s) /\ Cardinality(s) \in Nat
  BY FS_Subset, FS_CardinalityType
<1>2. Fails = {}
  <2> SUFFICES ASSUME Fails # {} PROVE FALSE
    OBVIOUS
  <2>1. PICK n \in Fails : \A k \in Fails : n <= k
    <3>1. Fails \in SUBSET Nat
      OBVIOUS
    <3> HIDE DEF Fails
    <3>2. QED
      BY <3>1, LeastExists
  <2>2. n # 0
    <3>1. \A s \in SUBSET S : Cardinality(s) <= 0 => s = {}
      BY <1>1, FS_EmptySet
    <3>2. Upto(0, [s \in SUBSET S |-> 0])
      BY <3>1 DEF Unfold
    <3>3. QED
      BY <3>2
  <2>3. PICK g : Upto(n - 1, g)
    BY <2>1, <2>2
  <2> DEFINE h == [s \in SUBSET S |-> Unfold(f, g, s)]
  <2>4. ASSUME NEW s \in SUBSET S, Cardinality(s) <= n
        PROVE  h[s] = Unfold(f, h, s)
    <3>1. CASE s = {}
      BY <3>1 DEF Unfold
    <3>2. CASE s # {}
      <4> DEFINE rest == s \ {Taken(s)}
      <4>1. Taken(s) \in s
        BY <3>2 DEF Taken
      <4>2. Cardinality(rest) = Cardinality(s) - 1 /\ rest \in SUBSET S
        BY <1>1, <4>1, FS_RemoveElement
      <4>3. Cardinality(rest) <= n - 1
        BY <1>1, <2>4, <4>2
      <4>4. h[rest] = g[rest]
        BY <2>3, <4>2, <4>3
      <4>5. QED
        BY <3>2, <4>4 DEF Unfold
    <3>3. QED
      BY <3>1, <3>2
  <2>5. Upto(n, h)
    BY <2>4
  <2>6. QED
    BY <2>1, <2>5
<1>3. PICK g : Upto(Cardinality(S), g)
  BY <1>1, <1>2
<1> DEFINE h == [s \in SUBSET S |-> g[s]]
<1>4. \A s \in SUBSET S : h[s] = Unfold(f, h, s)
  <2> SUFFICES ASSUME NEW s \in SUBSET S PROVE h[s] = Unfold(f, h, s)
    OBVIOUS
  <2>1. g[s] = Unfold(f, g, s)
    BY <1>3, FS_Subset
  <2>2. QED
    BY <2>1 DEF Unfold
<1>5. h = [s \in SUBSET S |-> Unfold(f, h, s)]
  <2> HIDE DEF h
  <2>1. h = [s \in SUBSET S |-> h[s]]
    BY DEF h
  <2>2. QED
    BY <1>4, <2>1
<1>6. QED
  BY <1>5 DEF IsIter

\* Whichever element is taken first, the sum is the same.
LEMMA IterSums ==
    ASSUME NEW S, IsFiniteSet(S), NEW f, \A x \in S : f[x] \in Nat, NEW g, IsIter(g, f, S)
    PROVE  IsSum(g, f, S)
<1>1. /\ \A s \in SUBSET S : g[s] = Unfold(f, g, s)
      /\ g = [s \in SUBSET S |-> g[s]]
  BY DEF IsIter
<1>2. \A s \in SUBSET S : s # {} => Taken(s) \in s
  BY DEF Taken
<1>3. \A s \in SUBSET S : g[s] \in Nat
  <2> DEFINE B == {s \in SUBSET S : g[s] \notin Nat}
  <2> SUFFICES ASSUME B # {} PROVE FALSE
    OBVIOUS
  <2>1. PICK s \in B : \A x \in s : s \ {x} \notin B
    <3>1. B \in SUBSET (SUBSET S)
      OBVIOUS
    <3> HIDE DEF B
    <3>2. QED
      BY <3>1, SmallestExists
  <2>2. s \in SUBSET S /\ g[s] \notin Nat /\ g[s] = Unfold(f, g, s)
    BY <1>1
  <2>3. s # {}
    BY <2>2 DEF Unfold
  <2>4. Taken(s) \in s /\ s \ {Taken(s)} \in SUBSET S
    BY <1>2, <2>2, <2>3
  <2>5. g[s \ {Taken(s)}] \in Nat /\ f[Taken(s)] \in Nat
    BY <2>1, <2>4
  <2>6. QED
    BY <2>2, <2>3, <2>5 DEF Unfold
<1>4. \A s \in SUBSET S : \A x \in s : g[s] = f[x] + g[s \ {x}]
  <2> DEFINE B == {s \in SUBSET S : \E x \in s : g[s] # f[x] + g[s \ {x}]}
  <2> SUFFICES ASSUME B # {} PROVE FALSE
    OBVIOUS
  <2>1. PICK s \in B : \A x \in s : s \ {x} \notin B
    <3>1. B \in SUBSET (SUBSET S)
      OBVIOUS
    <3> HIDE DEF B
    <3>2. QED
      BY <3>1, SmallestExists
  <2>2. PICK x \in s : g[s] # f[x] + g[s \ {x}]
    OBVIOUS
  <2> DEFINE y == Taken(s)
             both == s \ {x, y}
  <2>3. y \in s /\ g[s] = f[y] + g[s \ {y}]
    BY <1>1, <1>2, <2>2 DEF Unfold
  <2>4. x # y
    BY <2>2, <2>3
  <2>5. (s \ {y}) \ {x} = both /\ (s \ {x}) \ {y} = both
    OBVIOUS
  <2>6. g[s \ {y}] = f[x] + g[both]
    BY <2>1, <2>3, <2>4, <2>5
  <2>7. g[s \ {x}] = f[y] + g[both]
    BY <2>1, <2>3, <2>4, <2>5
  <2>8. f[x] \in Nat /\ f[y] \in Nat /\ g[both] \in Nat
    BY <1>3, <2>3
  <2>9. QED
    BY <2>2, <2>3, <2>6, <2>7, <2>8
<1>5. QED
  BY <1>1, <1>3, <1>4 DEF IsSum, Unfold

\* Smaller terms on fewer elements have a smaller sum.
LEMMA SumsCompare ==
    ASSUME NEW S, IsFiniteSet(S), NEW T \in SUBSET S, NEW f, NEW h, NEW k, NEW g,
           \A x \in T : f[x] \in Nat /\ h[x] \in Nat /\ f[x] <= h[x],
           \A x \in S : h[x] \in Nat,
           IsSum(k, f, T), IsSum(g, h, S)
    PROVE  k[T] <= g[S]
<1> DEFINE B == {s \in SUBSET S : ~ (k[s \cap T] <= g[s])}
<1>1. B = {}
  <2> SUFFICES ASSUME B # {} PROVE FALSE
    OBVIOUS
  <2>1. PICK s \in B : \A x \in s : s \ {x} \notin B
    <3>1. B \in SUBSET (SUBSET S)
      OBVIOUS
    <3> HIDE DEF B
    <3>2. QED
      BY <3>1, SmallestExists
  <2>2. s # {}
    <3>1. SUFFICES ASSUME s = {} PROVE FALSE
      OBVIOUS
    <3>2. g[s] = 0
      BY <3>1 DEF IsSum
    <3>3. s \cap T = {}
      BY <3>1
    <3>4. k[s \cap T] = 0
      BY <3>3 DEF IsSum
    <3>5. QED
      BY <3>2, <3>4
  <2>3. PICK x \in s : TRUE
    BY <2>2
  <2> DEFINE rest == s \ {x}
  <2>4. k[rest \cap T] <= g[rest] /\ k[rest \cap T] \in Nat /\ g[rest] \in Nat
    BY <2>1, <2>3 DEF IsSum
  <2>5. g[s] = h[x] + g[rest] /\ h[x] \in Nat
    BY <2>3 DEF IsSum
  <2>6. CASE x \in T
    <3>1. (s \cap T) \ {x} = rest \cap T
      OBVIOUS
    <3>2. s \cap T \in SUBSET T /\ x \in s \cap T
      BY <2>3, <2>6
    <3>3. k[s \cap T] = f[x] + k[(s \cap T) \ {x}]
      BY <3>2 DEF IsSum
    <3>4. k[s \cap T] = f[x] + k[rest \cap T]
      BY <3>1, <3>3
    <3>5. f[x] \in Nat /\ f[x] <= h[x] /\ ~ (k[s \cap T] <= g[s])
      BY <2>6
    <3>6. QED
      BY <2>4, <2>5, <3>4, <3>5
  <2>7. CASE x \notin T
    <3>1. s \cap T = rest \cap T
      BY <2>7
    <3>2. k[s \cap T] = k[rest \cap T] /\ ~ (k[s \cap T] <= g[s])
      BY <3>1
    <3>3. QED
      BY <2>4, <2>5, <3>2
  <2>8. QED
    BY <2>6, <2>7
<1>2. S \cap T = T
  OBVIOUS
<1>3. QED
  BY <1>1, <1>2

---------------------------------------------------------------------------
(* What the proofs use of sums.                                            *)

LEMMA SumIs ==
    ASSUME NEW S, IsFiniteSet(S), NEW f, \A x \in S : f[x] \in Nat
    PROVE  \E g : IsSum(g, f, S) /\ SumOf(f, S) = g[S]
<1>1. IsIter(CHOOSE g : IsIter(g, f, S), f, S)
  BY IterExists
<1>2. QED
  BY <1>1, IterSums, SumUnfolds

\* Any sums over the subsets of S are the sums.
LEMMA SumsAgree ==
    ASSUME NEW S, IsFiniteSet(S), NEW f, \A x \in S : f[x] \in Nat,
           NEW g, IsSum(g, f, S), NEW T \in SUBSET S
    PROVE  SumOf(f, T) = g[T]
<1> DEFINE k == [s \in SUBSET T |-> g[s]]
<1>1. IsFiniteSet(T) /\ \A x \in T : f[x] \in Nat
  BY FS_Subset
<1>2. IsSum(k, f, T)
  BY DEF IsSum
<1>3. PICK h : IsSum(h, f, T) /\ SumOf(f, T) = h[T]
  BY <1>1, SumIs
<1> HIDE DEF k
<1>4. k[T] <= h[T] /\ h[T] <= k[T]
  BY <1>1, <1>2, <1>3, SumsCompare
<1>5. k[T] \in Nat /\ h[T] \in Nat
  BY <1>2, <1>3 DEF IsSum
<1>6. QED
  BY <1>3, <1>4, <1>5 DEF k

LEMMA SumType ==
    ASSUME NEW S, IsFiniteSet(S), NEW f, \A x \in S : f[x] \in Nat
    PROVE  SumOf(f, S) \in Nat
<1>1. PICK g : IsSum(g, f, S) /\ SumOf(f, S) = g[S]
  BY SumIs
<1>2. QED
  BY <1>1 DEF IsSum

\* One element more.
LEMMA SumSplit ==
    ASSUME NEW S, IsFiniteSet(S), NEW f, \A x \in S : f[x] \in Nat, NEW y \in S
    PROVE  SumOf(f, S) = f[y] + SumOf(f, S \ {y})
<1>1. PICK g : IsSum(g, f, S) /\ SumOf(f, S) = g[S]
  BY SumIs
<1>2. SumOf(f, S \ {y}) = g[S \ {y}]
  BY <1>1, SumsAgree
<1>3. QED
  BY <1>1, <1>2 DEF IsSum

LEMMA SumLe ==
    ASSUME NEW S, IsFiniteSet(S), NEW T \in SUBSET S, NEW f, NEW h,
           \A x \in T : f[x] \in Nat /\ f[x] <= h[x],
           \A x \in S : h[x] \in Nat
    PROVE  SumOf(f, T) <= SumOf(h, S)
<1>1. IsFiniteSet(T)
  BY FS_Subset
<1>2. PICK k : IsSum(k, f, T) /\ SumOf(f, T) = k[T]
  BY <1>1, SumIs
<1>3. PICK g : IsSum(g, h, S) /\ SumOf(h, S) = g[S]
  BY SumIs
<1>4. QED
  BY <1>2, <1>3, SumsCompare

LEMMA SumZero ==
    ASSUME NEW S, IsFiniteSet(S), NEW f, \A x \in S : f[x] = 0
    PROVE  SumOf(f, S) = 0
<1> DEFINE g == [s \in SUBSET S |-> 0]
<1>1. IsSum(g, f, S)
  BY DEF IsSum
<1>2. SumOf(f, S) = g[S]
  <2> HIDE DEF g
  <2>1. QED
    BY <1>1, SumsAgree
<1>3. QED
  BY <1>2

\* One term changes, and no other grows.
LEMMA SumChange ==
    ASSUME NEW S, IsFiniteSet(S), NEW f, NEW h, NEW y \in S,
           \A x \in S : f[x] \in Nat /\ h[x] \in Nat,
           \A x \in S \ {y} : h[x] <= f[x]
    PROVE  SumOf(h, S) + f[y] <= SumOf(f, S) + h[y]
<1> DEFINE rest == S \ {y}
<1>1. IsFiniteSet(rest)
  BY FS_RemoveElement
<1>2. SumOf(h, rest) <= SumOf(f, rest)
  BY <1>1, SumLe
<1>3. SumOf(h, rest) \in Nat /\ SumOf(f, rest) \in Nat
  BY <1>1, SumType
<1>4. SumOf(f, S) = f[y] + SumOf(f, rest) /\ SumOf(h, S) = h[y] + SumOf(h, rest)
  BY SumSplit
<1> HIDE DEF rest
<1>5. QED
  BY <1>2, <1>3, <1>4

---------------------------------------------------------------------------
(* Keys.                                                                   *)

\* The row that a query finds first is one of the symbol's.
LEMMA FirstIsRow ==
    ASSUME NEW s \in Symbols
    PROVE  /\ RowsOf(s) = {} => First(s) = 0
           /\ RowsOf(s) # {} => First(s) \in RowsOf(s)
<1>1. ASSUME RowsOf(s) # {} PROVE Min(RowsOf(s)) \in RowsOf(s)
  <2>1. RowsOf(s) \in SUBSET Nat
    BY HoldingsAssumption DEF RowsOf, Ids
  <2>2. \E x \in RowsOf(s) : \A y \in RowsOf(s) : x <= y
    BY <1>1, <2>1, LeastExists
  <2>3. QED
    BY <2>2 DEF Min
<1>2. QED
  BY <1>1 DEF First

\* A new key is that of no row.
LEMMA NewIdIsFree ==
    ASSUME holdings \in Tables, NewId \in Ids
    PROVE  holdings[NewId] = Gone
<1>1. CASE holdings = Empty
  BY <1>1 DEF Empty
<1>2. CASE holdings # Empty
  <2> DEFINE S == {i \in Ids : holdings[i] # Gone}
  <2>1. S # {}
    BY <1>2 DEF Tables, Empty
  <2>2. \E x \in S : \A y \in S : x >= y
    BY <2>1, HoldingsAssumption, GreatestExists DEF Ids
  <2>3. Max(S) \in S /\ \A y \in S : Max(S) >= y
    BY <2>2 DEF Max
  <2>4. NewId = Max(S) + 1
    BY <1>2 DEF NewId
  <2>5. NewId \notin S
    BY <2>3, <2>4, HoldingsAssumption DEF Ids
  <2>6. QED
    BY <2>5
<1>3. QED
  BY <1>1, <1>2

---------------------------------------------------------------------------
(* Types, and what a client's stage says of its own variables.             *)

Staged(c) ==
    /\ stage[c] \in Ordering => todo[c] # <<>>
    /\ stage[c] = "loaded" =>
           IF loaded[c] = 0 THEN Order(c).side = "BUY"
           ELSE row[c] \in Holding /\ row[c].symbol = Order(c).symbol
    /\ stage[c] = "repricing" =>
           \A i \in Ids : view[c][i] # Gone => view[c][i].symbol \in DOMAIN prices[c]

StageInv == \A c \in Clients : Staged(c)

TypeInv == TypeOK /\ StageInv

\* A row is a holding or gone, and its symbol says which.
LEMMA RowKinds ==
    ASSUME NEW t \in Tables, NEW i \in Ids
    PROVE  \/ t[i] = Gone /\ t[i].symbol = "none"
           \/ t[i] \in Holding /\ t[i].symbol \in Symbols /\ t[i].symbol # "none" /\ t[i] # Gone
<1>1. CASE t[i] = Gone
  BY <1>1 DEF Gone
<1>2. CASE t[i] # Gone
  <2>1. t[i] \in Holding
    BY <1>2 DEF Tables
  <2>2. t[i].symbol \in Symbols
    BY <2>1 DEF Holding
  <2>3. QED
    BY <1>2, <2>1, <2>2, HoldingsAssumption
<1>3. QED
  BY <1>1, <1>2

LEMMA BookedType ==
    ASSUME NEW n \in Nat, NEW o \in OrderType
    PROVE  Booked(n, o) \in Nat
  BY DEF Booked, Minus, OrderType

LEMMA OrderIsTyped ==
    ASSUME TypeInv, NEW c \in Clients, stage[c] \in Ordering
    PROVE  Order(c) \in OrderType /\ Tail(todo[c]) \in Seq(OrderType)
<1>1. todo[c] \in Seq(OrderType) /\ todo[c] # <<>>
  BY DEF TypeInv, TypeOK, StageInv, Staged
<1>2. QED
  BY <1>1, HeadTailProperties DEF Order

\* An order that ends or fails leaves a client that has another one or none.
LEMMA AfterOrder ==
    ASSUME TypeInv, NEW c \in Clients, stage[c] \in Ordering, NextOrder(c) \/ OrderRaises(c)
    PROVE  /\ stage' \in [Clients -> Stage] /\ todo' \in [Clients -> Seq(OrderType)]
           /\ stage'[c] \in {"store", "ended", "failed"}
           /\ stage'[c] = "store" => todo'[c] # <<>>
           /\ \A d \in Clients \ {c} : stage'[d] = stage[d] /\ todo'[d] = todo[d]
<1> USE DEF TypeInv, TypeOK, Goto, Stage
<1>1. CASE NextOrder(c)
  <2> DEFINE rest == Tail(todo[c])
             next == IF rest = <<>> THEN "ended" ELSE "store"
  <2>1. rest \in Seq(OrderType)
    BY OrderIsTyped
  <2>2. todo' = [todo EXCEPT ![c] = rest] /\ stage' = [stage EXCEPT ![c] = next]
    BY <1>1 DEF NextOrder
  <2>3. next \in {"store", "ended"} /\ (next = "store" => rest # <<>>)
    OBVIOUS
  <2> HIDE DEF rest, next
  <2>4. QED
    BY <2>1, <2>2, <2>3 DEF Ordering
<1>2. CASE Goto(c, "failed") /\ UNCHANGED todo
  BY <1>2
<1>3. QED
  BY <1>1, <1>2 DEF OrderRaises

LEMMA InitType == Init => TypeInv
<1> SUFFICES ASSUME Init PROVE TypeInv
  OBVIOUS
<1> USE HoldingsAssumption DEF Init
<1>1. holdings \in Tables
  OBVIOUS
<1>2. \A s \in Symbols : Balance(s) \in Nat
  <2> TAKE s \in Symbols
  <2>1. CASE RowsOf(s) # {}
    <3>1. First(s) \in Ids /\ holdings[First(s)].symbol = s
      BY <2>1, FirstIsRow DEF RowsOf
    <3>2. holdings[First(s)] \in Holding
      BY <1>1, <3>1, RowKinds
    <3>3. QED
      BY <2>1, <3>2 DEF Balance, Holding
  <2>2. QED
    BY <2>1 DEF Balance
<1>3. TypeOK
  <2>1. \A c \in Clients : DOMAIN prices[c] = {} /\ prices[c] \in [{} -> Nat]
    OBVIOUS
  <2>2. Empty \in Tables
    BY DEF Empty, Tables
  <2>3. strayed \in BOOLEAN
    OBVIOUS
  <2>4. QED
    BY <1>1, <1>2, <2>1, <2>2, <2>3 DEF TypeOK, Stage
<1>4. StageInv
  BY DEF StageInv, Staged, Ordering
<1>5. QED
  BY <1>3, <1>4 DEF TypeInv

LEMMA NextTypeOK == TypeInv /\ [Next]_vars => TypeOK'
<1> SUFFICES ASSUME TypeInv, [Next]_vars PROVE TypeOK'
  OBVIOUS
<1> USE HoldingsAssumption DEF TypeInv, TypeOK, session, summary, history
<1>1. ASSUME NEW c \in Clients, NEW orders \in Seq(OrderType), Execute(c, orders) PROVE TypeOK'
  BY <1>1 DEF Execute, Goto, Stage, Ordering
<1>2. ASSUME NEW c \in Clients, AskSummary(c) PROVE TypeOK'
  BY <1>2 DEF AskSummary, Goto, Stage, Summing
<1>3. ASSUME NEW c \in Clients, Store(c) PROVE TypeOK'
  <2>1. Order(c) \in OrderType
    BY <1>3, OrderIsTyped DEF Store, Ordering
  <2>2. bought' \in [Symbols -> Nat]
    BY <1>3, <2>1 DEF Store, OrderType
  <2>3. QED
    BY <1>3, <2>2 DEF Store, Goto, Stage, Ordering
<1>4. ASSUME NEW c \in Clients, LoadHolding(c) PROVE TypeOK'
  <2> DEFINE i == First(Order(c).symbol)
  <2>1. Order(c) \in OrderType /\ stage[c] \in Ordering
    BY <1>4, OrderIsTyped DEF LoadHolding, Ordering
  <2>2. Order(c).symbol \in Symbols
    BY <2>1 DEF OrderType
  <2>3. i \in Ids \cup {0}
    BY <2>2, FirstIsRow DEF RowsOf
  <2>4. clash' \subseteq Symbols
    BY <1>4, <2>2 DEF LoadHolding
  <2>5. CASE NextOrder(c) /\ Book(Order(c)) /\ UNCHANGED session
    <3>1. stage' \in [Clients -> Stage] /\ todo' \in [Clients -> Seq(OrderType)]
      BY <2>1, <2>5, AfterOrder
    <3>2. ledger' \in [Symbols -> Nat]
      BY <2>1, <2>2, <2>5, BookedType DEF Book
    <3>3. QED
      BY <1>4, <2>4, <2>5, <3>1, <3>2 DEF LoadHolding
  <2>6. CASE /\ Goto(c, "loaded")
             /\ loaded' = [loaded EXCEPT ![c] = i]
             /\ row' = [row EXCEPT ![c] = IF i = 0 THEN Gone ELSE holdings[i]]
             /\ UNCHANGED <<todo, ledger>>
    <3>1. (IF i = 0 THEN Gone ELSE holdings[i]) \in Holding \cup {Gone}
      BY <2>3 DEF Tables
    <3> HIDE DEF i
    <3>2. loaded' \in [Clients -> Ids \cup {0}] /\ row' \in [Clients -> Holding \cup {Gone}]
      BY <2>3, <2>6, <3>1
    <3>3. QED
      BY <1>4, <2>4, <2>6, <3>2 DEF LoadHolding, Goto, Stage, Ordering
  <2>7. QED
    BY <1>4, <2>5, <2>6 DEF LoadHolding
<1>5. ASSUME NEW c \in Clients, Insert(c) PROVE TypeOK'
  <2>1. Order(c) \in OrderType
    BY <1>5, OrderIsTyped DEF Insert, Ordering
  <2>2. holdings' \in Tables
    BY <1>5, <2>1 DEF Insert, OrderType, Tables, Holding
  <2>3. ledger' \in [Symbols -> Nat]
    BY <1>5, <2>1, BookedType DEF Insert, Book, OrderType
  <2>4. QED
    BY <1>5, <2>2, <2>3 DEF Insert, Goto, Stage, Ordering
<1>6. ASSUME NEW c \in Clients, Update(c) PROVE TypeOK'
  <2>1. Order(c) \in OrderType
    BY <1>6, OrderIsTyped DEF Update, Ordering
  <2>2. row[c] \in Holding
    BY <1>6 DEF Update, StageInv, Staged
  <2>3. Left(c) \in Nat
    BY <2>1, <2>2, BookedType DEF Left, Holding
  <2>4. loaded[c] \in Ids /\ holdings[loaded[c]] \in Holding
    BY <1>6, RowKinds DEF Update
  <2>5. holdings' \in Tables
    BY <1>6, <2>1, <2>3, <2>4 DEF Update, OrderType, Tables, Holding
  <2>6. ledger' \in [Symbols -> Nat]
    BY <1>6, <2>1, BookedType DEF Update, Book, OrderType
  <2>7. strayed' \in BOOLEAN
    BY <1>6 DEF Update, Strays
  <2>8. QED
    BY <1>6, <2>5, <2>6, <2>7 DEF Update, Goto, Stage, Ordering
<1>7. ASSUME NEW c \in Clients, UpdateNothing(c) PROVE TypeOK'
  <2>1. stage' \in [Clients -> Stage] /\ todo' \in [Clients -> Seq(OrderType)]
    BY <1>7, AfterOrder DEF UpdateNothing, Ordering
  <2>2. QED
    BY <1>7, <2>1 DEF UpdateNothing, Close
<1>8. ASSUME NEW c \in Clients, Delete(c) PROVE TypeOK'
  <2>1. stage' \in [Clients -> Stage] /\ todo' \in [Clients -> Seq(OrderType)]
    BY <1>8, AfterOrder DEF Delete, Ordering
  <2>2. Order(c) \in OrderType
    BY <1>8, OrderIsTyped DEF Delete, Ordering
  <2>3. ledger' \in [Symbols -> Nat]
    BY <1>8, <2>2, BookedType DEF Delete, Book, OrderType
  <2>4. holdings' \in Tables
    BY <1>8 DEF Delete, Tables
  <2>5. strayed' \in BOOLEAN
    BY <1>8 DEF Delete, Strays
  <2>6. QED
    BY <1>8, <2>1, <2>3, <2>4, <2>5 DEF Delete, Close
<1>9. ASSUME NEW c \in Clients, Refresh(c) PROVE TypeOK'
  <2>1. stage' \in [Clients -> Stage] /\ todo' \in [Clients -> Seq(OrderType)]
    BY <1>9, AfterOrder DEF Refresh, Ordering
  <2>2. QED
    BY <1>9, <2>1 DEF Refresh, Close
<1>10. ASSUME NEW c \in Clients, ListHoldings(c) \/ Summarise(c) PROVE TypeOK'
  <2>1. stage' \in [Clients -> Stage]
    BY <1>10 DEF ListHoldings, Summarise, Goto, Stage, Summing
  <2>2. view' = [view EXCEPT ![c] = holdings]
    BY <1>10 DEF ListHoldings, Summarise
  <2>3. view' \in [Clients -> Tables]
    BY <2>2
  <2>4. QED
    BY <1>10, <2>1, <2>3 DEF ListHoldings, Summarise
<1>11. ASSUME NEW c \in Clients, FetchPrices(c) PROVE TypeOK'
  <2>1. view[c] \in Tables
    OBVIOUS
  <2>2. \A i \in Ids : view[c][i] # Gone => view[c][i].symbol \in Symbols
    BY <2>1, RowKinds
  <2>3. \A i \in Ids : view[c][i].price \in Nat
    BY <2>1, RowKinds DEF Holding, Gone
  <2>4. Listed(c) \subseteq Symbols /\ \A s \in Listed(c) : Answers(c, s) \subseteq Nat
    <3>1. Listed(c) \subseteq Symbols
      BY <2>2 DEF Listed
    <3>2. ASSUME NEW s \in Listed(c) PROVE Answers(c, s) \subseteq Nat
      <4>1. Quotes \subseteq Nat
        OBVIOUS
      <4>2. \A x \in Answers(c, s) : x \in Quotes \/ \E i \in Ids : x = view[c][i].price
        BY Zenon DEF Answers
      <4>3. ASSUME NEW x \in Answers(c, s) PROVE x \in Nat
        <5>1. x \in Quotes \/ \E i \in Ids : x = view[c][i].price
          BY <4>2, Zenon
        <5>2. QED
          BY <2>3, <4>1, <5>1
      <4>4. QED
        BY <4>3, Zenon
    <3>3. QED
      BY <3>1, <3>2
  <2>5. PICK p \in [Listed(c) -> UNION {Answers(c, s) : s \in Listed(c)}] :
            /\ \A s \in Listed(c) : p[s] \in Answers(c, s)
            /\ prices' = [prices EXCEPT ![c] = p]
    BY <1>11 DEF FetchPrices
  <2>6. p \in [Listed(c) -> Nat] /\ DOMAIN p = Listed(c)
    BY <2>4, <2>5
  <2>7. /\ DOMAIN prices' = Clients
        /\ \A d \in Clients : DOMAIN prices'[d] \subseteq Symbols
                              /\ prices'[d] \in [DOMAIN prices'[d] -> Nat]
    BY <2>4, <2>5, <2>6
  <2>8. QED
    BY <1>11, <2>7 DEF FetchPrices, Goto, Stage, Summing
<1>12. ASSUME NEW c \in Clients, LoadPriced(c) PROVE TypeOK'
  <2>1. view' \in [Clients -> Tables]
    BY <1>12 DEF LoadPriced, Tables
  <2>2. QED
    BY <1>12, <2>1 DEF LoadPriced, Goto, Stage, Summing
<1>13. ASSUME NEW c \in Clients, SavePrices(c) PROVE TypeOK'
  <2>1. CASE UNCHANGED holdings
    BY <1>13, <2>1 DEF SavePrices, Goto, Stage, Summing
  <2>2. CASE \A i \in Priced(c) : holdings[i] # Gone
    <3>1. ASSUME NEW i \in Priced(c)
          PROVE  i \in Ids /\ holdings[i] \in Holding /\ NewPrice(c, i) \in Nat
      <4>1. i \in Ids /\ view[c][i].symbol \in DOMAIN prices[c]
        BY <1>13 DEF SavePrices, Priced, StageInv, Staged
      <4>2. QED
        BY <2>2, <4>1, RowKinds DEF NewPrice
    <3>2. [i \in Ids |-> IF i \in Priced(c) /\ NewPrice(c, i) # view[c][i].price
                         THEN [holdings[i] EXCEPT !.price = NewPrice(c, i)]
                         ELSE holdings[i]] \in Tables
      BY <3>1 DEF Tables, Holding
    <3>3. QED
      BY <1>13, <2>2, <3>2 DEF SavePrices, Goto, Stage, Summing
  <2>3. QED
    BY <1>13, <2>1, <2>2 DEF SavePrices
<1>14. ASSUME NEW c \in Clients, Fault(c) PROVE TypeOK'
  <2>1. stage' \in [Clients -> Stage] /\ todo' \in [Clients -> Seq(OrderType)]
    BY <1>14, AfterOrder DEF Fault, Goto, Stage
  <2>2. faults' \in 0..MaxFaults
    BY <1>14 DEF Fault
  <2>3. loaded' \in [Clients -> Ids \cup {0}] /\ row' \in [Clients -> Holding \cup {Gone}]
    BY <1>14 DEF Fault, Close
  <2>4. QED
    BY <1>14, <2>1, <2>2, <2>3 DEF Fault
<1>15. CASE UNCHANGED vars
  BY <1>15 DEF vars
<1>16. QED
  BY <1>1, <1>2, <1>3, <1>4, <1>5, <1>6, <1>7, <1>8, <1>9, <1>10, <1>11, <1>12, <1>13,
     <1>14, <1>15 DEF Next, Submit, Sum

---------------------------------------------------------------------------
(* A step is one client's.                                                 *)

Acts(c) ==
    \/ todo'[c] \in Seq(OrderType) /\ Execute(c, todo'[c])
    \/ AskSummary(c)
    \/ Submit(c)
    \/ Sum(c)
    \/ Fault(c)

\* Another client's variables are left alone.
LEMMA OthersUntouched ==
    ASSUME TypeInv, NEW c \in Clients, Acts(c), NEW d \in Clients, d # c
    PROVE  UNCHANGED <<stage[d], todo[d], loaded[d], row[d], view[d], prices[d]>>
<1> USE DEF TypeInv, TypeOK, session, summary, history, Goto
<1>1. CASE \/ todo'[c] \in Seq(OrderType) /\ Execute(c, todo'[c])
           \/ AskSummary(c) \/ Store(c) \/ Sum(c)
  BY <1>1 DEF Execute, AskSummary, Store, Sum, ListHoldings, FetchPrices, LoadPriced,
              SavePrices, Summarise
<1>2. CASE LoadHolding(c)
  BY <1>2 DEF LoadHolding, NextOrder
<1>3. CASE Insert(c) \/ Update(c) \/ Delete(c)
  BY <1>3 DEF Insert, Update, Delete, Close, NextOrder
<1>4. CASE UpdateNothing(c) \/ Refresh(c) \/ Fault(c)
  <2>1. UNCHANGED <<stage[d], todo[d]>>
    BY <1>4 DEF UpdateNothing, Refresh, Fault, OrderRaises, NextOrder
  <2>2. QED
    BY <1>4, <2>1 DEF UpdateNothing, Refresh, Fault, Close
<1>5. QED
  BY <1>1, <1>2, <1>3, <1>4 DEF Acts, Submit

LEMMA NextStageInv == TypeInv /\ [Next]_vars => StageInv'
<1> SUFFICES ASSUME TypeInv, [Next]_vars PROVE StageInv'
  OBVIOUS
<1>1. CASE UNCHANGED vars
  BY <1>1 DEF vars, session, summary, TypeInv, StageInv, Staged, Order
<1>2. ASSUME NEW c \in Clients, Acts(c) PROVE StageInv'
  <2>1. ASSUME NEW d \in Clients, d # c PROVE Staged(d)'
    BY <1>2, <2>1, OthersUntouched DEF TypeInv, StageInv, Staged, Order
  <2> SUFFICES Staged(c)'
    BY <2>1 DEF StageInv
  <2> USE DEF TypeInv, TypeOK, session, summary, history, Goto
  <2>2. stage[c] \in Ordering => todo[c] # <<>>
    BY DEF StageInv, Staged
  <2>3. ASSUME stage'[c] \in {"store", "ended", "failed"}, stage'[c] = "store" => todo'[c] # <<>>
        PROVE  Staged(c)'
    BY <2>3 DEF Staged, Ordering
  <2>4. CASE todo'[c] \in Seq(OrderType) /\ Execute(c, todo'[c])
    BY <2>3, <2>4 DEF Execute
  <2>5. CASE AskSummary(c) \/ ListHoldings(c) \/ FetchPrices(c) \/ Summarise(c)
    <3>1. stage'[c] \in {"listing", "summing", "quoting", "pricing", "summed"}
      BY <2>5 DEF AskSummary, ListHoldings, FetchPrices, Summarise
    <3>2. QED
      BY <3>1 DEF Staged, Ordering
  <2>6. CASE Store(c) \/ Insert(c) \/ Update(c)
    <3>1. stage'[c] \in {"stored", "refresh"} /\ todo'[c] = todo[c] /\ stage[c] \in Ordering
      BY <2>6 DEF Store, Insert, Update, Ordering
    <3>2. QED
      BY <2>2, <3>1 DEF Staged, Ordering
  <2>7. CASE LoadHolding(c)
    <3> DEFINE i == First(Order(c).symbol)
    <3>1. stage[c] \in Ordering
      BY <2>7 DEF LoadHolding, Ordering
    <3>2. CASE NextOrder(c)
      BY <2>3, <3>1, <3>2, AfterOrder
    <3>3. CASE ~ NextOrder(c)
      <4>1. /\ stage'[c] = "loaded" /\ todo' = todo
            /\ loaded'[c] = i
            /\ row'[c] = IF i = 0 THEN Gone ELSE holdings[i]
            /\ ~ (Order(c).side = "SELL" /\ i = 0)
        BY <2>7, <3>3 DEF LoadHolding
      <4>2. Order(c) \in OrderType /\ Order(c)' = Order(c)
        BY <3>1, <4>1, OrderIsTyped DEF Order
      <4>3. Order(c).side \in {"BUY", "SELL"} /\ Order(c).symbol \in Symbols
        BY <4>2 DEF OrderType
      <4>4. ASSUME i # 0 PROVE holdings[i] \in Holding /\ holdings[i].symbol = Order(c).symbol
        BY <4>3, <4>4, FirstIsRow, RowKinds, HoldingsAssumption DEF RowsOf
      <4> HIDE DEF i
      <4>5. QED
        BY <2>2, <3>1, <4>1, <4>2, <4>3, <4>4 DEF Staged
    <3>4. QED
      BY <3>2, <3>3
  <2>8. CASE UpdateNothing(c) \/ Delete(c) \/ Refresh(c)
    <3>1. stage[c] \in Ordering /\ (NextOrder(c) \/ OrderRaises(c))
      BY <2>8 DEF UpdateNothing, Delete, Refresh, Ordering
    <3>2. QED
      BY <2>3, <3>1, AfterOrder
  <2>9. CASE Fault(c)
    <3>1. CASE stage[c] \in Ordering /\ OrderRaises(c)
      BY <2>3, <3>1, AfterOrder
    <3>2. CASE stage'[c] = "failed"
      BY <2>3, <3>2
    <3>3. QED
      BY <2>9, <3>1, <3>2 DEF Fault
  <2>10. CASE LoadPriced(c)
    <3>1. stage'[c] = "repricing" /\ prices' = prices
      BY <2>10 DEF LoadPriced
    <3>2. view'[c] = [i \in Ids |-> IF holdings[i].symbol \in DOMAIN prices[c]
                                    THEN holdings[i] ELSE Gone]
      BY <2>10 DEF LoadPriced
    <3>3. \A i \in Ids : view'[c][i] # Gone => view'[c][i].symbol \in DOMAIN prices[c]
      BY <3>2
    <3>4. QED
      BY <3>1, <3>3 DEF Staged, Ordering
  <2>11. CASE SavePrices(c)
    <3>1. stage'[c] \in {"summing", "failed"}
      BY <2>11 DEF SavePrices
    <3>2. QED
      BY <3>1 DEF Staged, Ordering
  <2>12. QED
    BY <1>2, <2>4, <2>5, <2>6, <2>7, <2>8, <2>9, <2>10, <2>11 DEF Acts, Submit, Sum
<1>3. QED
  BY <1>1, <1>2 DEF Next, Acts

\* Each client's stage, order list, session and summary have their types, whatever the
\* orders, the prices and the errors: no balance is negative, no row half a holding.
THEOREM TypeCorrect == Spec => []TypeOK
<1>1. TypeInv /\ [Next]_vars => TypeInv'
  BY NextTypeOK, NextStageInv DEF TypeInv
<1>2. TypeInv => TypeOK
  BY DEF TypeInv
<1>3. QED
  BY InitType, <1>1, <1>2, PTL DEF Spec

---------------------------------------------------------------------------
(* The ledger.                                                             *)

\* What holds of a symbol whose orders have been apart: the table agrees with the
\* ledger, and the session that is open on it, if there is one, agrees with the table.
Apart(s) ==
    /\ \A i, j \in RowsOf(s) : i = j /\ holdings[i].quantity = ledger[s]
    /\ RowsOf(s) = {} => ledger[s] = 0
    /\ \A c, d \in InSession(s) : c = d
    /\ \A c \in InSession(s) :
           IF loaded[c] = 0 THEN RowsOf(s) = {}
           ELSE loaded[c] \in RowsOf(s) /\ row[c].quantity = ledger[s]

LedgerInv == ~strayed => \A s \in Symbols \ clash : Apart(s)

LEMMA InitLedger == Init => LedgerInv
<1> SUFFICES ASSUME Init, NEW s \in Symbols PROVE Apart(s)
  BY DEF LedgerInv
<1>1. holdings \in Tables /\ ledger[s] = Balance(s)
  BY HoldingsAssumption DEF Init
<1>2. ASSUME NEW i \in RowsOf(s), NEW j \in RowsOf(s) PROVE i = j
  <2>1. i \in Ids /\ j \in Ids /\ holdings[i].symbol = s /\ holdings[j].symbol = s
    BY DEF RowsOf
  <2>2. holdings[i] # Gone
    BY <1>1, <2>1, RowKinds, HoldingsAssumption
  <2>3. QED
    BY <2>1, <2>2, HoldingsAssumption DEF Init
<1>3. \A i \in RowsOf(s) : holdings[i].quantity = ledger[s]
  BY <1>1, <1>2, FirstIsRow DEF Balance
<1>4. RowsOf(s) = {} => ledger[s] = 0
  BY <1>1 DEF Balance
<1>5. InSession(s) = {}
  BY DEF Init, InSession
<1>6. QED
  BY <1>2, <1>3, <1>4, <1>5 DEF Apart

\* A step that leaves the rows of a symbol and its balance alone, and opens no session
\* on it.
LEMMA ApartKept ==
    ASSUME NEW s \in Symbols, Apart(s), ledger'[s] = ledger[s],
           \A i \in Ids : holdings'[i].symbol = s <=> holdings[i].symbol = s,
           \A i \in Ids : holdings[i].symbol = s => holdings'[i].quantity = holdings[i].quantity,
           \A d \in InSession(s)' :
               d \in InSession(s) /\ loaded'[d] = loaded[d] /\ row'[d] = row[d]
    PROVE  Apart(s)'
<1>1. RowsOf(s)' = RowsOf(s)
  BY DEF RowsOf
<1>2. \A i \in RowsOf(s) : holdings'[i].quantity = holdings[i].quantity
  BY DEF RowsOf
<1>3. QED
  BY <1>1, <1>2 DEF Apart

\* Sessions are opened by LoadHolding alone, and the client that steps has left its own.
LEMMA SessionsKept ==
    ASSUME TypeInv, NEW c \in Clients, Acts(c), NEW s \in Symbols,
           stage'[c] = "loaded" => todo'[c] = todo[c] /\ Order(c).symbol # s
    PROVE  \A d \in InSession(s)' :
               d # c /\ d \in InSession(s) /\ loaded'[d] = loaded[d] /\ row'[d] = row[d]
<1> SUFFICES ASSUME NEW d \in Clients, stage'[d] = "loaded", Order(d)'.symbol = s
             PROVE  d # c /\ d \in InSession(s) /\ loaded'[d] = loaded[d] /\ row'[d] = row[d]
  BY DEF InSession
<1>1. d # c
  BY DEF Order
<1>2. UNCHANGED <<stage[d], todo[d], loaded[d], row[d]>>
  BY <1>1, OthersUntouched
<1>3. QED
  BY <1>1, <1>2 DEF InSession, Order

\* In a session that is open on a symbol whose orders are apart, there is no other.
LEMMA OnlySession ==
    ASSUME NEW s \in Symbols, Apart(s), NEW c \in Clients, stage[c] = "loaded", Order(c).symbol = s
    PROVE  InSession(s) = {c}
  BY DEF Apart, InSession

LEMMA LoadKeepsApart ==
    ASSUME TypeInv, NEW s \in Symbols \ clash', Apart(s), NEW c \in Clients, LoadHolding(c)
    PROVE  Apart(s)'
<1> DEFINE o == Order(c)
           i == First(o.symbol)
<1>1. Acts(c) /\ stage[c] = "stored" /\ stage[c] \in Ordering
  BY DEF Acts, Submit, LoadHolding, Ordering
<1>2. o \in OrderType
  BY <1>1, OrderIsTyped
<1>3. holdings' = holdings
  BY DEF LoadHolding
<1>4. CASE NextOrder(c) /\ Book(o) /\ o.side = "SELL" /\ i = 0
  <2>1. stage'[c] # "loaded"
    BY <1>1, <1>4, AfterOrder
  <2>2. ledger'[s] = ledger[s]
    <3>1. CASE o.symbol = s
      <4>1. RowsOf(s) = {}
        BY <1>4, <3>1, FirstIsRow, HoldingsAssumption DEF RowsOf, Ids
      <4>2. ledger[s] = 0
        BY <4>1 DEF Apart
      <4>3. Booked(0, o) = 0
        BY <1>2, <1>4 DEF Booked, Minus, OrderType
      <4>4. QED
        BY <1>4, <3>1, <4>2, <4>3 DEF Book, TypeInv, TypeOK
    <3>2. CASE o.symbol # s
      BY <1>4, <3>2 DEF Book, TypeInv, TypeOK
    <3>3. QED
      BY <3>1, <3>2
  <2>3. \A d \in InSession(s)' :
            d \in InSession(s) /\ loaded'[d] = loaded[d] /\ row'[d] = row[d]
    BY <1>1, <2>1, SessionsKept
  <2>4. QED
    BY <1>3, <2>2, <2>3, ApartKept
<1>5. CASE /\ Goto(c, "loaded") /\ UNCHANGED <<todo, ledger>>
           /\ loaded' = [loaded EXCEPT ![c] = i]
           /\ row' = [row EXCEPT ![c] = IF i = 0 THEN Gone ELSE holdings[i]]
  <2>1. todo'[c] = todo[c]
    BY <1>5
  <2>2. CASE o.symbol # s
    <3>1. \A d \in InSession(s)' :
              d \in InSession(s) /\ loaded'[d] = loaded[d] /\ row'[d] = row[d]
      BY <1>1, <2>1, <2>2, SessionsKept
    <3>2. QED
      BY <1>3, <1>5, <3>1, ApartKept
  <2>3. CASE o.symbol = s
    <3>1. InSession(s) = {}
      BY <2>3 DEF LoadHolding
    <3>2. ASSUME NEW d \in InSession(s)' PROVE d = c
      <4>1. d \in Clients /\ stage'[d] = "loaded" /\ Order(d)'.symbol = s
        BY DEF InSession
      <4>2. QED
        BY <1>1, <3>1, <4>1, OthersUntouched DEF InSession, Order
    <3>3. RowsOf(s)' = RowsOf(s) /\ ledger' = ledger
      BY <1>3, <1>5 DEF RowsOf
    <3>4. loaded'[c] = i /\ (i # 0 => row'[c] = holdings[i])
      BY <1>5 DEF TypeInv, TypeOK
    <3>5. IF i = 0 THEN RowsOf(s) = {} ELSE i \in RowsOf(s)
      BY <2>3, FirstIsRow, HoldingsAssumption DEF RowsOf, Ids
    <3> HIDE DEF i
    <3>6. QED
      BY <1>3, <3>2, <3>3, <3>4, <3>5 DEF Apart
  <2>4. QED
    BY <2>2, <2>3
<1>6. QED
  BY <1>4, <1>5 DEF LoadHolding, session

LEMMA InsertKeepsApart ==
    ASSUME TypeInv, NEW s \in Symbols, Apart(s), NEW c \in Clients, Insert(c)
    PROVE  Apart(s)'
<1> DEFINE o == Order(c)
           new == [symbol |-> o.symbol, quantity |-> o.quantity, price |-> o.price]
<1>1. Acts(c) /\ stage[c] = "loaded" /\ stage[c] \in Ordering /\ stage'[c] # "loaded"
  BY DEF Acts, Submit, Insert, Ordering, Goto, TypeInv, TypeOK
<1>2. o \in OrderType /\ o.side = "BUY"
  BY <1>1, OrderIsTyped DEF Insert, TypeInv, StageInv, Staged
<1>3. NewId \in Ids /\ holdings[NewId].symbol \notin Symbols
  BY NewIdIsFree, HoldingsAssumption DEF Insert, TypeInv, TypeOK, Gone
<1>4. holdings' = [holdings EXCEPT ![NewId] = new] /\ Book(o)
  BY DEF Insert
<1>5. \A j \in Ids : holdings'[j] = IF j = NewId THEN new ELSE holdings[j]
  BY <1>4 DEF TypeInv, TypeOK, Tables
<1>6. CASE o.symbol # s
  <2>1. ledger'[s] = ledger[s]
    BY <1>4, <1>6 DEF Book, TypeInv, TypeOK
  <2>2. \A j \in Ids : /\ holdings'[j].symbol = s <=> holdings[j].symbol = s
                       /\ holdings[j].symbol = s => holdings'[j].quantity = holdings[j].quantity
    BY <1>3, <1>5, <1>6
  <2>3. \A d \in InSession(s)' :
            d \in InSession(s) /\ loaded'[d] = loaded[d] /\ row'[d] = row[d]
    BY <1>1, SessionsKept
  <2>4. QED
    BY <2>1, <2>2, <2>3, ApartKept
<1>7. CASE o.symbol = s
  <2>1. RowsOf(s) = {} /\ ledger[s] = 0
    BY <1>1, <1>7, OnlySession DEF Apart, Insert
  <2>2. RowsOf(s)' = {NewId}
    BY <1>3, <1>5, <1>7, <2>1 DEF RowsOf
  <2>3. ledger'[s] = o.quantity
    BY <1>2, <1>4, <1>7, <2>1 DEF Book, Booked, OrderType, TypeInv, TypeOK
  <2>4. InSession(s)' = {}
    <3>1. \A d \in InSession(s)' : d # c /\ d \in InSession(s)
      BY <1>1, SessionsKept
    <3>2. QED
      BY <1>1, <1>7, <3>1, OnlySession
  <2>5. holdings'[NewId].quantity = o.quantity
    BY <1>3, <1>5
  <2>6. QED
    BY <2>2, <2>3, <2>4, <2>5 DEF Apart
<1>8. QED
  BY <1>6, <1>7

\* What an order that has loaded a row finds when it writes it: unless it strays, a row
\* of its own symbol or none.
LEMMA WritesOwnRow ==
    ASSUME TypeInv, NEW c \in Clients, Update(c) \/ Delete(c), ~strayed'
    PROVE  /\ Acts(c) /\ stage[c] = "loaded" /\ stage'[c] # "loaded"
           /\ Order(c) \in OrderType
           /\ loaded[c] \in Ids
           /\ holdings[loaded[c]].symbol \in {Order(c).symbol, "none"}
           /\ row[c].quantity \in Nat
<1>1. stage[c] = "loaded" /\ stage[c] \in Ordering /\ loaded[c] # 0 /\ Strays(c)
  BY DEF Update, Delete, Ordering
<1>2. row[c] \in Holding /\ row[c].symbol = Order(c).symbol
  BY <1>1 DEF TypeInv, StageInv, Staged
<1>3. holdings[loaded[c]].symbol \in {Order(c).symbol, "none"}
  BY <1>1, <1>2 DEF Strays, Gone
<1>4. stage'[c] # "loaded"
  <2>1. CASE Update(c)
    BY <2>1 DEF Update, Goto, TypeInv, TypeOK
  <2>2. CASE Delete(c)
    BY <1>1, <2>2, AfterOrder DEF Delete
  <2>3. QED
    BY <2>1, <2>2
<1>5. Acts(c)
  BY DEF Acts, Submit
<1>6. QED
  BY <1>1, <1>2, <1>3, <1>4, <1>5, OrderIsTyped DEF TypeInv, TypeOK, Holding

\* An order on another symbol writes no row of this one.
LEMMA OtherOrderLeavesRows ==
    ASSUME TypeInv, NEW s \in Symbols, NEW c \in Clients, Update(c) \/ Delete(c),
           ~strayed', Order(c).symbol # s
    PROVE  \A j \in Ids :
               /\ holdings'[j].symbol = s <=> holdings[j].symbol = s
               /\ holdings[j].symbol = s => holdings'[j].quantity = holdings[j].quantity
<1>1. loaded[c] \in Ids /\ holdings[loaded[c]].symbol # s
  BY WritesOwnRow, HoldingsAssumption
<1>2. \A j \in Ids : j # loaded[c] => holdings'[j] = holdings[j]
  BY DEF Update, Delete, TypeInv, TypeOK, Tables
<1>3. holdings'[loaded[c]].symbol # s
  <2>1. CASE Update(c)
    <3>1. holdings[loaded[c]] \in Holding
      BY <1>1, <2>1, RowKinds DEF Update, TypeInv, TypeOK
    <3>2. holdings'[loaded[c]].symbol = holdings[loaded[c]].symbol
      BY <1>1, <2>1, <3>1 DEF Update, TypeInv, TypeOK, Tables, Holding
    <3>3. QED
      BY <1>1, <3>2
  <2>2. CASE Delete(c)
    BY <1>1, <2>2, HoldingsAssumption DEF Delete, Gone, TypeInv, TypeOK, Tables
  <2>3. QED
    BY <2>1, <2>2
<1>4. QED
  BY <1>1, <1>2, <1>3

LEMMA OtherOrderKeepsApart ==
    ASSUME TypeInv, NEW s \in Symbols, Apart(s), NEW c \in Clients, Update(c) \/ Delete(c),
           ~strayed', Order(c).symbol # s
    PROVE  Apart(s)'
<1>1. Acts(c) /\ stage'[c] # "loaded"
  BY WritesOwnRow
<1>2. ledger'[s] = ledger[s]
  BY DEF Update, Delete, Book, TypeInv, TypeOK
<1>3. \A d \in InSession(s)' :
          d \in InSession(s) /\ loaded'[d] = loaded[d] /\ row'[d] = row[d]
  BY <1>1, SessionsKept
<1>4. QED
  BY <1>2, <1>3, OtherOrderLeavesRows, ApartKept

\* An order on the symbol itself writes the ledger's balance.
LEMMA OwnOrderKeepsApart ==
    ASSUME TypeInv, NEW s \in Symbols, Apart(s), NEW c \in Clients, Update(c) \/ Delete(c),
           ~strayed', Order(c).symbol = s
    PROVE  Apart(s)'
<1> DEFINE i == loaded[c]
<1>1. /\ Acts(c) /\ stage[c] = "loaded" /\ stage'[c] # "loaded"
      /\ Order(c) \in OrderType /\ i \in Ids /\ row[c].quantity \in Nat
  BY WritesOwnRow
<1>2. i # 0
  BY DEF Update, Delete
<1>3. i \in RowsOf(s) /\ row[c].quantity = ledger[s] /\ \A j \in RowsOf(s) : j = i
  BY <1>1, <1>2 DEF Apart, InSession
<1>4. InSession(s)' = {}
  <2>1. \A d \in InSession(s)' : d # c /\ d \in InSession(s)
    BY <1>1, SessionsKept
  <2>2. QED
    BY <1>1, <2>1, OnlySession
<1>5. ledger'[s] = Left(c)
  BY <1>1, <1>3 DEF Update, Delete, Book, Left, TypeInv, TypeOK
<1>6. \A j \in Ids : j # i => holdings'[j] = holdings[j] /\ holdings[j].symbol # s
  BY <1>3 DEF Update, Delete, TypeInv, TypeOK, Tables, RowsOf
<1>7. CASE Update(c)
  <2>1. holdings[i] \in Holding /\ holdings[i].symbol = s
    BY <1>3, <1>7, RowKinds DEF Update, TypeInv, TypeOK, RowsOf
  <2>2. holdings'[i].symbol = s /\ holdings'[i].quantity = Left(c)
    BY <1>1, <1>7, <2>1 DEF Update, TypeInv, TypeOK, Tables, Holding
  <2>3. RowsOf(s)' = {i}
    BY <1>1, <1>6, <2>2 DEF RowsOf
  <2>4. QED
    BY <1>4, <1>5, <2>2, <2>3 DEF Apart
<1>8. CASE Delete(c)
  <2>1. holdings'[i].symbol # s
    BY <1>1, <1>8, HoldingsAssumption DEF Delete, Gone, TypeInv, TypeOK, Tables
  <2>2. RowsOf(s)' = {}
    BY <1>6, <2>1 DEF RowsOf
  <2>3. ledger'[s] = 0
    BY <1>5, <1>8 DEF Delete
  <2>4. QED
    BY <1>4, <2>2, <2>3 DEF Apart
<1>9. QED
  BY <1>7, <1>8

\* A refresh of the prices changes prices and nothing else.
LEMMA PricesLeaveQuantities ==
    ASSUME TypeInv, NEW c \in Clients, SavePrices(c), NEW i \in Ids
    PROVE  /\ holdings'[i].symbol = holdings[i].symbol
           /\ holdings'[i].quantity = holdings[i].quantity
<1>1. CASE holdings' = holdings
  BY <1>1
<1>2. CASE holdings' # holdings
  <2> DEFINE p == NewPrice(c, i)
             priced == i \in Priced(c) /\ p # view[c][i].price
  <2>1. holdings'[i] = IF priced THEN [holdings[i] EXCEPT !.price = p] ELSE holdings[i]
    BY <1>2 DEF SavePrices
  <2>2. i \in Priced(c) => holdings[i] # Gone
    BY <1>2 DEF SavePrices
  <2>3. priced => holdings[i] \in Holding
    BY <2>2, RowKinds DEF TypeInv, TypeOK
  <2> HIDE DEF p, priced
  <2>4. QED
    BY <2>1, <2>3 DEF Holding
<1>3. QED
  BY <1>1, <1>2

LEMMA PricesKeepApart ==
    ASSUME TypeInv, NEW s \in Symbols, Apart(s), NEW c \in Clients, SavePrices(c)
    PROVE  Apart(s)'
<1>1. Acts(c) /\ stage'[c] # "loaded" /\ ledger' = ledger
  BY DEF Acts, Sum, SavePrices, Goto, history, TypeInv, TypeOK
<1>2. \A d \in InSession(s)' :
          d \in InSession(s) /\ loaded'[d] = loaded[d] /\ row'[d] = row[d]
  BY <1>1, SessionsKept
<1>3. QED
  BY <1>1, <1>2, PricesLeaveQuantities, ApartKept

\* Steps that write neither the table nor the ledger, nor open a session.
IdleStep(c) ==
    \/ todo'[c] \in Seq(OrderType) /\ Execute(c, todo'[c])
    \/ AskSummary(c) \/ Store(c) \/ UpdateNothing(c) \/ Refresh(c)
    \/ ListHoldings(c) \/ FetchPrices(c) \/ LoadPriced(c) \/ Summarise(c) \/ Fault(c)

LEMMA IdleStepsOpenNothing ==
    ASSUME TypeInv, NEW c \in Clients, IdleStep(c)
    PROVE  /\ holdings' = holdings /\ ledger' = ledger
           /\ stage'[c] # "loaded" /\ (~ Store(c) => stage'[c] # "stored" /\ bought' = bought)
           /\ Acts(c)
<1>1. holdings' = holdings /\ ledger' = ledger /\ (~ Store(c) => bought' = bought)
  BY DEF IdleStep, Execute, AskSummary, Store, UpdateNothing, Refresh, ListHoldings,
         FetchPrices, LoadPriced, Summarise, Fault, history
<1>2. stage'[c] # "loaded" /\ (~ Store(c) => stage'[c] # "stored")
  <2>1. CASE stage[c] \in Ordering /\ (NextOrder(c) \/ OrderRaises(c))
    BY <2>1, AfterOrder
  <2>2. CASE UpdateNothing(c) \/ Refresh(c)
    BY <2>1, <2>2 DEF UpdateNothing, Refresh, Ordering
  <2>3. CASE Fault(c)
    BY <2>1, <2>3 DEF Fault, Goto, TypeInv, TypeOK
  <2>4. CASE IdleStep(c) /\ ~ (UpdateNothing(c) \/ Refresh(c) \/ Fault(c))
    BY <2>4 DEF IdleStep, Execute, AskSummary, Store, ListHoldings, FetchPrices, LoadPriced,
                Summarise, Goto, TypeInv, TypeOK
  <2>5. QED
    BY <2>2, <2>3, <2>4
<1>3. Acts(c)
  BY DEF IdleStep, Acts, Submit, Sum
<1>4. QED
  BY <1>1, <1>2, <1>3

LEMMA IdleKeepsApart ==
    ASSUME TypeInv, NEW s \in Symbols, Apart(s), NEW c \in Clients, IdleStep(c)
    PROVE  Apart(s)'
<1>1. /\ holdings' = holdings /\ ledger' = ledger
      /\ stage'[c] # "loaded" /\ Acts(c)
  BY IdleStepsOpenNothing
<1>2. \A d \in InSession(s)' :
          d \in InSession(s) /\ loaded'[d] = loaded[d] /\ row'[d] = row[d]
  BY <1>1, SessionsKept
<1>3. QED
  BY <1>1, <1>2, ApartKept

\* What has strayed or clashed once, has for good.
LEMMA StrayedStays ==
    ASSUME NEW c \in Clients, Acts(c), ~strayed'
    PROVE  ~strayed /\ clash \subseteq clash'
<1>1. CASE Update(c) \/ Delete(c)
  <2>1. clash' = clash /\ Strays(c)
    BY <1>1 DEF Update, Delete
  <2>2. QED
    BY <2>1 DEF Strays
<1>2. CASE LoadHolding(c)
  BY <1>2 DEF LoadHolding
<1>3. CASE Insert(c) \/ SavePrices(c)
  BY <1>3 DEF Insert, SavePrices, history
<1>4. CASE IdleStep(c)
  BY <1>4 DEF IdleStep, Execute, AskSummary, Store, UpdateNothing, Refresh, ListHoldings,
              FetchPrices, LoadPriced, Summarise, Fault, history
<1>5. QED
  BY <1>1, <1>2, <1>3, <1>4 DEF Acts, Submit, Sum, IdleStep

LEMMA NextLedger == TypeInv /\ LedgerInv /\ [Next]_vars => LedgerInv'
<1> SUFFICES ASSUME TypeInv, LedgerInv, [Next]_vars, ~strayed', NEW s \in Symbols \ clash'
             PROVE  Apart(s)'
  BY DEF LedgerInv, TypeInv
<1>1. CASE UNCHANGED vars
  BY <1>1 DEF LedgerInv, Apart, RowsOf, InSession, Order, vars, session, history
<1>2. ASSUME NEW c \in Clients, Acts(c) PROVE Apart(s)'
  <2>1. ~strayed /\ clash \subseteq clash'
    BY <1>2, StrayedStays
  <2>2. Apart(s)
    BY <2>1 DEF LedgerInv
  <2>3. CASE Update(c) \/ Delete(c)
    BY <2>2, <2>3, OwnOrderKeepsApart, OtherOrderKeepsApart
  <2>4. CASE LoadHolding(c)
    BY <2>2, <2>4, LoadKeepsApart
  <2>5. CASE Insert(c)
    BY <2>2, <2>5, InsertKeepsApart
  <2>6. CASE SavePrices(c)
    BY <2>2, <2>6, PricesKeepApart
  <2>7. CASE IdleStep(c)
    BY <2>2, <2>7, IdleKeepsApart
  <2>8. QED
    BY <1>2, <2>3, <2>4, <2>5, <2>6, <2>7 DEF Acts, Submit, Sum, IdleStep
<1>3. QED
  BY <1>1, <1>2 DEF Next, Acts

\* Orders on a symbol that are never in progress together add up in its row, whatever
\* happens to other symbols, to the prices and to orders that fail.
THEOREM OrdersApartAddUp == Spec => []LedgerWhenApart
<1>1. Init => TypeInv /\ LedgerInv
  BY InitType, InitLedger
<1>2. TypeInv /\ LedgerInv /\ [Next]_vars => (TypeInv /\ LedgerInv)'
  BY NextTypeOK, NextStageInv, NextLedger DEF TypeInv
<1>3. LedgerInv => LedgerWhenApart
  BY DEF LedgerInv, LedgerWhenApart, Apart
<1>4. QED
  BY <1>1, <1>2, <1>3, PTL DEF Spec

---------------------------------------------------------------------------
(***************************************************************************)
(* No shares come from nowhere.  Every key has a mark that no row of the   *)
(* symbol under it exceeds, nor any session that has loaded one, even if   *)
(* the row is gone meanwhile and its key in use again; every unfinished    *)
(* BUY claims its quantity.  A session's commit turns its claim into a     *)
(* higher mark: the marks and the claims stay within what was bought.      *)
(***************************************************************************)

Pending(c, s) ==
    stage[c] \in {"stored", "loaded"} /\ Order(c).side = "BUY" /\ Order(c).symbol = s
Claims(s) == [c \in Clients |-> IF Pending(c, s) THEN Order(c).quantity ELSE 0]

Covers(m, s) ==
    /\ \A i \in RowsOf(s) : holdings[i].quantity <= m[i]
    /\ \A c \in InSession(s) : loaded[c] # 0 => row[c].quantity <= m[loaded[c]]

Backed(s) ==
    \E m \in [Ids -> Nat] :
        Covers(m, s) /\ SumOf(m, Ids) + SumOf(Claims(s), Clients) <= bought[s]

BackedInv == ~strayed => \A s \in Symbols : Backed(s)

LEMMA IdsAreFinite == IsFiniteSet(Ids) /\ IsFiniteSet(Clients)
  BY HoldingsAssumption, FS_Interval DEF Ids

LEMMA ClaimsAreNat == TypeInv => \A s \in Symbols, c \in Clients : Claims(s)[c] \in Nat
  BY OrderIsTyped DEF Claims, Pending, Ordering, OrderType

LEMMA ClaimsType ==
    ASSUME TypeInv, NEW s \in Symbols
    PROVE  SumOf(Claims(s), Clients) \in Nat
  BY ClaimsAreNat, IdsAreFinite, SumType

LEMMA ClaimsBeforeAndAfter ==
    ASSUME TypeInv, TypeInv', NEW s \in Symbols
    PROVE  \A c \in Clients : Claims(s)[c] \in Nat /\ Claims(s)'[c] \in Nat
<1>1. ASSUME NEW c \in Clients, Pending(c, s)' PROVE Order(c)'.quantity \in Nat
  <2>1. todo'[c] \in Seq(OrderType) /\ todo'[c] # <<>>
    BY <1>1 DEF Pending, TypeInv, TypeOK, StageInv, Staged, Ordering
  <2>2. Head(todo'[c]) \in OrderType
    BY <2>1, HeadTailProperties
  <2>3. QED
    BY <2>2 DEF Order, OrderType
<1>2. QED
  BY <1>1, ClaimsAreNat DEF Claims

\* The claims of the other clients are what they were.
LEMMA ClaimsChange ==
    ASSUME TypeInv, TypeInv', NEW s \in Symbols, NEW c \in Clients, Acts(c)
    PROVE  SumOf(Claims(s)', Clients) + Claims(s)[c]
               <= SumOf(Claims(s), Clients) + Claims(s)'[c]
<1>1. \A d \in Clients \ {c} : Claims(s)'[d] = Claims(s)[d]
  <2> SUFFICES ASSUME NEW d \in Clients \ {c} PROVE Claims(s)'[d] = Claims(s)[d]
    OBVIOUS
  <2>1. stage'[d] = stage[d] /\ todo'[d] = todo[d]
    BY OthersUntouched
  <2>2. QED
    BY <2>1 DEF Claims, Pending, Order
<1>2. \A d \in Clients : Claims(s)[d] \in Nat /\ Claims(s)'[d] \in Nat
  BY ClaimsBeforeAndAfter
<1>3. QED
  BY <1>1, <1>2, IdsAreFinite, SumChange

\* Marks that rise no more than the client's claim falls, or than is bought, still do.
LEMMA MarksStay ==
    ASSUME TypeInv, TypeInv', NEW s \in Symbols, NEW c \in Clients, Acts(c),
           NEW m \in [Ids -> Nat], SumOf(m, Ids) + SumOf(Claims(s), Clients) <= bought[s],
           NEW n \in [Ids -> Nat], Covers(n, s)',
           SumOf(n, Ids) + Claims(s)'[c] + bought[s]
               <= SumOf(m, Ids) + Claims(s)[c] + bought'[s]
    PROVE  Backed(s)'
<1> DEFINE total == SumOf(Claims(s), Clients)
           total2 == SumOf(Claims(s)', Clients)
<1>1. total2 + Claims(s)[c] <= total + Claims(s)'[c]
  BY ClaimsChange
<1>2. total \in Nat /\ total2 \in Nat /\ Claims(s)[c] \in Nat /\ Claims(s)'[c] \in Nat
  BY ClaimsBeforeAndAfter, IdsAreFinite, SumType
<1>3. SumOf(m, Ids) \in Nat /\ SumOf(n, Ids) \in Nat
  BY IdsAreFinite, SumType
<1>4. bought[s] \in Nat /\ bought'[s] \in Nat
  BY DEF TypeInv, TypeOK
<1> HIDE DEF total, total2
<1>5. SumOf(n, Ids) + total2 <= bought'[s]
  BY <1>1, <1>2, <1>3, <1>4 DEF total
<1>6. QED
  BY <1>5 DEF Backed, total2

LEMMA RowIsNat ==
    ASSUME TypeInv, NEW c \in Clients
    PROVE  row[c].quantity \in Nat /\ loaded[c] \in Ids \cup {0}
  BY DEF TypeInv, TypeOK, Holding, Gone

\* Marks that rise cover what they covered.
LEMMA CoversStay ==
    ASSUME TypeInv, NEW s \in Symbols, NEW c \in Clients, Acts(c),
           NEW m \in [Ids -> Nat], Covers(m, s), NEW n \in [Ids -> Nat],
           \A i \in Ids : m[i] <= n[i],
           \A i \in Ids : holdings'[i].symbol = s => holdings'[i].quantity <= n[i],
           stage'[c] = "loaded" => todo'[c] = todo[c] /\ Order(c).symbol # s
    PROVE  Covers(n, s)'
<1>1. \A i \in RowsOf(s)' : holdings'[i].quantity <= n[i]
  BY DEF RowsOf
<1>2. ASSUME NEW d \in InSession(s)', loaded'[d] # 0 PROVE row'[d].quantity <= n[loaded'[d]]
  <2>1. d \in InSession(s) /\ loaded'[d] = loaded[d] /\ row'[d] = row[d]
    BY SessionsKept
  <2>2. d \in Clients
    BY <2>1 DEF InSession
  <2>3. row[d].quantity \in Nat /\ loaded[d] \in Ids
    BY <1>2, <2>1, <2>2, RowIsNat
  <2>4. row[d].quantity <= m[loaded[d]] /\ m[loaded[d]] <= n[loaded[d]]
    BY <2>1, <2>3, <1>2 DEF Covers
  <2>5. m[loaded[d]] \in Nat /\ n[loaded[d]] \in Nat
    BY <2>3
  <2> HIDE DEF InSession
  <2>6. QED
    BY <2>1, <2>3, <2>4, <2>5
<1>3. QED
  BY <1>1, <1>2 DEF Covers

\* A client that has no order in progress claims nothing.
LEMMA ClaimEnds ==
    ASSUME NEW s \in Symbols, NEW c \in Clients, stage'[c] \notin {"stored", "loaded"}
    PROVE  Claims(s)'[c] = 0
  BY DEF Claims, Pending

\* A row that does not grow.
Shrinks(i, s) ==
    holdings'[i].symbol = s =>
        holdings[i].symbol = s /\ holdings'[i].quantity <= holdings[i].quantity

LEMMA QuantitiesAreNat ==
    ASSUME NEW t \in Tables, NEW i \in Ids
    PROVE  t[i].quantity \in Nat
  BY RowKinds DEF Holding, Gone

LEMMA ShrinksCovered ==
    ASSUME TypeInv, TypeInv', NEW s \in Symbols, NEW m \in [Ids -> Nat], Covers(m, s),
           NEW i \in Ids, Shrinks(i, s), holdings'[i].symbol = s
    PROVE  holdings'[i].quantity <= m[i]
<1>1. holdings[i].quantity <= m[i] /\ holdings'[i].quantity <= holdings[i].quantity
  BY DEF Covers, Shrinks, RowsOf
<1>2. holdings[i].quantity \in Nat /\ holdings'[i].quantity \in Nat /\ m[i] \in Nat
  BY QuantitiesAreNat DEF TypeInv, TypeOK
<1>3. QED
  BY <1>1, <1>2

\* A step that adds shares to no row of the symbol, and claims no more than is bought.
LEMMA QuietStepsBacked ==
    ASSUME TypeInv, TypeInv', NEW s \in Symbols, NEW c \in Clients, Acts(c), Backed(s),
           \A i \in Ids : Shrinks(i, s),
           stage'[c] = "loaded" => todo'[c] = todo[c] /\ Order(c).symbol # s,
           Claims(s)'[c] + bought[s] <= Claims(s)[c] + bought'[s]
    PROVE  Backed(s)'
<1>1. PICK m \in [Ids -> Nat] :
          Covers(m, s) /\ SumOf(m, Ids) + SumOf(Claims(s), Clients) <= bought[s]
  BY DEF Backed
<1>2. \A i \in Ids : holdings'[i].symbol = s => holdings'[i].quantity <= m[i]
  BY <1>1, ShrinksCovered
<1>3. \A i \in Ids : m[i] <= m[i]
  OBVIOUS
<1>4. Covers(m, s)'
  BY <1>1, <1>2, <1>3, CoversStay
<1>5. SumOf(m, Ids) \in Nat
  BY IdsAreFinite, SumType
<1>6. Claims(s)[c] \in Nat /\ Claims(s)'[c] \in Nat /\ bought[s] \in Nat /\ bought'[s] \in Nat
  BY ClaimsBeforeAndAfter DEF TypeInv, TypeOK
<1>7. SumOf(m, Ids) + Claims(s)'[c] + bought[s] <= SumOf(m, Ids) + Claims(s)[c] + bought'[s]
  BY <1>5, <1>6
<1>8. QED
  BY <1>1, <1>4, <1>7, MarksStay

\* A commit that adds the client's claim to what its session has loaded, or to nothing.
LEMMA CommitsBacked ==
    ASSUME TypeInv, TypeInv', NEW s \in Symbols, NEW c \in Clients, Acts(c), Backed(s),
           stage'[c] \notin {"stored", "loaded"}, bought' = bought, NEW i \in Ids,
           \A j \in Ids : j # i => Shrinks(j, s),
           \/ holdings'[i].quantity <= Claims(s)[c]
           \/ /\ c \in InSession(s) /\ loaded[c] = i
              /\ holdings'[i].quantity <= row[c].quantity + Claims(s)[c]
    PROVE  Backed(s)'
<1>1. PICK m \in [Ids -> Nat] :
          Covers(m, s) /\ SumOf(m, Ids) + SumOf(Claims(s), Clients) <= bought[s]
  BY DEF Backed
<1> DEFINE q == Claims(s)[c]
<1>2. q \in Nat /\ Claims(s)'[c] = 0
  BY ClaimsBeforeAndAfter, ClaimEnds
<1> HIDE DEF q
<1>3. PICK n \in [Ids -> Nat] : n[i] = m[i] + q /\ \A j \in Ids : j # i => n[j] = m[j]
  <2>1. [m EXCEPT ![i] = @ + q] \in [Ids -> Nat]
    BY <1>2
  <2>2. QED
    BY <2>1
<1>4. \A j \in Ids : m[j] <= n[j]
  BY <1>2, <1>3
<1>5. ASSUME NEW j \in Ids, holdings'[j].symbol = s PROVE holdings'[j].quantity <= n[j]
  <2>1. CASE j # i
    BY <1>1, <1>3, <1>5, <2>1, ShrinksCovered
  <2>2. CASE j = i
    <3>1. holdings'[i].quantity \in Nat /\ row[c].quantity \in Nat /\ m[i] \in Nat
      BY QuantitiesAreNat, RowIsNat DEF TypeInv, TypeOK
    <3>2. CASE holdings'[i].quantity <= q
      BY <1>2, <1>3, <2>2, <3>1, <3>2
    <3>3. CASE /\ c \in InSession(s) /\ loaded[c] = i
               /\ holdings'[i].quantity <= row[c].quantity + q
      <4>1. row[c].quantity <= m[i]
        BY <1>1, <3>3, HoldingsAssumption DEF Covers, Ids
      <4>2. QED
        BY <1>2, <1>3, <2>2, <3>1, <3>3, <4>1
    <3>4. QED
      BY <3>2, <3>3 DEF q
  <2>3. QED
    BY <2>1, <2>2
<1>6. Covers(n, s)'
  BY <1>1, <1>3, <1>4, <1>5, CoversStay
<1>7. SumOf(n, Ids) + m[i] <= SumOf(m, Ids) + n[i]
  BY <1>3, IdsAreFinite, SumChange
<1>8. SumOf(n, Ids) \in Nat /\ SumOf(m, Ids) \in Nat /\ m[i] \in Nat /\ bought[s] \in Nat
  BY <1>3, IdsAreFinite, SumType DEF TypeInv, TypeOK
<1>9. SumOf(n, Ids) + Claims(s)'[c] + bought[s] <= SumOf(m, Ids) + q + bought'[s]
  BY <1>2, <1>3, <1>7, <1>8
<1>10. QED
  BY <1>1, <1>3, <1>6, <1>9, MarksStay DEF q

LEMMA InitBacked == Init => BackedInv
<1> SUFFICES ASSUME Init, NEW s \in Symbols PROVE Backed(s)
  BY DEF BackedInv
<1>1. TypeInv /\ LedgerInv
  BY InitType, InitLedger
<1>2. \A i, j \in RowsOf(s) : i = j
  BY <1>1 DEF LedgerInv, Apart, Init
<1>3. bought[s] = Balance(s) /\ Balance(s) \in Nat
  BY <1>1 DEF Init, TypeInv, TypeOK
<1> DEFINE m == [i \in Ids |-> IF i = First(s) THEN Balance(s) ELSE 0]
           none == [i \in Ids |-> 0]
<1>4. m \in [Ids -> Nat]
  BY <1>3
<1>5. Covers(m, s)
  <2>1. ASSUME NEW i \in RowsOf(s) PROVE holdings[i].quantity = m[i]
    <3>1. i = First(s) /\ i \in Ids
      BY <1>2, FirstIsRow DEF RowsOf
    <3>2. QED
      BY <3>1 DEF Balance
  <2>2. \A i \in Ids : m[i] <= m[i]
    BY <1>4
  <2>3. InSession(s) = {}
    BY DEF Init, InSession
  <2>4. RowsOf(s) \subseteq Ids
    BY DEF RowsOf
  <2> HIDE DEF m
  <2>5. QED
    BY <2>1, <2>2, <2>3, <2>4 DEF Covers
<1>6. SumOf(Claims(s), Clients) = 0
  <2>1. \A c \in Clients : Claims(s)[c] = 0
    BY DEF Claims, Pending, Init
  <2>2. QED
    BY <2>1, IdsAreFinite, SumZero
<1>7. SumOf(m, Ids) <= Balance(s)
  <2>1. CASE RowsOf(s) = {}
    <3>1. \A i \in Ids : m[i] = 0
      BY <2>1 DEF Balance
    <3> HIDE DEF m
    <3>2. SumOf(m, Ids) = 0
      BY <3>1, IdsAreFinite, SumZero
    <3>3. QED
      BY <1>3, <3>2
  <2>2. CASE RowsOf(s) # {}
    <3>1. First(s) \in Ids
      BY <2>2, FirstIsRow DEF RowsOf
    <3>2. \A i \in Ids : none[i] = 0 /\ none[i] \in Nat
      OBVIOUS
    <3>3. \A i \in Ids \ {First(s)} : m[i] <= none[i]
      BY <1>3
    <3>4. m[First(s)] = Balance(s)
      BY <3>1
    <3> HIDE DEF m, none
    <3>5. SumOf(m, Ids) + none[First(s)] <= SumOf(none, Ids) + m[First(s)]
      BY <1>4, <3>1, <3>2, <3>3, IdsAreFinite, SumChange
    <3>6. SumOf(none, Ids) = 0 /\ SumOf(m, Ids) \in Nat
      BY <1>4, <3>2, IdsAreFinite, SumZero, SumType
    <3>7. QED
      BY <1>3, <3>1, <3>2, <3>4, <3>5, <3>6
  <2>3. QED
    BY <2>1, <2>2
<1>8. SumOf(m, Ids) \in Nat
  BY <1>4, IdsAreFinite, SumType
<1> HIDE DEF m
<1>9. QED
  BY <1>3, <1>4, <1>5, <1>6, <1>7, <1>8 DEF Backed

\* A stored BUY claims what the paper_orders row has just added to what was bought.
LEMMA StoreBacked ==
    ASSUME TypeInv, TypeInv', NEW s \in Symbols, NEW c \in Clients, Store(c), Backed(s)
    PROVE  Backed(s)'
<1>1. Acts(c) /\ stage[c] = "store" /\ stage'[c] = "stored" /\ holdings' = holdings /\ todo' = todo
  BY DEF Acts, Submit, Store, Goto, TypeInv, TypeOK
<1>2. Order(c) \in OrderType /\ Order(c)' = Order(c)
  BY <1>1, OrderIsTyped DEF Ordering, Order
<1>3. \A i \in Ids : Shrinks(i, s)
  BY <1>1, QuantitiesAreNat DEF Shrinks, TypeInv, TypeOK
<1>4. Claims(s)[c] = 0
  BY <1>1 DEF Claims, Pending
<1>5. bought[s] \in Nat /\ Order(c).quantity \in Nat
  BY <1>2 DEF TypeInv, TypeOK, OrderType
<1>6. Claims(s)'[c] + bought[s] <= bought'[s]
  <2>1. CASE Order(c).side = "BUY" /\ Order(c).symbol = s
    <3>1. bought'[s] = bought[s] + Order(c).quantity
      BY <2>1 DEF Store, TypeInv, TypeOK
    <3>2. Claims(s)'[c] = Order(c).quantity
      BY <1>1, <1>2, <2>1 DEF Claims, Pending
    <3>3. QED
      BY <1>5, <3>1, <3>2
  <2>2. CASE ~ (Order(c).side = "BUY" /\ Order(c).symbol = s)
    <3>1. bought'[s] = bought[s]
      BY <2>2 DEF Store, TypeInv, TypeOK
    <3>2. Claims(s)'[c] = 0
      BY <1>2, <2>2 DEF Claims, Pending
    <3>3. QED
      BY <1>5, <3>1, <3>2
  <2>3. QED
    BY <2>1, <2>2
<1>7. bought'[s] \in Nat
  BY DEF TypeInv, TypeOK
<1>8. Claims(s)'[c] + bought[s] <= Claims(s)[c] + bought'[s]
  BY <1>4, <1>6, <1>7
<1>9. QED
  BY <1>1, <1>3, <1>8, QuietStepsBacked

\* A step that gives up or ends an order, or belongs to none.
LEMMA EndedStepsBacked ==
    ASSUME TypeInv, TypeInv', NEW s \in Symbols, NEW c \in Clients, Acts(c), Backed(s),
           \A i \in Ids : Shrinks(i, s), stage'[c] \notin {"stored", "loaded"},
           bought' = bought
    PROVE  Backed(s)'
<1>1. Claims(s)'[c] = 0 /\ Claims(s)[c] \in Nat /\ bought[s] \in Nat
  BY ClaimEnds, ClaimsBeforeAndAfter DEF TypeInv, TypeOK
<1>2. Claims(s)'[c] + bought[s] <= Claims(s)[c] + bought'[s]
  BY <1>1
<1>3. QED
  BY <1>2, QuietStepsBacked

LEMMA QuantitiesKept ==
    ASSUME TypeInv, NEW s \in Symbols,
           \A i \in Ids :
               /\ holdings'[i].symbol = s => holdings[i].symbol = s
               /\ holdings[i].symbol = s => holdings'[i].quantity = holdings[i].quantity
    PROVE  \A i \in Ids : Shrinks(i, s)
<1> SUFFICES ASSUME NEW i \in Ids, holdings'[i].symbol = s
             PROVE  /\ holdings[i].symbol = s
                    /\ holdings'[i].quantity <= holdings[i].quantity
  BY DEF Shrinks
<1>1. holdings[i].quantity \in Nat
  BY QuantitiesAreNat DEF TypeInv, TypeOK
<1>2. holdings'[i].quantity = holdings[i].quantity /\ holdings[i].symbol = s
  OBVIOUS
<1>3. QED
  BY <1>1, <1>2

LEMMA IdleBacked ==
    ASSUME TypeInv, TypeInv', NEW s \in Symbols, NEW c \in Clients, IdleStep(c), Backed(s)
    PROVE  Backed(s)'
<1>1. CASE Store(c)
  BY <1>1, StoreBacked
<1>2. CASE ~ Store(c)
  <2>1. /\ holdings' = holdings /\ stage'[c] \notin {"stored", "loaded"} /\ bought' = bought
        /\ Acts(c)
    BY <1>2, IdleStepsOpenNothing
  <2>2. \A i \in Ids : Shrinks(i, s)
    BY <2>1, QuantitiesKept
  <2>3. QED
    BY <2>1, <2>2, EndedStepsBacked
<1>3. QED
  BY <1>1, <1>2

LEMMA PricesBacked ==
    ASSUME TypeInv, TypeInv', NEW s \in Symbols, NEW c \in Clients, SavePrices(c), Backed(s)
    PROVE  Backed(s)'
<1>1. Acts(c) /\ stage'[c] \notin {"stored", "loaded"} /\ bought' = bought
  BY DEF Acts, Sum, SavePrices, Goto, history, TypeInv, TypeOK
<1>2. \A i \in Ids : Shrinks(i, s)
  BY PricesLeaveQuantities, QuantitiesKept
<1>3. QED
  BY <1>1, <1>2, EndedStepsBacked

\* What a session loads, the marks cover already.
LEMMA LoadBacked ==
    ASSUME TypeInv, TypeInv', NEW s \in Symbols, NEW c \in Clients, LoadHolding(c), Backed(s)
    PROVE  Backed(s)'
<1> DEFINE o == Order(c)
           i == First(o.symbol)
<1>1. /\ Acts(c) /\ stage[c] = "stored" /\ stage[c] \in Ordering
      /\ holdings' = holdings /\ bought' = bought
  BY DEF Acts, Submit, LoadHolding, Ordering
<1>2. \A j \in Ids : Shrinks(j, s)
  BY <1>1, QuantitiesKept
<1>3. CASE NextOrder(c)
  <2>1. stage'[c] \notin {"stored", "loaded"}
    BY <1>1, <1>3, AfterOrder
  <2>2. QED
    BY <1>1, <1>2, <2>1, EndedStepsBacked
<1>4. CASE /\ Goto(c, "loaded") /\ UNCHANGED <<todo, ledger>>
           /\ loaded' = [loaded EXCEPT ![c] = i]
           /\ row' = [row EXCEPT ![c] = IF i = 0 THEN Gone ELSE holdings[i]]
  <2>1. todo' = todo /\ stage'[c] = "loaded" /\ Order(c)' = Order(c)
    BY <1>4 DEF Goto, TypeInv, TypeOK, Order
  <2>2. Claims(s)'[c] = Claims(s)[c]
    BY <1>1, <2>1 DEF Claims, Pending
  <2>3. Claims(s)[c] \in Nat /\ bought[s] \in Nat
    BY ClaimsBeforeAndAfter DEF TypeInv, TypeOK
  <2>4. CASE o.symbol # s
    <3>1. Claims(s)'[c] + bought[s] <= Claims(s)[c] + bought'[s]
      BY <1>1, <2>2, <2>3
    <3>2. QED
      BY <1>1, <1>2, <2>1, <2>4, <3>1, QuietStepsBacked
  <2>5. CASE o.symbol = s
    <3>1. PICK m \in [Ids -> Nat] :
              Covers(m, s) /\ SumOf(m, Ids) + SumOf(Claims(s), Clients) <= bought[s]
      BY DEF Backed
    <3>2. RowsOf(s)' = RowsOf(s)
      BY <1>1 DEF RowsOf
    <3>3. ASSUME NEW d \in InSession(s)', loaded'[d] # 0
          PROVE  row'[d].quantity <= m[loaded'[d]]
      <4>1. CASE d = c
        <5>1. loaded'[c] = i /\ (i # 0 => row'[c] = holdings[i])
          BY <1>4 DEF TypeInv, TypeOK
        <5>2. i # 0 => i \in RowsOf(s)
          BY <2>5, FirstIsRow
        <5> HIDE DEF i
        <5>3. QED
          BY <3>1, <3>3, <4>1, <5>1, <5>2 DEF Covers
      <4>2. CASE d # c
        <5>1. d \in Clients /\ stage'[d] = "loaded" /\ Order(d)'.symbol = s
          BY DEF InSession
        <5>2. UNCHANGED <<stage[d], todo[d], loaded[d], row[d]>>
          BY <1>1, <4>2, <5>1, OthersUntouched
        <5>3. d \in InSession(s)
          BY <5>1, <5>2 DEF InSession, Order
        <5>4. QED
          BY <3>1, <3>3, <5>2, <5>3 DEF Covers
      <4>3. QED
        BY <4>1, <4>2
    <3>4. Covers(m, s)'
      BY <1>1, <3>1, <3>2, <3>3 DEF Covers
    <3>5. SumOf(m, Ids) \in Nat
      BY IdsAreFinite, SumType
    <3>6. SumOf(m, Ids) + Claims(s)'[c] + bought[s] <= SumOf(m, Ids) + Claims(s)[c] + bought'[s]
      BY <1>1, <2>2, <2>3, <3>5
    <3>7. QED
      BY <1>1, <3>1, <3>4, <3>6, MarksStay
  <2>6. QED
    BY <2>4, <2>5
<1>5. QED
  BY <1>3, <1>4 DEF LoadHolding, session

LEMMA InsertBacked ==
    ASSUME TypeInv, TypeInv', NEW s \in Symbols, NEW c \in Clients, Insert(c), Backed(s)
    PROVE  Backed(s)'
<1> DEFINE o == Order(c)
           new == [symbol |-> o.symbol, quantity |-> o.quantity, price |-> o.price]
<1>1. /\ Acts(c) /\ stage[c] = "loaded" /\ bought' = bought
      /\ stage'[c] \notin {"stored", "loaded"}
  BY DEF Acts, Submit, Insert, Goto, TypeInv, TypeOK
<1>2. o.side = "BUY"
  BY <1>1 DEF Insert, TypeInv, StageInv, Staged
<1>3. NewId \in Ids /\ holdings' = [holdings EXCEPT ![NewId] = new]
  BY DEF Insert
<1>4. \A j \in Ids : holdings'[j] = IF j = NewId THEN new ELSE holdings[j]
  BY <1>3 DEF TypeInv, TypeOK, Tables
<1>5. \A j \in Ids : holdings[j].quantity \in Nat
  BY QuantitiesAreNat DEF TypeInv, TypeOK
<1>6. o \in OrderType
  BY <1>1, OrderIsTyped DEF Ordering
<1>7. CASE o.symbol = s
  <2>1. Claims(s)[c] = o.quantity
    BY <1>1, <1>2, <1>7 DEF Claims, Pending
  <2>2. PICK i \in Ids : i = NewId
    BY <1>3
  <2>3. holdings'[i].quantity <= Claims(s)[c]
    BY <1>4, <1>6, <2>1, <2>2 DEF OrderType
  <2>4. \A j \in Ids : j # i => Shrinks(j, s)
    BY <1>4, <1>5, <2>2 DEF Shrinks
  <2>5. QED
    BY <1>1, <2>3, <2>4, CommitsBacked
<1>8. CASE o.symbol # s
  <2>1. \A j \in Ids : Shrinks(j, s)
    BY <1>4, <1>5, <1>8 DEF Shrinks
  <2>2. QED
    BY <1>1, <2>1, EndedStepsBacked
<1>9. QED
  BY <1>7, <1>8

\* A SELL writes no more than its session has loaded, a BUY no more than that and its claim.
LEMMA OrderBacked ==
    ASSUME TypeInv, TypeInv', NEW s \in Symbols, NEW c \in Clients, Update(c) \/ Delete(c),
           ~strayed', Backed(s)
    PROVE  Backed(s)'
<1> DEFINE o == Order(c)
<1>1. /\ Acts(c) /\ stage[c] = "loaded" /\ o \in OrderType /\ loaded[c] \in Ids
      /\ row[c].quantity \in Nat
  BY WritesOwnRow
<1>2. stage'[c] \notin {"stored", "loaded"} /\ bought' = bought
  <2>1. CASE Update(c)
    BY <2>1 DEF Update, Goto, TypeInv, TypeOK
  <2>2. CASE Delete(c)
    BY <1>1, <2>2, AfterOrder DEF Delete, Ordering
  <2>3. QED
    BY <2>1, <2>2
<1>3. CASE o.symbol # s
  <2>1. \A i \in Ids : Shrinks(i, s)
    BY <1>3, OtherOrderLeavesRows, QuantitiesKept
  <2>2. QED
    BY <1>1, <1>2, <2>1, EndedStepsBacked
<1>4. CASE o.symbol = s
  <2>1. PICK i \in Ids : i = loaded[c]
    BY <1>1
  <2>2. \A j \in Ids : holdings[j].quantity \in Nat
    BY QuantitiesAreNat DEF TypeInv, TypeOK
  <2>3. \A j \in Ids : j # i => holdings'[j] = holdings[j]
    BY <2>1 DEF Update, Delete, TypeInv, TypeOK, Tables
  <2>4. \A j \in Ids : j # i => Shrinks(j, s)
    BY <2>2, <2>3 DEF Shrinks
  <2>5. holdings'[i].quantity = Left(c)
    <3>1. CASE Update(c)
      <4>1. holdings[i] \in Holding
        BY <2>1, <3>1, RowKinds DEF Update, TypeInv, TypeOK
      <4>2. QED
        BY <2>1, <3>1, <4>1 DEF Update, TypeInv, TypeOK, Tables, Holding
    <3>2. CASE Delete(c)
      BY <2>1, <3>2 DEF Delete, Gone, TypeInv, TypeOK, Tables
    <3>3. QED
      BY <3>1, <3>2
  <2>6. Claims(s)[c] = IF o.side = "BUY" THEN o.quantity ELSE 0
    BY <1>1, <1>4 DEF Claims, Pending
  <2>7. Left(c) <= row[c].quantity + Claims(s)[c]
    BY <1>1, <2>6 DEF Left, Booked, Minus, OrderType
  <2>8. c \in InSession(s)
    BY <1>1, <1>4 DEF InSession
  <2>9. QED
    BY <1>1, <1>2, <2>1, <2>4, <2>5, <2>7, <2>8, CommitsBacked
<1>5. QED
  BY <1>3, <1>4

LEMMA NextBacked == TypeInv /\ TypeInv' /\ BackedInv /\ [Next]_vars => BackedInv'
<1> SUFFICES ASSUME TypeInv, TypeInv', BackedInv, [Next]_vars, ~strayed', NEW s \in Symbols
             PROVE  Backed(s)'
  BY DEF BackedInv
<1>1. CASE UNCHANGED vars
  <2>1. /\ holdings' = holdings /\ stage' = stage /\ todo' = todo /\ loaded' = loaded
        /\ row' = row /\ bought' = bought /\ strayed' = strayed
    BY <1>1 DEF vars, session, history
  <2>2. PICK m \in [Ids -> Nat] :
            Covers(m, s) /\ SumOf(m, Ids) + SumOf(Claims(s), Clients) <= bought[s]
    BY <2>1 DEF BackedInv, Backed
  <2>3. RowsOf(s)' = RowsOf(s) /\ InSession(s)' = InSession(s) /\ Claims(s)' = Claims(s)
    BY <2>1 DEF RowsOf, InSession, Claims, Pending, Order
  <2>4. Covers(m, s)'
    BY <2>1, <2>2, <2>3 DEF Covers
  <2>5. SumOf(m, Ids) + SumOf(Claims(s)', Clients) <= bought'[s]
    BY <2>1, <2>2, <2>3
  <2>6. QED
    BY <2>4, <2>5 DEF Backed
<1>2. ASSUME NEW c \in Clients, Acts(c) PROVE Backed(s)'
  <2>1. Backed(s)
    BY <1>2, StrayedStays DEF BackedInv
  <2>2. CASE Update(c) \/ Delete(c)
    BY <2>1, <2>2, OrderBacked
  <2>3. CASE LoadHolding(c)
    BY <2>1, <2>3, LoadBacked
  <2>4. CASE Insert(c)
    BY <2>1, <2>4, InsertBacked
  <2>5. CASE SavePrices(c)
    BY <2>1, <2>5, PricesBacked
  <2>6. CASE IdleStep(c)
    BY <2>1, <2>6, IdleBacked
  <2>7. QED
    BY <1>2, <2>2, <2>3, <2>4, <2>5, <2>6 DEF Acts, Submit, Sum, IdleStep
<1>3. QED
  BY <1>1, <1>2 DEF Next, Acts

\* The sum of the symbol's rows, as SumOf.
LEMMA HeldIsSum ==
    ASSUME TypeInv, NEW s
    PROVE  Held(s) = SumOf([i \in Ids |-> holdings[i].quantity], RowsOf(s))
<1> DEFINE f == [i \in Ids |-> holdings[i].quantity]
           S == RowsOf(s)
           Base(g) == g = [t \in SUBSET S |->
                              IF t = {} THEN 0
                              ELSE holdings[CHOOSE x \in t : TRUE].quantity
                                       + g[t \ {CHOOSE x \in t : TRUE}]]
<1>1. S \subseteq Ids /\ IsFiniteSet(S)
  BY IdsAreFinite, FS_Subset DEF RowsOf
<1>2. \A i \in Ids : f[i] \in Nat
  BY QuantitiesAreNat DEF TypeInv, TypeOK
<1>3. Held(s) = (CHOOSE g : Base(g))[S]
  BY DEF Held, MapThenSumSet, MapThenFoldSet
<1>4. ASSUME NEW g PROVE Base(g) <=> IsIter(g, f, S)
  <2>1. \A t \in SUBSET S : t # {} => (CHOOSE x \in t : TRUE) \in Ids
    BY <1>1
  <2>2. \A t \in SUBSET S : t # {} =>
            f[CHOOSE x \in t : TRUE] = holdings[CHOOSE x \in t : TRUE].quantity
    BY <2>1
  <2> HIDE DEF f, S
  <2>3. QED
    BY <2>2 DEF IsIter, Unfold, Taken
<1> HIDE DEF f, S, Base
<1>5. \E g : Base(g)
  BY <1>1, <1>4, IterExists
<1>6. PICK g : g = (CHOOSE h : Base(h)) /\ Base(g)
  BY <1>5
<1>7. IsSum(g, f, S)
  BY <1>1, <1>2, <1>4, <1>6, IterSums
<1>8. Held(s) = SumOf(f, S)
  BY <1>1, <1>2, <1>3, <1>6, <1>7, SumsAgree
<1>9. QED
  BY <1>8 DEF f, S

LEMMA HeldIsCovered ==
    ASSUME TypeInv, NEW s \in Symbols, NEW m \in [Ids -> Nat], Covers(m, s)
    PROVE  Held(s) \in Nat /\ Held(s) <= SumOf(m, Ids)
<1> DEFINE f == [i \in Ids |-> holdings[i].quantity]
<1>1. Held(s) = SumOf(f, RowsOf(s))
  BY HeldIsSum
<1>2. \A i \in Ids : f[i] \in Nat
  BY QuantitiesAreNat DEF TypeInv, TypeOK
<1>3. RowsOf(s) \subseteq Ids /\ IsFiniteSet(RowsOf(s))
  BY IdsAreFinite, FS_Subset DEF RowsOf
<1>4. \A i \in RowsOf(s) : f[i] <= m[i]
  BY <1>3 DEF Covers
<1> HIDE DEF f
<1>5. QED
  BY <1>1, <1>2, <1>3, <1>4, IdsAreFinite, SumLe, SumType

\* Orders that get in each other's way, whatever steps they interleave or fail in, never
\* leave more shares of a symbol in the table than their BUYs have stored.
THEOREM NoSharesFromNowhere == Spec => []NoPhantomShares
<1>1. Init => TypeInv /\ BackedInv
  BY InitType, InitBacked
<1>2. TypeInv /\ [Next]_vars => TypeInv'
  BY NextTypeOK, NextStageInv DEF TypeInv
<1>3. TypeInv /\ BackedInv /\ [Next]_vars => (TypeInv /\ BackedInv)'
  BY <1>2, NextBacked
<1>4. TypeInv /\ BackedInv => NoPhantomShares
  <2> SUFFICES ASSUME TypeInv, BackedInv, ~strayed, NEW s \in Symbols
               PROVE  Held(s) <= bought[s]
    BY DEF NoPhantomShares
  <2>1. PICK m \in [Ids -> Nat] :
            Covers(m, s) /\ SumOf(m, Ids) + SumOf(Claims(s), Clients) <= bought[s]
    BY DEF BackedInv, Backed
  <2>2. Held(s) \in Nat /\ Held(s) <= SumOf(m, Ids)
    BY <2>1, HeldIsCovered
  <2>3. SumOf(m, Ids) \in Nat /\ SumOf(Claims(s), Clients) \in Nat /\ bought[s] \in Nat
    BY IdsAreFinite, SumType, ClaimsType DEF TypeInv, TypeOK
  <2>4. QED
    BY <2>1, <2>2, <2>3
<1>5. QED
  BY <1>1, <1>3, <1>4, PTL DEF Spec
=============================================================================
