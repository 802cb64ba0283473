-------------------------- MODULE TradeTxnsProofs --------------------------
(***************************************************************************)
(* Proofs about TradeTxns for every set of transactions, of accounts and   *)
(* of symbols, whatever the transactions are asked to do.  From the locks  *)
(* follow what a transaction knows of the row it is going to write and of  *)
(* the prices it has compared, and from that the sums: holdings are what   *)
(* was loaded and traded.                                                  *)
(***************************************************************************)
EXTENDS TradeTxns, FiniteSetTheorems, SequenceTheorems, WellFoundedInduction,
        TLAPS

Rows == [account : Accounts, symbol : Symbols, hold : Int]
PortfolioTables == [Ids -> Rows \cup {Absent}]
KeyOf(rec) == <<rec.account, rec.symbol>>
Trading(t) == Kind(t) \in {"purchase", "sale"}
OrderLabels == {"lookup", "read", "price", "write", "newId", "insert"}
Orders(t) == job[t].orders
-----------------------------------------------------------------------------
(* The invariant.                                                          *)

Types == /\ portfolio \in PortfolioTables
         /\ before \in [Txns -> PortfolioTables]
         /\ price \in [Quoted -> 0 .. MaxPrice]
         /\ nextId \in 0 .. MaxIds
         /\ readers \in [Pages -> SUBSET Txns]
         /\ writer \in [Pages -> Txns \cup {NoTxn}]
         /\ job \in Plans
         /\ pos \in [Txns -> Nat]
         /\ pc \in [Txns -> Labels]
         /\ row \in [Txns -> 0 .. MaxIds]
         /\ held \in [Txns -> Int]
         /\ result \in [Txns -> {"none", "ok", "fail"}]
         /\ ledger \in [Keys -> Int]

(* Only the transaction that writes a page may read it.                    *)
Exclusive == \A p \in Pages : writer[p] # NoTxn => readers[p] \subseteq
                                                       {writer[p]}

(* Where a transaction is in its orders, and what it has found out about   *)
(* the order it is at.                                                     *)
AtOrder(t) ==
    /\ pos[t] \in DOMAIN Orders(t)
    /\ pc[t] = "idle" => pos[t] = 1
    /\ pc[t] \in OrderLabels => Trading(t)
    /\ pc[t] \in OrderLabels \ {"lookup"} => Known(Order(t))
    /\ pc[t] \in {"read", "write", "insert"} => row[t] # MaxIds
    /\ (\/ pc[t] \in {"newId", "insert"}
        \/ pc[t] = "price" /\ row[t] = MaxIds) => Kind(t) = "purchase"
    /\ pc[t] \in {"viewStock", "viewPortfolio", "refresh", "put"} => ~Trading(t)
    /\ (pc[t] = "commit" /\ Trading(t)) => pos[t] = Len(Orders(t))

(* It is at a row of the table, which it is going to write.                *)
HasRow(t) == \/ pc[t] \in {"read", "write"}
             \/ pc[t] = "price" /\ row[t] # MaxIds

(* It is in an order behind its first write, or about to commit.           *)
HasWritten(t) == \/ pc[t] \in OrderLabels /\ pos[t] > 1
                 \/ pc[t] = "commit" /\ Trading(t)

Locked(t) ==
    /\ HasRow(t) => t \in readers["byAccount"]
    /\ (HasRow(t) /\ pc[t] # "read") => t \in readers["portfolios"]
    /\ HasWritten(t) => writer["portfolios"] = t
    /\ writer["portfolios"] = t => /\ Trading(t)
                                   /\ pc[t] \in OrderLabels \cup
                                                {"commit", "abort"}
    /\ pc[t] = "put" => writer[Order(t).symbol] = t

(* The row is one of the key of the order, and stays one if the            *)
(* transaction that is writing the table is undone.                        *)
RowStays(t) ==
    HasRow(t) =>
       /\ KeyOf(portfolio[row[t]]) = KeyOf(Order(t))
       /\ \A u \in Txns : (writer["portfolios"] = u /\ u # t)
             => KeyOf(before[u][row[t]]) = KeyOf(Order(t))
       /\ pc[t] # "read" => held[t] = portfolio[row[t]].hold

(* The orders whose prices it has compared.                                *)
Compared(t) == {i \in DOMAIN Orders(t) :
                  \/ i < pos[t]
                  \/ i = pos[t] /\ pc[t] \in {"write", "newId", "insert",
                                              "commit"}}

PriceHolds(t) ==
    (Trading(t) /\ pc[t] \in OrderLabels \cup {"commit"}) =>
       \A i \in Compared(t) : /\ Orders(t)[i].symbol \in Quoted
                              /\ t \in readers[Orders(t)[i].symbol]
                              /\ GoodPrice(Kind(t), Orders(t)[i])

(* The orders it has applied to the table, and what they add to a key.     *)
Applied(t) == {i \in DOMAIN Orders(t) : i < pos[t] \/ pc[t] = "commit"}
Mine(t, k) == {i \in DOMAIN Orders(t) : KeyOf(Orders(t)[i]) = k}
Amounts(t) == [i \in DOMAIN Orders(t) |-> Orders(t)[i].amount]
SoFar(t, k) ==
    LET total == SumFunctionOnSet(Amounts(t), Mine(t, k) \cap Applied(t))
    IN IF Kind(t) = "purchase" THEN total ELSE -total

(* The books balance in the table as the last commit left it, and what is  *)
(* being written differs from that by the orders applied.                  *)
Balanced(t) ==
    (writer["portfolios"] = t /\ pc[t] # "abort") =>
       \A k \in Keys : HoldingsIn(portfolio, k) =
                          HoldingsIn(before[t], k) + SoFar(t, k)

IInv == /\ Types
        /\ Exclusive
        /\ \A t \in Txns : /\ AtOrder(t)
                           /\ Locked(t)
                           /\ RowStays(t)
                           /\ PriceHolds(t)
                           /\ Balanced(t)
        /\ HoldingsMatchLedger
-----------------------------------------------------------------------------
(* Sums over finite sets of the values of a function.  The induction is    *)
(* the argument from a least counterexample, which the well-founded        *)
(* orderings of the library give without an operator as a parameter.       *)

Picked(s) == CHOOSE x \in s : TRUE
Obeys(g, f, s) == g[s] = IF s = {} THEN 0
                         ELSE f[Picked(s)] + g[s \ {Picked(s)}]
IsSum(g, f, S) == g = [s \in SUBSET S |-> IF s = {} THEN 0
                         ELSE f[Picked(s)] + g[s \ {Picked(s)}]]

(* The unfolding of the fold of the library.                               *)
LEMMA SumUnfolds ==
    ASSUME NEW f, NEW S
    PROVE  SumFunctionOnSet(f, S) = (CHOOSE g : IsSum(g, f, S))[S]
BY Zenon DEF SumFunctionOnSet, FoldFunctionOnSet, MapThenFoldSet, IsSum,
             Picked

(* A set of numbers that is not empty has a least one.                     *)
LEMMA LeastNumber ==
    ASSUME NEW T \in SUBSET Nat, T # {}
    PROVE  \E x \in T : \A y \in T : x <= y
<1>1. PICK x \in T : \A y \in T : ~ (<<y, x>> \in OpToRel(<, Nat))
  BY NatLessThanWellFounded, WFMin, Zenon
<1>2. ASSUME NEW y \in T PROVE x <= y
  <2>1. ~(<<y, x>> \in OpToRel(<, Nat))
    BY <1>1
  <2>2. y \in Nat /\ x \in Nat
    OBVIOUS
  <2>3. ~(y < x)
    BY <2>1, <2>2 DEF OpToRel
  <2>4. QED
    BY <2>2, <2>3
<1>3. QED
  BY <1>2

(* A family of subsets of a finite set that is not empty has a least one.  *)
LEMMA LeastSet ==
    ASSUME NEW S, IsFiniteSet(S), NEW T \in SUBSET (SUBSET S), T # {}
    PROVE  \E x \in T : \A y \in T : y \subseteq x => y = x
<1>1. IsWellFoundedOn(StrictSubsetOrdering(S), SUBSET S)
  BY FS_StrictSubsetOrderingWellFounded, FS_FiniteSubsetsOfFinite, Zenon
<1>2. PICK x \in T : \A y \in T : ~(<<y, x>> \in StrictSubsetOrdering(S))
  BY <1>1, WFMin, Zenon
<1>3. ASSUME NEW y \in T, y \subseteq x PROVE y = x
  <2>1. ~(<<y, x>> \in StrictSubsetOrdering(S))
    BY <1>2
  <2>2. QED
    BY <2>1, <1>3 DEF StrictSubsetOrdering
<1>4. QED
  BY <1>3

(* What is picked from a set is in it, and the rest is smaller.            *)
LEMMA PickedIn ==
    ASSUME NEW S, IsFiniteSet(S), NEW s \in SUBSET S, s # {}
    PROVE  /\ Picked(s) \in s
           /\ s \ {Picked(s)} \in SUBSET S
           /\ s \ {Picked(s)} # s
           /\ Cardinality(s) \in Nat
           /\ Cardinality(s \ {Picked(s)}) = Cardinality(s) - 1
           /\ Cardinality(s) > 0
<1>1. Picked(s) \in s
  BY DEF Picked
<1>2. IsFiniteSet(s)
  BY FS_Subset
<1>3. Cardinality(s) \in Nat
  BY <1>2, FS_CardinalityType
<1>4. Cardinality(s \ {Picked(s)}) = Cardinality(s) - 1
  BY <1>1, <1>2, FS_RemoveElement
<1>5. Cardinality(s) # 0
  BY <1>2, FS_EmptySet
<1>6. QED
  BY <1>1, <1>3, <1>4, <1>5

(* There is a function that sums, ...                                      *)
LEMMA SumExists ==
    ASSUME NEW S, IsFiniteSet(S), NEW f, \A x \in S : f[x] \in Int
    PROVE  \E g \in [SUBSET S -> Int] : \A s \in SUBSET S : Obeys(g, f, s)
<1> DEFINE Upto(g, n) == \A s \in SUBSET S : Cardinality(s) <= n
                                                => Obeys(g, f, s)
           Bad == {n \in Nat : ~ \E g \in [SUBSET S -> Int] : Upto(g, n)}
<1>1. \A s \in SUBSET S : IsFiniteSet(s) /\ Cardinality(s) \in Nat
  BY FS_Subset, FS_CardinalityType
<1>2. 0 \notin Bad
  <2> DEFINE z == [s \in SUBSET S |-> 0]
  <2>1. z \in [SUBSET S -> Int]
    OBVIOUS
  <2>2. ASSUME NEW s \in SUBSET S, Cardinality(s) <= 0 PROVE Obeys(z, f, s)
    <3>1. Cardinality(s) = 0
      BY <1>1, <2>2
    <3>2. s = {}
      BY <1>1, <3>1, FS_EmptySet
    <3>3. QED
      BY <3>2 DEF Obeys
  <2>3. QED
    BY <2>1, <2>2
<1>3. ASSUME NEW n \in Nat, n \notin Bad PROVE n + 1 \notin Bad
  <2>1. PICK g \in [SUBSET S -> Int] : Upto(g, n)
    BY <1>3
  <2> DEFINE h == [s \in SUBSET S |->
                     IF Cardinality(s) <= n THEN g[s]
                     ELSE f[Picked(s)] + g[s \ {Picked(s)}]]
  <2>2. h \in [SUBSET S -> Int]
    <3>1. ASSUME NEW s \in SUBSET S PROVE h[s] \in Int
      <4>1. CASE Cardinality(s) <= n
        BY <4>1
      <4>2. CASE ~(Cardinality(s) <= n)
        <5>1. s # {}
          <6> SUFFICES ASSUME s = {} PROVE Cardinality(s) <= n
            BY <4>2
          <6>1. Cardinality(s) = 0
            BY FS_EmptySet
          <6>2. QED
            BY <6>1
        <5>2. Picked(s) \in S /\ s \ {Picked(s)} \in SUBSET S
          BY <5>1, PickedIn
        <5>3. f[Picked(s)] \in Int /\ g[s \ {Picked(s)}] \in Int
          BY <5>2
        <5>4. QED
          BY <4>2, <5>3
      <4>3. QED
        BY <4>1, <4>2
    <3>2. QED
      BY <3>1
  <2>3. ASSUME NEW s \in SUBSET S, Cardinality(s) <= n + 1
        PROVE  Obeys(h, f, s)
    <3>1. CASE s = {}
      <4>1. Cardinality(s) <= n
        BY <3>1, FS_EmptySet
      <4>2. h[s] = g[s] /\ Obeys(g, f, s)
        BY <2>1, <4>1
      <4>3. QED
        BY <3>1, <4>2 DEF Obeys
    <3>2. CASE s # {}
      <4> DEFINE r == s \ {Picked(s)}
      <4>1. /\ r \in SUBSET S
            /\ Cardinality(r) = Cardinality(s) - 1
            /\ Cardinality(s) \in Nat
        BY <3>2, PickedIn
      <4>2. Cardinality(r) <= n
        BY <4>1, <2>3
      <4>3. h[r] = g[r]
        BY <4>1, <4>2
      <4>4. h[s] = f[Picked(s)] + g[r]
        <5>1. CASE Cardinality(s) <= n
          <6>1. h[s] = g[s] /\ Obeys(g, f, s)
            BY <2>1, <5>1
          <6>2. QED
            BY <3>2, <6>1 DEF Obeys
        <5>2. CASE ~(Cardinality(s) <= n)
          BY <5>2
        <5>3. QED
          BY <5>1, <5>2
      <4>5. QED
        BY <3>2, <4>3, <4>4 DEF Obeys
    <3>3. QED
      BY <3>1, <3>2
  <2>4. QED
    BY <2>2, <2>3
<1>4. Bad = {}
  <2> SUFFICES ASSUME Bad # {} PROVE FALSE
    OBVIOUS
  <2>1. Bad \in SUBSET Nat
    OBVIOUS
  <2> HIDE DEF Bad
  <2>2. PICK m \in Bad : \A y \in Bad : m <= y
    BY <2>1, LeastNumber
  <2>3. m \in Nat /\ m # 0
    BY <1>2, <2>1
  <2>4. m - 1 \in Nat /\ m = (m - 1) + 1
    BY <2>3
  <2>5. m - 1 \notin Bad
    BY <2>2, <2>3
  <2>6. QED
    BY <1>3, <2>4, <2>5
<1>5. Cardinality(S) \in Nat
  BY FS_CardinalityType
<1>6. PICK g \in [SUBSET S -> Int] : Upto(g, Cardinality(S))
  BY <1>4, <1>5
<1>7. \A s \in SUBSET S : Cardinality(s) <= Cardinality(S)
  BY FS_Subset
<1>8. QED
  BY <1>6, <1>7

(* ... it is the one the fold of the library uses, ...                     *)
LEMMA SumIs ==
    ASSUME NEW S, IsFiniteSet(S), NEW f, \A x \in S : f[x] \in Int
    PROVE  \E g \in [SUBSET S -> Int] :
              /\ \A s \in SUBSET S : Obeys(g, f, s)
              /\ SumFunctionOnSet(f, S) = g[S]
<1>1. PICK g \in [SUBSET S -> Int] : \A s \in SUBSET S : Obeys(g, f, s)
  BY SumExists
<1>2. g = [s \in SUBSET S |-> g[s]]
  OBVIOUS
<1>3. IsSum(g, f, S)
  BY <1>1, <1>2, Zenon DEF IsSum, Obeys
<1>4. PICK c : c = (CHOOSE k : IsSum(k, f, S))
  OBVIOUS
<1>5. IsSum(c, f, S)
  BY <1>3, <1>4, Zenon
<1>6. \A s \in SUBSET S : Obeys(c, f, s)
  BY <1>5, Zenon DEF IsSum, Obeys
<1>7. c = [s \in SUBSET S |-> c[s]]
  BY <1>5 DEF IsSum
<1> DEFINE Bad == {s \in SUBSET S : c[s] # g[s]}
<1>8. Bad = {}
  <2> SUFFICES ASSUME Bad # {} PROVE FALSE
    OBVIOUS
  <2>1. PICK s \in Bad : \A y \in Bad : y \subseteq s => y = s
    <3>1. Bad \in SUBSET (SUBSET S)
      OBVIOUS
    <3> HIDE DEF Bad
    <3>2. QED
      BY <3>1, LeastSet
  <2>2. s # {}
    BY <1>1, <1>6 DEF Obeys
  <2>3. /\ s \ {Picked(s)} \in SUBSET S
        /\ s \ {Picked(s)} # s
    BY <2>2, PickedIn
  <2>4. c[s \ {Picked(s)}] = g[s \ {Picked(s)}]
    BY <2>1, <2>3
  <2>5. QED
    BY <1>1, <1>6, <2>2, <2>4 DEF Obeys
<1>9. c = g
  BY <1>2, <1>7, <1>8
<1>10. QED
  BY <1>1, <1>4, <1>9, SumUnfolds

(* ... and sums of functions that agree on a set are the same.             *)
LEMMA SumUnique ==
    ASSUME NEW U, IsFiniteSet(U), NEW g, NEW h, NEW f, NEW e,
           \A s \in SUBSET U : Obeys(g, f, s) /\ Obeys(h, e, s),
           \A x \in U : f[x] = e[x]
    PROVE  g[U] = h[U]
<1> DEFINE Bad == {s \in SUBSET U : g[s] # h[s]}
<1>1. Bad = {}
  <2> SUFFICES ASSUME Bad # {} PROVE FALSE
    OBVIOUS
  <2>1. PICK s \in Bad : \A y \in Bad : y \subseteq s => y = s
    <3>1. Bad \in SUBSET (SUBSET U)
      OBVIOUS
    <3> HIDE DEF Bad
    <3>2. QED
      BY <3>1, LeastSet
  <2>2. s # {}
    BY DEF Obeys
  <2>3. /\ Picked(s) \in U
        /\ s \ {Picked(s)} \in SUBSET U
        /\ s \ {Picked(s)} # s
    BY <2>2, PickedIn
  <2>4. g[s \ {Picked(s)}] = h[s \ {Picked(s)}]
    BY <2>1, <2>3
  <2>5. g[s] = h[s]
    BY <2>2, <2>3, <2>4 DEF Obeys
  <2>6. QED
    BY <2>5
<1>2. QED
  BY <1>1

(* A sum is a number, and that of nothing is zero.                         *)
LEMMA SumNumber ==
    ASSUME NEW S, IsFiniteSet(S), NEW f, \A x \in S : f[x] \in Int
    PROVE  SumFunctionOnSet(f, S) \in Int
<1>1. PICK g \in [SUBSET S -> Int] : SumFunctionOnSet(f, S) = g[S]
  BY SumIs
<1>2. QED
  BY <1>1

LEMMA SumNothing == \A f : SumFunctionOnSet(f, {}) = 0
<1> TAKE f
<1>1. IsFiniteSet({})
  BY FS_EmptySet
<1>2. PICK g \in [SUBSET {} -> Int] :
         /\ \A s \in SUBSET {} : Obeys(g, f, s)
         /\ SumFunctionOnSet(f, {}) = g[{}]
  BY <1>1, SumIs
<1>3. QED
  BY <1>2 DEF Obeys

(* It depends on the values of the function in the set alone.              *)
LEMMA SumAgrees ==
    ASSUME NEW S, IsFiniteSet(S), NEW f, NEW e,
           \A x \in S : f[x] \in Int /\ e[x] = f[x]
    PROVE  SumFunctionOnSet(e, S) = SumFunctionOnSet(f, S)
<1>1. PICK g \in [SUBSET S -> Int] :
         /\ \A s \in SUBSET S : Obeys(g, f, s)
         /\ SumFunctionOnSet(f, S) = g[S]
  BY SumIs
<1>2. PICK h \in [SUBSET S -> Int] :
         /\ \A s \in SUBSET S : Obeys(h, e, s)
         /\ SumFunctionOnSet(e, S) = h[S]
  BY SumIs
<1>3. g[S] = h[S]
  BY <1>1, <1>2, SumUnique
<1>4. QED
  BY <1>1, <1>2, <1>3

(* What is picked first can be taken off, ...                              *)
LEMMA SumPicked ==
    ASSUME NEW S, IsFiniteSet(S), NEW f, \A x \in S : f[x] \in Int,
           S # {}
    PROVE  SumFunctionOnSet(f, S) =
             f[Picked(S)] + SumFunctionOnSet(f, S \ {Picked(S)})
<1> DEFINE R == S \ {Picked(S)}
<1>1. IsFiniteSet(R)
  BY FS_RemoveElement
<1>2. PICK g \in [SUBSET S -> Int] :
         /\ \A s \in SUBSET S : Obeys(g, f, s)
         /\ SumFunctionOnSet(f, S) = g[S]
  BY SumIs
<1>3. PICK h \in [SUBSET R -> Int] :
         /\ \A s \in SUBSET R : Obeys(h, f, s)
         /\ SumFunctionOnSet(f, R) = h[R]
  BY <1>1, SumIs
<1>4. \A s \in SUBSET R : Obeys(g, f, s)
  BY <1>2
<1>5. g[R] = h[R]
  BY <1>1, <1>3, <1>4, SumUnique
<1>6. g[S] = f[Picked(S)] + g[R]
  BY <1>2 DEF Obeys
<1>7. QED
  BY <1>2, <1>3, <1>5, <1>6

(* ... and so can any element of the set.                                  *)
LEMMA SumWithout ==
    ASSUME NEW S, IsFiniteSet(S), NEW f, \A x \in S : f[x] \in Int,
           NEW a \in S
    PROVE  SumFunctionOnSet(f, S) = f[a] + SumFunctionOnSet(f, S \ {a})
<1>0. PICK Sum : Sum = [s \in SUBSET S |-> SumFunctionOnSet(f, s)]
  OBVIOUS
<1> DEFINE Bad == {s \in SUBSET S : \E x \in s : Sum[s] # f[x] + Sum[s \ {x}]}
<1>1. \A s \in SUBSET S : /\ IsFiniteSet(s)
                           /\ Sum[s] = SumFunctionOnSet(f, s)
                           /\ Sum[s] \in Int
  <2>1. ASSUME NEW s \in SUBSET S
        PROVE  IsFiniteSet(s) /\ SumFunctionOnSet(f, s) \in Int
    BY FS_Subset, SumNumber
  <2>2. QED
    BY <1>0, <2>1
<1>2. Bad = {}
  <2> SUFFICES ASSUME Bad # {} PROVE FALSE
    OBVIOUS
  <2>1. PICK s \in Bad : \A y \in Bad : y \subseteq s => y = s
    <3>1. Bad \in SUBSET (SUBSET S)
      OBVIOUS
    <3> HIDE DEF Bad
    <3>2. QED
      BY <3>1, LeastSet
  <2>2. PICK x \in s : Sum[s] # f[x] + Sum[s \ {x}]
    OBVIOUS
  <2>3. PICK c : c = Picked(s)
    OBVIOUS
  <2>4. c \in s /\ Sum[s] = f[c] + Sum[s \ {c}]
    <3>1. \A z \in s : f[z] \in Int
      OBVIOUS
    <3>2. IsFiniteSet(s) /\ s # {}
      BY <1>1, <2>2
    <3>3. c \in s /\ s \ {c} \in SUBSET S
      BY <2>3, <3>2, PickedIn
    <3>4. SumFunctionOnSet(f, s) = f[c] + SumFunctionOnSet(f, s \ {c})
      BY <2>3, <3>1, <3>2, SumPicked
    <3>5. QED
      BY <1>1, <3>3, <3>4
  <2>5. x # c
    BY <2>2, <2>4
  <2>6. Sum[s \ {c}] = f[x] + Sum[(s \ {c}) \ {x}]
    <3>1. s \ {c} \notin Bad
      BY <2>1, <2>4
    <3>2. QED
      BY <3>1, <2>2, <2>5
  <2>7. Sum[s \ {x}] = f[c] + Sum[(s \ {x}) \ {c}]
    <3>1. s \ {x} \notin Bad
      BY <2>1, <2>2
    <3>2. QED
      BY <3>1, <2>4, <2>5
  <2>8. (s \ {x}) \ {c} = (s \ {c}) \ {x}
    OBVIOUS
  <2>9. /\ f[x] \in Int /\ f[c] \in Int
        /\ Sum[(s \ {c}) \ {x}] \in Int
    BY <1>1, <2>2, <2>4
  <2>10. PICK rest \in Int : rest = Sum[(s \ {c}) \ {x}]
    BY <2>9
  <2>11. Sum[s \ {x}] = f[c] + rest
    BY <2>7, <2>8, <2>10, Zenon
  <2>12. Sum[s] = f[c] + (f[x] + rest)
    BY <2>4, <2>6, <2>10, Zenon
  <2>13. f[c] + (f[x] + rest) = f[x] + (f[c] + rest)
    BY <2>9
  <2>14. QED
    BY <2>2, <2>11, <2>12, <2>13, Zenon
<1>3. S \notin Bad /\ S \in SUBSET S /\ S \ {a} \in SUBSET S
  BY <1>2
<1>4. Sum[S] = f[a] + Sum[S \ {a}]
  BY <1>3
<1>5. QED
  BY <1>1, <1>3, <1>4

(* A sum of ones counts.                                                   *)
LEMMA SumOfOnes ==
    ASSUME NEW S, IsFiniteSet(S), NEW f, \A x \in S : f[x] = 1
    PROVE  SumFunctionOnSet(f, S) = Cardinality(S)
<1> DEFINE Bad == {s \in SUBSET S : SumFunctionOnSet(f, s) # Cardinality(s)}
<1>1. Bad = {}
  <2> SUFFICES ASSUME Bad # {} PROVE FALSE
    OBVIOUS
  <2>1. PICK s \in Bad : \A y \in Bad : y \subseteq s => y = s
    <3>1. Bad \in SUBSET (SUBSET S)
      OBVIOUS
    <3> HIDE DEF Bad
    <3>2. QED
      BY <3>1, LeastSet
  <2>2. s # {}
    BY SumNothing, FS_EmptySet
  <2>3. /\ Picked(s) \in s
        /\ s \ {Picked(s)} # s
        /\ Cardinality(s) \in Nat
        /\ Cardinality(s \ {Picked(s)}) = Cardinality(s) - 1
    BY <2>2, PickedIn
  <2>4. SumFunctionOnSet(f, s \ {Picked(s)}) = Cardinality(s) - 1
    BY <2>1, <2>3
  <2>5. IsFiniteSet(s)
    BY FS_Subset
  <2>6. SumFunctionOnSet(f, s) =
          f[Picked(s)] + SumFunctionOnSet(f, s \ {Picked(s)})
    BY <2>2, <2>5, SumPicked
  <2>7. f[Picked(s)] = 1
    BY <2>3
  <2>8. QED
    BY <2>3, <2>4, <2>6, <2>7
<1>2. QED
  BY <1>1
-----------------------------------------------------------------------------
(* What the transactions are asked to do, and which locks they need.       *)

LEMMA IdFacts == /\ \A p \in Tables : p \in Pages /\ p \notin Symbols
                 /\ "portfolios" \in Tables /\ "byAccount" \in Tables
                 /\ Symbols \subseteq Pages
                 /\ Quoted \subseteq Symbols
                 /\ MaxIds \in Nat
                 /\ Ids = 0 .. MaxIds - 1
                 /\ NoTxn \notin Txns
                 /\ "none" \notin Accounts
BY TradeAssumption DEF Tables, Pages, Ids

LEMMA JobFacts ==
    ASSUME Types, NEW t \in Txns
    PROVE  /\ Kind(t) \in {"purchase", "sale", "viewStock", "viewPortfolio",
                           "refresh"}
           /\ Len(Orders(t)) \in Nat \ {0}
           /\ DOMAIN Orders(t) = 1 .. Len(Orders(t))
           /\ \A i \in DOMAIN Orders(t) : /\ Orders(t)[i].symbol \in Symbols
                                          /\ Orders(t)[i].amount \in Int
                                          /\ Orders(t)[i].price \in Int
<1>1. job \in Plans
  BY DEF Types
<1>2. IsJob(job[t])
  BY <1>1, PlansAssumption
<1>3. QED
  BY <1>2 DEF IsJob, IsOrder, Kind, Orders

LEMMA OrderFacts ==
    ASSUME Types, NEW t \in Txns, AtOrder(t)
    PROVE  /\ Order(t) = Orders(t)[pos[t]]
           /\ pos[t] \in DOMAIN Orders(t)
           /\ pos[t] \in Nat /\ pos[t] >= 1 /\ pos[t] <= Len(Orders(t))
           /\ Order(t).symbol \in Symbols
           /\ Order(t).symbol \in Pages
           /\ Order(t).symbol \notin Tables
           /\ Order(t).amount \in Int
<1>1. pos[t] \in DOMAIN Orders(t)
  BY DEF AtOrder
<1>2. Order(t) = Orders(t)[pos[t]]
  BY DEF Order, Orders
<1>3. pos[t] \in 1 .. Len(Orders(t)) /\ Len(Orders(t)) \in Nat
  BY <1>1, JobFacts
<1>4. Order(t).symbol \in Symbols /\ Order(t).amount \in Int
  BY <1>1, <1>2, JobFacts
<1>5. QED
  BY <1>1, <1>2, <1>3, <1>4, IdFacts

LEMMA Touches ==
    ASSUME NEW t \in Txns
    PROVE  /\ pc[t] \in {"lookup", "viewPortfolio"} => Reads(t) = Tables
           /\ pc[t] = "read" => Reads(t) = {"portfolios"}
           /\ pc[t] \in {"price", "viewStock"} => Reads(t) = {Order(t).symbol}
           /\ pc[t] = "write" => Writes(t) = {"portfolios"}
           /\ pc[t] = "insert" => Writes(t) = Tables
           /\ pc[t] = "refresh" => Writes(t) = {Order(t).symbol}
BY DEF Reads, Writes

LEMMA NoConflict ==
    ASSUME Types, NEW t \in Txns, Granted(t), NEW p \in Pages
    PROVE  /\ p \in Reads(t) \cup Writes(t) => writer[p] \in {t, NoTxn}
           /\ p \in Writes(t) => readers[p] \subseteq {t}
<1>1. writer[p] \in Txns \cup {NoTxn} /\ readers[p] \subseteq Txns
  BY DEF Types
<1>2. \A u \in Txns : u # t => /\ ~(\E q \in Reads(t) \cup Writes(t) :
                                       writer[q] = u)
                               /\ ~(\E q \in Writes(t) : u \in readers[q])
  BY DEF Granted, WaitsFor
<1>3. QED
  BY <1>1, <1>2

(* Locks that are granted.                                                 *)
LEMMA GrantedAt ==
    ASSUME Types, NEW t \in Txns, AtOrder(t), Granted(t)
    PROVE  /\ pc[t] = "lookup" => \A p \in Tables : writer[p] \in {t, NoTxn}
           /\ pc[t] = "read" => writer["portfolios"] \in {t, NoTxn}
           /\ pc[t] = "price" => writer[Order(t).symbol] \in {t, NoTxn}
           /\ pc[t] = "write" => /\ writer["portfolios"] \in {t, NoTxn}
                                 /\ readers["portfolios"] \subseteq {t}
           /\ pc[t] = "insert" => \A p \in Tables :
                                     /\ writer[p] \in {t, NoTxn}
                                     /\ readers[p] \subseteq {t}
           /\ pc[t] = "refresh" => /\ writer[Order(t).symbol] \in {t, NoTxn}
                                   /\ readers[Order(t).symbol] \subseteq {t}
<1>1. Order(t).symbol \in Pages
  BY OrderFacts
<1>2. \A p \in Pages : /\ p \in Reads(t) \cup Writes(t)
                             => writer[p] \in {t, NoTxn}
                       /\ p \in Writes(t) => readers[p] \subseteq {t}
  BY NoConflict
<1>3. QED
  BY <1>1, <1>2, Touches, IdFacts

(* A row that a transaction is at is one, with the key of its order.       *)
LEMMA RowFacts ==
    ASSUME Types, NEW t \in Txns, AtOrder(t), RowStays(t), HasRow(t)
    PROVE  /\ row[t] \in Ids
           /\ portfolio[row[t]] \in Rows
           /\ portfolio[row[t]].account = Order(t).account
           /\ portfolio[row[t]].symbol = Order(t).symbol
<1>1. row[t] \in 0 .. MaxIds /\ row[t] # MaxIds
  BY DEF Types, HasRow, AtOrder
<1>2. row[t] \in Ids
  BY <1>1, IdFacts
<1>3. KeyOf(portfolio[row[t]]) = KeyOf(Order(t))
  BY DEF RowStays
<1>4. /\ portfolio[row[t]].account = Order(t).account
      /\ portfolio[row[t]].symbol = Order(t).symbol
  BY <1>3 DEF KeyOf
<1>5. Order(t).account \in Accounts
  BY DEF HasRow, AtOrder, OrderLabels, Known
<1>6. portfolio[row[t]] # Absent
  BY <1>4, <1>5, IdFacts DEF Absent
<1>7. portfolio[row[t]] \in Rows \cup {Absent}
  BY <1>2 DEF Types, PortfolioTables
<1>8. QED
  BY <1>2, <1>4, <1>6, <1>7

(* Sums and sizes are numbers.                                             *)
LEMMA PresentNumber == Cardinality(Present) \in 0 .. MaxIds
<1>1. IsFiniteSet(Ids) /\ Cardinality(Ids) = MaxIds
  BY IdFacts, FS_Interval
<1>2. Present \in SUBSET Ids
  BY DEF Present
<1>3. IsFiniteSet(Present) /\ Cardinality(Present) <= MaxIds
  BY <1>1, <1>2, FS_Subset
<1>4. Cardinality(Present) \in Nat
  BY <1>3, FS_CardinalityType
<1>5. QED
  BY <1>3, <1>4, IdFacts

LEMMA OrdersSum ==
    ASSUME Types, NEW t \in Txns, NEW I \in SUBSET (DOMAIN Orders(t))
    PROVE  /\ IsFiniteSet(I)
           /\ \A i \in I : Amounts(t)[i] \in Int
           /\ SumFunctionOnSet(Amounts(t), I) \in Int
<1>1. IsFiniteSet(DOMAIN Orders(t))
  BY JobFacts, FS_Interval
<1>2. IsFiniteSet(I)
  BY <1>1, FS_Subset
<1>3. \A i \in I : Amounts(t)[i] \in Int
  BY JobFacts DEF Amounts
<1>4. QED
  BY <1>2, <1>3, SumNumber

LEMMA TradedIs ==
    ASSUME NEW t \in Txns, NEW k
    PROVE  LET total == SumFunctionOnSet(Amounts(t), Mine(t, k))
           IN /\ Kind(t) = "purchase" => Traded(t, k) = total
              /\ Kind(t) = "sale" => Traded(t, k) = -total
              /\ ~Trading(t) => Traded(t, k) = 0
BY DEF Traded, Amounts, Mine, KeyOf, Orders, Trading

LEMMA TradedNumber ==
    ASSUME Types, NEW t \in Txns, NEW k
    PROVE  Traded(t, k) \in Int
<1>1. SumFunctionOnSet(Amounts(t), Mine(t, k)) \in Int
  <2>1. Mine(t, k) \in SUBSET (DOMAIN Orders(t))
    BY DEF Mine
  <2>2. QED
    BY <2>1, OrdersSum
<1>2. QED
  BY <1>1, TradedIs DEF Trading
-----------------------------------------------------------------------------
(* What the steps that write do to the portfolios.                         *)

LEMMA RowFields ==
    ASSUME NEW r \in Rows, NEW x \in Int
    PROVE  /\ [r EXCEPT !.hold = x] \in Rows
           /\ [r EXCEPT !.hold = x].account = r.account
           /\ [r EXCEPT !.hold = x].symbol = r.symbol
           /\ [r EXCEPT !.hold = x].hold = x
BY DEF Rows

(* What an order adds to a row.                                            *)
Change(t) == IF Kind(t) = "purchase" THEN Order(t).amount
                                     ELSE -Order(t).amount

LEMMA RowWritten ==
    ASSUME Types, NEW t \in Txns, AtOrder(t), RowStays(t), WriteRow(t)
    PROVE  /\ portfolio' \in PortfolioTables
           /\ row[t] \in Ids
           /\ \A id \in Ids \ {row[t]} : portfolio'[id] = portfolio[id]
           /\ portfolio'[row[t]] \in Rows
           /\ portfolio'[row[t]].account = portfolio[row[t]].account
           /\ portfolio'[row[t]].symbol = portfolio[row[t]].symbol
           /\ portfolio'[row[t]].hold = portfolio[row[t]].hold + Change(t)
<1>1. pc[t] = "write" /\ HasRow(t)
  BY DEF WriteRow, HasRow
<1>2. row[t] \in Ids /\ portfolio[row[t]] \in Rows
  BY <1>1, RowFacts
<1>3. held[t] = portfolio[row[t]].hold /\ portfolio[row[t]].hold \in Int
  BY <1>1, <1>2 DEF RowStays, Rows
<1>4. Change(t) \in Int
  BY OrderFacts DEF Change
<1>5. portfolio' = [portfolio EXCEPT ![row[t]] =
                      [portfolio[row[t]] EXCEPT !.hold = held[t] + Change(t)]]
  BY DEF WriteRow, Change
<1>6. PICK x \in Int : x = held[t] + Change(t)
  BY <1>3, <1>4
<1>7. PICK r : r = [portfolio[row[t]] EXCEPT !.hold = x]
  OBVIOUS
<1>8. /\ r \in Rows
       /\ r.account = portfolio[row[t]].account
       /\ r.symbol = portfolio[row[t]].symbol
       /\ r.hold = x
  BY <1>2, <1>7, RowFields
<1>9. portfolio' = [portfolio EXCEPT ![row[t]] = r]
  BY <1>5, <1>6, <1>7
<1>10. portfolio \in [Ids -> Rows \cup {Absent}]
  BY DEF Types, PortfolioTables
<1>11. portfolio'[row[t]] = r
  BY <1>2, <1>9, <1>10
<1>12. QED
  BY <1>2, <1>3, <1>6, <1>9, <1>10, <1>11, <1>8 DEF PortfolioTables

LEMMA RowInserted ==
    ASSUME Types, NEW t \in Txns, AtOrder(t), Insert(t)
    PROVE  /\ portfolio' \in PortfolioTables
           /\ row[t] \in Ids
           /\ \/ /\ portfolio' = portfolio
                 /\ pc' = [pc EXCEPT ![t] = "abort"]
                 /\ pos' = pos
              \/ /\ NextOrder(t, "lookup")
                 /\ portfolio[row[t]] = Absent
                 /\ \A id \in Ids \ {row[t]} : portfolio'[id] = portfolio[id]
                 /\ portfolio'[row[t]] \in Rows
                 /\ portfolio'[row[t]].account = Order(t).account
                 /\ portfolio'[row[t]].symbol = Order(t).symbol
                 /\ portfolio'[row[t]].hold = Order(t).amount
<1>1. pc[t] = "insert" /\ row[t] # MaxIds /\ row[t] \in 0 .. MaxIds
  BY DEF Insert, AtOrder, Types
<1>2. row[t] \in Ids
  BY <1>1, IdFacts
<1>3. portfolio \in [Ids -> Rows \cup {Absent}]
  BY DEF Types, PortfolioTables
<1>4. CASE row[t] \in Present /\ GoTo(t, "abort") /\ UNCHANGED <<portfolio, pos>>
  BY <1>2, <1>3, <1>4 DEF GoTo, PortfolioTables
<1>5. CASE /\ row[t] \notin Present
           /\ portfolio' = [portfolio EXCEPT ![row[t]] =
                              [account |-> Order(t).account,
                               symbol |-> Order(t).symbol,
                               hold |-> Order(t).amount]]
           /\ NextOrder(t, "lookup")
  <2>1. portfolio[row[t]] = Absent
    BY <1>2, <1>5 DEF Present
  <2>2. PICK r : r = [account |-> Order(t).account,
                      symbol |-> Order(t).symbol,
                      hold |-> Order(t).amount]
    OBVIOUS
  <2>3. /\ r \in Rows
        /\ r.account = Order(t).account
        /\ r.symbol = Order(t).symbol
        /\ r.hold = Order(t).amount
    <3>1. Order(t).account \in Accounts
      BY <1>1 DEF AtOrder, OrderLabels, Known
    <3>2. QED
      BY <2>2, <3>1, OrderFacts DEF Rows
  <2>4. portfolio' = [portfolio EXCEPT ![row[t]] = r]
    BY <1>5, <2>2
  <2>5. QED
    BY <1>2, <1>3, <1>5, <2>1, <2>3, <2>4 DEF PortfolioTables
<1>6. QED
  BY <1>4, <1>5 DEF Insert

LEMMA SavedBefore ==
    ASSUME Types, NEW t \in Txns, SaveBefore(t)
    PROVE  /\ before' \in [Txns -> PortfolioTables]
           /\ \A u \in Txns : u # t => before'[u] = before[u]
           /\ writer["portfolios"] = t => before'[t] = before[t]
           /\ writer["portfolios"] # t => before'[t] = portfolio
BY DEF SaveBefore, Types

LEMMA Moved ==
    ASSUME Types, NEW t \in Txns, AtOrder(t), NEW label, NextOrder(t, label)
    PROVE  /\ \/ /\ pos[t] < Len(Orders(t))
                 /\ pos' = [pos EXCEPT ![t] = pos[t] + 1]
                 /\ pc' = [pc EXCEPT ![t] = label]
              \/ /\ pos[t] = Len(Orders(t))
                 /\ pos' = pos
                 /\ pc' = [pc EXCEPT ![t] = "commit"]
           /\ pos' \in [Txns -> Nat]
<1>1. pos[t] \in Nat /\ pos[t] <= Len(Orders(t)) /\ Len(Orders(t)) \in Nat
  BY OrderFacts, JobFacts
<1>2. pos \in [Txns -> Nat]
  BY DEF Types
<1>3. CASE pos[t] < Len(Orders(t))
  BY <1>1, <1>2, <1>3 DEF NextOrder, GoTo, Orders
<1>4. CASE ~(pos[t] < Len(Orders(t)))
  BY <1>1, <1>2, <1>4 DEF NextOrder, GoTo, Orders
<1>5. QED
  BY <1>3, <1>4

LEMMA MovedTypes ==
    ASSUME Types, NEW t \in Txns, AtOrder(t),
           NEW label \in {"lookup", "viewStock", "viewPortfolio"},
           NextOrder(t, label)
    PROVE  pc' \in [Txns -> Labels] /\ pos' \in [Txns -> Nat]
<1>1. pos' \in [Txns -> Nat]
  BY Moved
<1>2. \/ pc' = [pc EXCEPT ![t] = label]
      \/ pc' = [pc EXCEPT ![t] = "commit"]
  BY Moved
<1>3. label \in Labels /\ "commit" \in Labels /\ pc \in [Txns -> Labels]
  BY DEF Types, Labels
<1>4. QED
  BY <1>1, <1>2, <1>3
LEMMA Released ==
    ASSUME Types, NEW t \in Txns, Release(t)
    PROVE  /\ readers' \in [Pages -> SUBSET Txns]
           /\ writer' \in [Pages -> Txns \cup {NoTxn}]
           /\ \A p \in Pages : /\ readers'[p] = readers[p] \ {t}
                               /\ writer'[p] = IF writer[p] = t THEN NoTxn
                                                                ELSE writer[p]
BY DEF Release, WithoutReader, Types
-----------------------------------------------------------------------------
(* What a transaction may do.  Views that find what they look for or take  *)
(* no notice of a failure go on, and whatever fails gives up.              *)

Viewing(t) == /\ pc[t] \in {"viewStock", "viewPortfolio"}
              /\ pc[t] = "viewStock" => Order(t).symbol \in Quoted
              /\ NextView(t)

GivesUp(t) == /\ pc[t] \notin {"idle", "commit", "abort", "done"}
              /\ Fails(t)

Act(t) == Step(t) \/ LockFails(t)

LEMMA NextActs ==
    ASSUME Next
    PROVE  (\E t \in Txns : Act(t)) \/ Restart
BY DEF Next, Act, Deadlock, LockTimeout

(* A wait is a wait for a page.                                            *)
LEMMA WaitsAt ==
    ASSUME NEW t \in Txns, NEW u \in Txns, WaitsFor(t, u)
    PROVE  /\ pc[t] \in {"lookup", "read", "price", "viewStock",
                         "viewPortfolio", "write", "insert", "refresh"}
           /\ \E p \in Reads(t) \cup Writes(t) : writer[p] = u
                                                 \/ u \in readers[p]
BY DEF WaitsFor, Reads, Writes

LEMMA ActCases ==
    ASSUME NEW t \in Txns, Act(t)
    PROVE  \/ Start(t) \/ Lookup(t) \/ ReadRow(t) \/ CheckPrice(t)
           \/ WriteRow(t) \/ TakeId(t) \/ Insert(t)
           \/ Viewing(t)
           \/ RefreshGet(t) \/ RefreshPut(t) \/ Commit(t) \/ Abort(t)
           \/ GivesUp(t)
<1>1. CASE LockFails(t)
  <2>1. pc[t] \notin {"idle", "commit", "abort", "done"}
    BY <1>1, WaitsAt DEF LockFails, Granted
  <2>2. QED
    BY <1>1, <2>1 DEF LockFails, GivesUp, Viewing
<1>2. CASE ViewStock(t) \/ ViewPortfolio(t)
  BY <1>2 DEF ViewStock, ViewPortfolio, Viewing
<1>3. CASE NoQuote(t)
  BY <1>3 DEF NoQuote, GivesUp
<1>4. QED
  BY <1>1, <1>2, <1>3 DEF Act, Step, PlaceOrder, RefreshQuotes
-----------------------------------------------------------------------------
(* Every step keeps the types, ...                                         *)
LEMMA TypesStep == IInv /\ [Next]_vars => Types'
<1> SUFFICES ASSUME IInv, [Next]_vars PROVE Types'
  OBVIOUS
<1> USE DEF GoTo, Labels
<1>1. Types /\ \A t \in Txns : AtOrder(t) /\ RowStays(t)
  BY DEF IInv
<1>2. ASSUME NEW t \in Txns, Start(t) PROVE Types'
  BY <1>1, <1>2, JobFacts DEF Start, Types, tables, locks
<1>3. ASSUME NEW t \in Txns, Lookup(t) PROVE Types'
  <2>1. MaxIds \in 0 .. MaxIds /\ Ids \subseteq 0 .. MaxIds
    BY IdFacts
  <2>2. CASE Unknown(t)
    BY <1>1, <1>3, <2>2 DEF Lookup, Unknown, Types, tables, locks
  <2>3. CASE NotFound(t)
    BY <1>1, <1>3, <2>1, <2>3 DEF Lookup, NotFound, Types, tables, locks
  <2>4. CASE Found(t)
    <3>1. PICK id \in Matches(Order(t)) :
            /\ row' = [row EXCEPT ![t] = id]
            /\ IF Kind(t) = "sale" /\ portfolio[id].hold < Order(t).amount
               THEN GoTo(t, "abort") /\ UNCHANGED readers
               ELSE GoTo(t, "read") /\ Locking(t, "byAccount")
      BY <2>4 DEF Found
    <3>2. id \in 0 .. MaxIds
      BY <2>1 DEF Matches, Present
    <3>3. row' \in [Txns -> 0 .. MaxIds]
      BY <1>1, <3>1, <3>2 DEF Types
    <3>4. readers' \in [Pages -> SUBSET Txns]
      <4>1. "byAccount" \in Pages /\ readers \in [Pages -> SUBSET Txns]
        BY <1>1, IdFacts DEF Types
      <4>2. Locking(t, "byAccount") => readers' \in [Pages -> SUBSET Txns]
        BY <4>1 DEF Locking
      <4>3. QED
        BY <3>1, <4>1, <4>2
    <3>5. pc' \in [Txns -> Labels]
      BY <1>1, <3>1 DEF Types
    <3>6. QED
      BY <1>1, <1>3, <3>3, <3>4, <3>5 DEF Lookup, Types, tables
  <2>5. QED
    BY <1>3, <2>2, <2>3, <2>4 DEF Lookup
<1>4. ASSUME NEW t \in Txns, ReadRow(t) PROVE Types'
  <2>1. HasRow(t)
    BY <1>4 DEF ReadRow, HasRow
  <2>2. portfolio[row[t]].hold \in Int
    BY <1>1, <2>1, RowFacts DEF Rows
  <2>3. held' \in [Txns -> Int] /\ readers' \in [Pages -> SUBSET Txns]
    BY <1>1, <1>4, <2>2, IdFacts DEF ReadRow, Locking, Types
  <2>4. QED
    BY <1>1, <1>4, <2>3 DEF ReadRow, Types, tables
<1>5. ASSUME NEW t \in Txns, CheckPrice(t) PROVE Types'
  <2>1. readers' \in [Pages -> SUBSET Txns]
    BY <1>1, <1>5, OrderFacts DEF CheckPrice, ReadQuote, Locking, Types
  <2>2. pc' \in [Txns -> Labels]
    BY <1>1, <1>5 DEF CheckPrice, Types
  <2>3. QED
    BY <1>1, <1>5, <2>1, <2>2 DEF CheckPrice, Types, tables
<1>6. ASSUME NEW t \in Txns, WriteRow(t) PROVE Types'
  <2>1. NextOrder(t, "lookup") /\ SaveBefore(t)
    BY <1>6 DEF WriteRow
  <2>2. /\ writer' \in [Pages -> Txns \cup {NoTxn}]
        /\ readers' \in [Pages -> SUBSET Txns]
    BY <1>1, <1>6 DEF WriteRow, WithoutReader, Types
  <2>3. pc' \in [Txns -> Labels] /\ pos' \in [Txns -> Nat]
    BY <1>1, <2>1, MovedTypes
  <2>4. QED
    BY <1>1, <1>6, <2>1, <2>2, <2>3, RowWritten, SavedBefore
       DEF WriteRow, Types
<1>7. ASSUME NEW t \in Txns, TakeId(t) PROVE Types'
  <2>1. nextId + 1 \in 0 .. MaxIds /\ nextId \in 0 .. MaxIds
    BY <1>1, <1>7, IdFacts DEF TakeId, Types
  <2>2. QED
    BY <1>1, <1>7, <2>1 DEF TakeId, Types, locks
<1>8. ASSUME NEW t \in Txns, Insert(t) PROVE Types'
  <2>1. SaveBefore(t)
    BY <1>8 DEF Insert
  <2>2. writer' \in [Pages -> Txns \cup {NoTxn}]
    BY <1>1, <1>8 DEF Insert, Types
  <2>3. pc' \in [Txns -> Labels] /\ pos' \in [Txns -> Nat]
    <3>1. pc \in [Txns -> Labels] /\ pos \in [Txns -> Nat]
      BY <1>1 DEF Types
    <3>2. CASE NextOrder(t, "lookup")
      BY <1>1, <3>2, MovedTypes
    <3>3. CASE pc' = [pc EXCEPT ![t] = "abort"] /\ pos' = pos
      BY <3>1, <3>3
    <3>4. QED
      BY <1>1, <1>8, <3>2, <3>3, RowInserted
  <2>4. QED
    BY <1>1, <1>8, <2>1, <2>2, <2>3, RowInserted, SavedBefore
       DEF Insert, Types
<1>9. ASSUME NEW t \in Txns, Viewing(t) PROVE Types'
  <2>1. pc[t] \in {"viewStock", "viewPortfolio"} /\ NextOrder(t, pc[t])
    BY <1>9 DEF Viewing, NextView
  <2>2. pc' \in [Txns -> Labels] /\ pos' \in [Txns -> Nat]
    BY <1>1, <2>1, MovedTypes
  <2>3. QED
    BY <1>1, <1>9, <2>2
       DEF Viewing, NextView, Types, tables, locks
<1>10. ASSUME NEW t \in Txns, RefreshGet(t) PROVE Types'
  BY <1>1, <1>10 DEF RefreshGet, Types, tables
<1>11. ASSUME NEW t \in Txns, RefreshPut(t) PROVE Types'
  BY <1>1, <1>11 DEF RefreshPut, Types, locks
<1>12. ASSUME NEW t \in Txns, Commit(t) PROVE Types'
  <2>1. Release(t)
    BY <1>12 DEF Commit
  <2>2. \A k \in Keys : Traded(t, k) \in Int
    BY <1>1, TradedNumber
  <2>3. ledger' \in [Keys -> Int]
    BY <1>1, <1>12, <2>2 DEF Commit, Types
  <2>4. QED
    BY <1>1, <1>12, <2>1, <2>3, Released DEF Commit, Types, tables
<1>13. ASSUME NEW t \in Txns, Abort(t) PROVE Types'
  <2>1. Release(t)
    BY <1>13 DEF Abort
  <2>2. portfolio' \in PortfolioTables
    BY <1>1, <1>13 DEF Abort, Types
  <2>3. QED
    BY <1>1, <1>13, <2>1, <2>2, Released DEF Abort, Types
<1>14. ASSUME NEW t \in Txns, GivesUp(t) PROVE Types'
  BY <1>1, <1>14 DEF GivesUp, Fails, Types, tables, locks
<1>15. ASSUME Restart PROVE Types'
  BY <1>1, <1>15, PresentNumber DEF Restart, Types, locks
<1>16. CASE UNCHANGED vars
  BY <1>1, <1>16 DEF Types, vars, tables, locks
<1>17. QED
  BY <1>2, <1>3, <1>4, <1>5, <1>6, <1>7, <1>8, <1>9, <1>10, <1>11, <1>12,
     <1>13, <1>14, <1>15, <1>16, NextActs, ActCases
-----------------------------------------------------------------------------
(* What a step of a transaction leaves to the others.                      *)

Elsewhere(t) == \A u \in Txns : u # t => /\ pc'[u] = pc[u]
                                         /\ pos'[u] = pos[u]
                                         /\ row'[u] = row[u]
                                         /\ held'[u] = held[u]
                                         /\ before'[u] = before[u]

LEMMA OthersStay ==
    ASSUME IInv, NEW t \in Txns, Act(t)
    PROVE  Elsewhere(t) /\ job' = job
<1> USE DEF GoTo, Elsewhere, Types
<1>1. Types /\ AtOrder(t)
  BY DEF IInv
<1>2. CASE Start(t)
  BY <1>1, <1>2 DEF Start
<1>3. CASE Lookup(t)
  BY <1>1, <1>3 DEF Lookup, Unknown, NotFound, Found
<1>4. CASE ReadRow(t)
  BY <1>1, <1>4 DEF ReadRow
<1>5. CASE CheckPrice(t)
  BY <1>1, <1>5 DEF CheckPrice
<1>6. CASE WriteRow(t)
  <2>1. NextOrder(t, "lookup") /\ SaveBefore(t)
    BY <1>6 DEF WriteRow
  <2>2. \A u \in Txns : u # t => pc'[u] = pc[u] /\ pos'[u] = pos[u]
    BY <1>1, <2>1, Moved
  <2>3. \A u \in Txns : u # t => before'[u] = before[u]
    BY <1>1, <2>1, SavedBefore
  <2>4. QED
    BY <1>6, <2>2, <2>3 DEF WriteRow
<1>7. CASE TakeId(t)
  BY <1>1, <1>7 DEF TakeId
<1>8. CASE Insert(t)
  <2>1. SaveBefore(t)
    BY <1>8 DEF Insert
  <2>2. \A u \in Txns : u # t => before'[u] = before[u]
    BY <1>1, <2>1, SavedBefore
  <2>3. \A u \in Txns : u # t => pc'[u] = pc[u] /\ pos'[u] = pos[u]
    <3>1. CASE NextOrder(t, "lookup")
      BY <1>1, <3>1, Moved
    <3>2. CASE pc' = [pc EXCEPT ![t] = "abort"] /\ pos' = pos
      BY <1>1, <3>2
    <3>3. QED
      BY <1>1, <1>8, <3>1, <3>2, RowInserted
  <2>4. QED
    BY <1>8, <2>2, <2>3 DEF Insert
<1>9. CASE Viewing(t)
  <2>1. NextOrder(t, pc[t])
    BY <1>9 DEF Viewing, NextView
  <2>2. \A u \in Txns : u # t => pc'[u] = pc[u] /\ pos'[u] = pos[u]
    BY <1>1, <2>1, Moved
  <2>3. QED
    BY <1>9, <2>2 DEF Viewing, NextView
<1>10. CASE RefreshGet(t)
  BY <1>1, <1>10 DEF RefreshGet
<1>11. CASE RefreshPut(t)
  BY <1>1, <1>11 DEF RefreshPut
<1>12. CASE Commit(t)
  BY <1>1, <1>12 DEF Commit
<1>13. CASE Abort(t)
  BY <1>1, <1>13 DEF Abort
<1>14. CASE GivesUp(t)
  BY <1>1, <1>14 DEF GivesUp, Fails
<1>15. QED
  BY <1>2, <1>3, <1>4, <1>5, <1>6, <1>7, <1>8, <1>9, <1>10, <1>11, <1>12,
     <1>13, <1>14, ActCases

(* No step takes a lock from another transaction, or gives it one; and     *)
(* what it locks itself is free.                                           *)
LocksElsewhere(t) ==
    \A p \in Pages : \A u \in Txns :
       u # t => /\ u \in readers'[p] <=> u \in readers[p]
                /\ writer'[p] = u <=> writer[p] = u

LEMMA LocksOfOthers ==
    ASSUME IInv, NEW t \in Txns, Act(t)
    PROVE  LocksElsewhere(t) /\ Exclusive'
<1> USE DEF LocksElsewhere, Exclusive
<1>1. Types /\ AtOrder(t) /\ Exclusive
  BY DEF IInv
<1>2. ASSUME UNCHANGED <<readers, writer>>
      PROVE  LocksElsewhere(t) /\ Exclusive'
  BY <1>1, <1>2
<1>3. ASSUME NEW p \in Pages, writer[p] \in {t, NoTxn}, Locking(t, p),
             writer' = writer
      PROVE  LocksElsewhere(t) /\ Exclusive'
  <2>1. /\ readers' = [readers EXCEPT ![p] = readers[p] \cup {t}]
        /\ readers \in [Pages -> SUBSET Txns]
    BY <1>1, <1>3 DEF Locking, Types
  <2>2. \A q \in Pages : readers'[q] = IF q = p THEN readers[q] \cup {t}
                                       ELSE readers[q]
    BY <2>1
  <2>3. QED
    BY <1>1, <1>3, <2>2
<1>4. CASE Start(t)
  BY <1>2, <1>4 DEF Start, locks
<1>5. CASE Lookup(t)
  <2>1. CASE UNCHANGED readers
    BY <1>2, <1>5, <2>1 DEF Lookup
  <2>2. CASE Found(t) /\ Locking(t, "byAccount")
    <3>1. writer["byAccount"] \in {t, NoTxn} /\ "byAccount" \in Pages
      BY <1>1, <2>2, GrantedAt, IdFacts DEF Found
    <3>2. QED
      BY <1>3, <1>5, <2>2, <3>1 DEF Lookup
  <2>3. QED
    BY <1>5, <2>1, <2>2 DEF Lookup, Unknown, NotFound, Found
<1>6. CASE ReadRow(t)
  <2>1. writer["portfolios"] \in {t, NoTxn} /\ "portfolios" \in Pages
    BY <1>1, <1>6, GrantedAt, IdFacts DEF ReadRow
  <2>2. QED
    BY <1>3, <1>6, <2>1 DEF ReadRow
<1>7. CASE CheckPrice(t)
  <2>1. writer[Order(t).symbol] \in {t, NoTxn} /\ Order(t).symbol \in Pages
    BY <1>1, <1>7, GrantedAt, OrderFacts DEF CheckPrice
  <2>2. QED
    BY <1>3, <1>7, <2>1 DEF CheckPrice, ReadQuote
<1>8. CASE WriteRow(t)
  <2>1. /\ "portfolios" \in Pages
        /\ writer["portfolios"] \in {t, NoTxn}
        /\ readers["portfolios"] \subseteq {t}
    BY <1>1, <1>8, GrantedAt, IdFacts DEF WriteRow
  <2>2. \A p \in Pages : /\ writer'[p] = IF p = "portfolios" THEN t
                                         ELSE writer[p]
                         /\ readers'[p] = IF p \in Tables
                                          THEN readers[p] \ {t}
                                          ELSE readers[p]
    BY <1>1, <1>8 DEF WriteRow, WithoutReader, Types
  <2>3. QED
    BY <1>1, <2>1, <2>2, IdFacts
<1>9. CASE TakeId(t)
  BY <1>2, <1>9 DEF TakeId, locks
<1>10. CASE Insert(t)
  <2>1. \A p \in Tables : /\ writer[p] \in {t, NoTxn}
                          /\ readers[p] \subseteq {t}
    BY <1>1, <1>10, GrantedAt DEF Insert
  <2>2. \A p \in Pages : /\ writer'[p] = IF p \in Tables THEN t ELSE writer[p]
                         /\ readers'[p] = readers[p]
    BY <1>1, <1>10 DEF Insert, Types
  <2>3. QED
    BY <1>1, <2>1, <2>2, IdFacts
<1>11. CASE Viewing(t)
  BY <1>2, <1>11 DEF Viewing, NextView, locks
<1>12. CASE RefreshGet(t)
  <2>1. /\ Order(t).symbol \in Pages
        /\ writer[Order(t).symbol] \in {t, NoTxn}
        /\ readers[Order(t).symbol] \subseteq {t}
    BY <1>1, <1>12, GrantedAt, OrderFacts DEF RefreshGet
  <2>2. \A p \in Pages : /\ writer'[p] = IF p = Order(t).symbol THEN t
                                         ELSE writer[p]
                         /\ readers'[p] = readers[p]
    BY <1>1, <1>12 DEF RefreshGet, Types
  <2>3. QED
    BY <1>1, <2>1, <2>2, IdFacts
<1>13. CASE RefreshPut(t)
  BY <1>2, <1>13 DEF RefreshPut, locks
<1>14. CASE Commit(t) \/ Abort(t)
  <2>1. \A p \in Pages : /\ readers'[p] = readers[p] \ {t}
                         /\ writer'[p] = IF writer[p] = t THEN NoTxn
                                                          ELSE writer[p]
    BY <1>1, <1>14, Released DEF Commit, Abort
  <2>2. QED
    BY <1>1, <2>1, IdFacts
<1>15. CASE GivesUp(t)
  BY <1>2, <1>15 DEF GivesUp, Fails, locks
<1>16. QED
  BY <1>4, <1>5, <1>6, <1>7, <1>8, <1>9, <1>10, <1>11, <1>12, <1>13, <1>14,
     <1>15, ActCases
-----------------------------------------------------------------------------
(* ... its place among its orders, ...                                     *)
LEMMA AtOrderStep ==
    ASSUME IInv, NEW t \in Txns, Act(t)
    PROVE  \A u \in Txns : AtOrder(u)'
<1>1. Types /\ AtOrder(t) /\ \A u \in Txns : AtOrder(u)
  BY DEF IInv
<1>2. Elsewhere(t) /\ job' = job
  BY OthersStay
<1>3. ASSUME NEW u \in Txns, u # t PROVE AtOrder(u)'
  BY <1>1, <1>2, <1>3 DEF Elsewhere, AtOrder, Trading, Kind, Order, Orders
<1>4. /\ pc \in [Txns -> Labels] /\ row \in [Txns -> 0 .. MaxIds]
      /\ pos \in [Txns -> Nat]
  BY <1>1 DEF Types
<1>5. /\ Orders(t)' = Orders(t) /\ (Trading(t)' <=> Trading(t))
      /\ Kind(t)' = Kind(t)
      /\ pos'[t] = pos[t] => Order(t)' = Order(t)
  BY <1>2 DEF Orders, Trading, Kind, Order
<1> USE DEF AtOrder, GoTo, OrderLabels
<1>6. ASSUME Start(t) PROVE AtOrder(t)'
  <2>1. pos'[t] = pos[t] /\ row'[t] = row[t]
    BY <1>6 DEF Start
  <2>2. CASE Trading(t)
    <3>1. pc'[t] = "lookup"
      BY <1>4, <1>6, <2>2 DEF Start, Trading
    <3>2. QED
      BY <1>1, <1>5, <2>1, <2>2, <3>1
  <2>3. CASE ~Trading(t)
    <3>1. pc'[t] \in {"viewStock", "viewPortfolio", "refresh"}
      BY <1>1, <1>4, <1>6, <2>3, JobFacts DEF Start, Trading
    <3>2. QED
      BY <1>1, <1>5, <2>1, <2>3, <3>1
  <2>4. QED
    BY <2>2, <2>3
<1>7. ASSUME pc'[t] = "abort", pos'[t] = pos[t] PROVE AtOrder(t)'
  BY <1>1, <1>5, <1>7
<1>8. ASSUME Lookup(t) PROVE AtOrder(t)'
  <2>1. pos'[t] = pos[t] /\ Trading(t)
    BY <1>1, <1>8 DEF Lookup, Unknown, NotFound, Found
  <2>2. CASE Unknown(t)
    <3>1. pc'[t] = "abort"
      BY <1>4, <2>2 DEF Unknown
    <3>2. QED
      BY <1>7, <2>1, <3>1
  <2>3. CASE NotFound(t)
    <3>1. /\ pc'[t] \in {"price", "abort"} /\ Known(Order(t))
          /\ pc'[t] = "price" => Kind(t) = "purchase"
      BY <1>4, <2>3 DEF NotFound
    <3>2. QED
      BY <1>1, <1>5, <2>1, <3>1
  <2>4. CASE Found(t)
    <3>1. pc'[t] \in {"read", "abort"} /\ Known(Order(t))
      BY <1>4, <2>4 DEF Found
    <3>2. PICK id \in Present : row'[t] = id
      BY <1>4, <2>4 DEF Found, Matches
    <3>3. row'[t] # MaxIds
      BY <3>2, IdFacts DEF Present
    <3>4. QED
      BY <1>1, <1>5, <2>1, <3>1, <3>3
  <2>5. QED
    BY <1>8, <2>2, <2>3, <2>4 DEF Lookup
<1>9. ASSUME ReadRow(t) PROVE AtOrder(t)'
  <2>1. /\ pc'[t] = "price" /\ pos'[t] = pos[t] /\ pc[t] = "read"
        /\ row'[t] = row[t]
    BY <1>4, <1>9 DEF ReadRow
  <2>2. QED
    BY <1>1, <1>5, <2>1
<1>10. ASSUME CheckPrice(t) PROVE AtOrder(t)'
  <2>1. /\ pc[t] = "price" /\ pos'[t] = pos[t] /\ row'[t] = row[t]
        /\ \/ pc'[t] = "abort"
           \/ pc'[t] = "newId" /\ row[t] = MaxIds
           \/ pc'[t] = "write" /\ row[t] # MaxIds
    BY <1>4, <1>10 DEF CheckPrice
  <2>2. QED
    BY <1>1, <1>5, <2>1
<1>11. ASSUME NextOrder(t, "lookup"), Trading(t) PROVE AtOrder(t)'
  <2>1. \/ /\ pos[t] < Len(Orders(t))
           /\ pos'[t] = pos[t] + 1
           /\ pc'[t] = "lookup"
        \/ /\ pos[t] = Len(Orders(t))
           /\ pos'[t] = pos[t]
           /\ pc'[t] = "commit"
    BY <1>1, <1>4, <1>11, Moved
  <2>2. pos'[t] \in DOMAIN Orders(t)
    BY <1>1, <2>1, JobFacts, OrderFacts
  <2>3. QED
    BY <1>5, <1>11, <2>1, <2>2
<1>12. ASSUME WriteRow(t) PROVE AtOrder(t)'
  BY <1>1, <1>11, <1>12 DEF WriteRow
<1>13. ASSUME TakeId(t) PROVE AtOrder(t)'
  <2>1. /\ pc[t] = "newId" /\ pc'[t] = "insert" /\ pos'[t] = pos[t]
        /\ row'[t] = nextId
    BY <1>4, <1>13 DEF TakeId
  <2>2. nextId # MaxIds
    BY <1>1, <1>13, IdFacts DEF TakeId, Types
  <2>3. QED
    BY <1>1, <1>5, <2>1, <2>2
<1>14. ASSUME Insert(t) PROVE AtOrder(t)'
  <2>1. Trading(t)
    BY <1>1, <1>14 DEF Insert
  <2>2. \/ NextOrder(t, "lookup")
        \/ pc' = [pc EXCEPT ![t] = "abort"] /\ pos' = pos
    BY <1>1, <1>14, RowInserted
  <2>3. QED
    BY <1>4, <1>7, <1>11, <2>1, <2>2
<1>15. ASSUME Viewing(t) PROVE AtOrder(t)'
  <2>1. NextOrder(t, pc[t]) /\ pc[t] \in {"viewStock", "viewPortfolio"}
    BY <1>15 DEF Viewing, NextView
  <2>2. \/ /\ pos[t] < Len(Orders(t))
           /\ pos'[t] = pos[t] + 1
           /\ pc'[t] = pc[t]
        \/ /\ pos[t] = Len(Orders(t))
           /\ pos'[t] = pos[t]
           /\ pc'[t] = "commit"
    BY <1>1, <1>4, <2>1, Moved
  <2>3. pos'[t] \in DOMAIN Orders(t)
    BY <1>1, <2>2, JobFacts, OrderFacts
  <2>4. QED
    BY <1>1, <1>5, <2>1, <2>2, <2>3
<1>16. ASSUME RefreshGet(t) PROVE AtOrder(t)'
  <2>1. pc[t] = "refresh" /\ pc'[t] = "put" /\ pos'[t] = pos[t]
    BY <1>4, <1>16 DEF RefreshGet
  <2>2. QED
    BY <1>1, <1>5, <2>1
<1>17. ASSUME RefreshPut(t) PROVE AtOrder(t)'
  <2>1. pc[t] = "put" /\ pc'[t] = "commit" /\ pos'[t] = pos[t]
    BY <1>4, <1>17 DEF RefreshPut
  <2>2. QED
    BY <1>1, <1>5, <2>1
<1>18. ASSUME Commit(t) \/ Abort(t) PROVE AtOrder(t)'
  <2>1. pc'[t] = "done" /\ pos'[t] = pos[t]
    BY <1>4, <1>18 DEF Commit, Abort
  <2>2. QED
    BY <1>1, <1>5, <2>1
<1>19. ASSUME GivesUp(t) PROVE AtOrder(t)'
  BY <1>4, <1>7, <1>19 DEF GivesUp, Fails
<1>20. AtOrder(t)'
  BY <1>6, <1>8, <1>9, <1>10, <1>12, <1>13, <1>14, <1>15, <1>16, <1>17,
     <1>18, <1>19, ActCases
<1>21. QED
  BY <1>3, <1>20

(* ... the locks it needs, ...                                             *)
LEMMA LockedStep ==
    ASSUME IInv, NEW t \in Txns, Act(t)
    PROVE  \A u \in Txns : Locked(u)'
<1>1. /\ Types /\ AtOrder(t) /\ Locked(t)
      /\ \A u \in Txns : AtOrder(u) /\ Locked(u)
  BY DEF IInv
<1>2. Elsewhere(t) /\ job' = job /\ LocksElsewhere(t)
  BY OthersStay, LocksOfOthers
<1>3. "portfolios" \in Pages /\ "byAccount" \in Pages /\ NoTxn # t
  BY IdFacts
<1>4. ASSUME NEW u \in Txns, u # t PROVE Locked(u)'
  <2>1. pos[u] \in DOMAIN Orders(u) /\ Order(u).symbol \in Pages
    BY <1>1, OrderFacts
  <2>2. /\ Order(u)' = Order(u) /\ (Trading(u)' <=> Trading(u))
        /\ (HasRow(u)' <=> HasRow(u)) /\ (HasWritten(u)' <=> HasWritten(u))
    BY <1>2, <1>4 DEF Elsewhere, Trading, Kind, Order, HasRow, HasWritten
  <2>3. pc'[u] = pc[u]
    BY <1>2, <1>4 DEF Elsewhere
  <2>4. \A p \in Pages : /\ u \in readers'[p] <=> u \in readers[p]
                         /\ writer'[p] = u <=> writer[p] = u
    BY <1>2, <1>4 DEF LocksElsewhere
  <2>5. QED
    BY <1>1, <1>3, <2>1, <2>2, <2>3, <2>4 DEF Locked
<1>5. /\ pc \in [Txns -> Labels] /\ row \in [Txns -> 0 .. MaxIds]
      /\ pos \in [Txns -> Nat]
      /\ readers \in [Pages -> SUBSET Txns]
      /\ writer \in [Pages -> Txns \cup {NoTxn}]
  BY <1>1 DEF Types
<1>6. /\ Orders(t)' = Orders(t) /\ (Trading(t)' <=> Trading(t))
      /\ pos'[t] = pos[t] => Order(t)' = Order(t)
  BY <1>2 DEF Orders, Trading, Kind, Order
<1>7. Order(t).symbol \in Pages /\ Order(t).symbol \notin Tables
  BY <1>1, OrderFacts
<1> USE DEF AtOrder, Locked, HasRow, HasWritten, GoTo, OrderLabels
<1>8. ASSUME pc'[t] = "abort", pos'[t] = pos[t], writer' = writer
      PROVE  Locked(t)'
  <2>1. writer["portfolios"] = t => Trading(t)
    BY <1>1
  <2>2. QED
    BY <1>6, <1>8, <2>1
<1>9. ASSUME Start(t) PROVE Locked(t)'
  <2>1. /\ pc[t] = "idle" /\ pos'[t] = pos[t] /\ pos[t] = 1
        /\ writer' = writer
        /\ pc'[t] \in {"lookup", "viewStock", "viewPortfolio", "refresh"}
    BY <1>1, <1>5, <1>9, JobFacts DEF Start, locks
  <2>2. writer["portfolios"] # t
    BY <1>1, <2>1
  <2>3. QED
    BY <1>6, <2>1, <2>2
<1>10. ASSUME Lookup(t) PROVE Locked(t)'
  <2>1. pc[t] = "lookup" /\ pos'[t] = pos[t] /\ writer' = writer
    BY <1>10 DEF Lookup, Unknown, NotFound, Found
  <2>2. CASE pc'[t] = "abort"
    BY <1>8, <2>1, <2>2
  <2>3. CASE pc'[t] = "price" /\ row'[t] = MaxIds
    BY <1>1, <1>6, <2>1, <2>3
  <2>4. CASE pc'[t] = "read" /\ t \in readers'["byAccount"]
    BY <1>1, <1>6, <2>1, <2>4
  <2>5. QED
    <3>1. CASE Unknown(t)
      BY <1>5, <2>2, <3>1 DEF Unknown
    <3>2. CASE NotFound(t)
      BY <1>5, <2>2, <2>3, <3>2 DEF NotFound
    <3>3. CASE Found(t)
      <4>1. \/ pc' = [pc EXCEPT ![t] = "abort"]
            \/ pc' = [pc EXCEPT ![t] = "read"] /\ Locking(t, "byAccount")
        BY <3>3 DEF Found
      <4>2. Locking(t, "byAccount") => t \in readers'["byAccount"]
        BY <1>3, <1>5 DEF Locking
      <4>3. QED
        BY <1>5, <2>2, <2>4, <4>1, <4>2
    <3>4. QED
      BY <1>10, <3>1, <3>2, <3>3 DEF Lookup
<1>11. ASSUME ReadRow(t) PROVE Locked(t)'
  <2>1. /\ pc[t] = "read" /\ pc'[t] = "price" /\ pos'[t] = pos[t]
        /\ writer' = writer
    BY <1>5, <1>11 DEF ReadRow
  <2>2. t \in readers["byAccount"]
    BY <1>1, <2>1
  <2>3. t \in readers'["byAccount"] /\ t \in readers'["portfolios"]
    BY <1>3, <1>5, <1>11, <2>2 DEF ReadRow, Locking
  <2>4. QED
    BY <1>1, <1>6, <2>1, <2>3
<1>12. ASSUME CheckPrice(t) PROVE Locked(t)'
  <2>1. /\ pc[t] = "price" /\ pos'[t] = pos[t] /\ row'[t] = row[t]
        /\ writer' = writer
        /\ \/ pc'[t] = "abort"
           \/ pc'[t] = "newId"
           \/ pc'[t] = "write" /\ row[t] # MaxIds
    BY <1>5, <1>12 DEF CheckPrice
  <2>2. \A p \in Pages : t \in readers[p] => t \in readers'[p]
    BY <1>5, <1>7, <1>12 DEF CheckPrice, ReadQuote, Locking
  <2>3. QED
    BY <1>1, <1>3, <1>6, <2>1, <2>2
<1>13. ASSUME NextOrder(t, "lookup"), Trading(t), writer'["portfolios"] = t
       PROVE  Locked(t)'
  <2>1. \/ pc'[t] = "lookup"
        \/ pc'[t] = "commit"
    BY <1>1, <1>5, <1>13, Moved
  <2>2. QED
    BY <1>6, <1>13, <2>1
<1>14. ASSUME WriteRow(t) PROVE Locked(t)'
  <2>1. writer'["portfolios"] = t
    BY <1>3, <1>5, <1>14 DEF WriteRow
  <2>2. QED
    BY <1>1, <1>13, <1>14, <2>1 DEF WriteRow
<1>15. ASSUME TakeId(t) PROVE Locked(t)'
  <2>1. /\ pc[t] = "newId" /\ pc'[t] = "insert" /\ pos'[t] = pos[t]
        /\ writer' = writer
    BY <1>5, <1>15 DEF TakeId, locks
  <2>2. QED
    BY <1>1, <1>6, <2>1
<1>16. ASSUME Insert(t) PROVE Locked(t)'
  <2>1. Trading(t) /\ writer'["portfolios"] = t
    BY <1>1, <1>3, <1>5, <1>16, IdFacts DEF Insert
  <2>2. CASE pc' = [pc EXCEPT ![t] = "abort"] /\ pos' = pos
    <3>1. pc'[t] = "abort"
      BY <1>5, <2>2
    <3>2. QED
      BY <1>6, <2>1, <3>1
  <2>3. QED
    BY <1>1, <1>13, <1>16, <2>1, <2>2, RowInserted
<1>17. ASSUME Viewing(t) PROVE Locked(t)'
  <2>1. /\ NextOrder(t, pc[t]) /\ pc[t] \in {"viewStock", "viewPortfolio"}
        /\ writer' = writer
    BY <1>17 DEF Viewing, NextView, locks
  <2>2. pc'[t] \in {"viewStock", "viewPortfolio", "commit"}
    BY <1>1, <1>5, <2>1, Moved
  <2>3. ~Trading(t) /\ writer["portfolios"] # t
    BY <1>1, <2>1
  <2>4. QED
    BY <1>6, <2>1, <2>2, <2>3
<1>18. ASSUME RefreshGet(t) PROVE Locked(t)'
  <2>1. /\ pc[t] = "refresh" /\ pc'[t] = "put" /\ pos'[t] = pos[t]
        /\ writer'[Order(t).symbol] = t
        /\ writer'["portfolios"] = writer["portfolios"]
    BY <1>3, <1>5, <1>7, <1>18, IdFacts DEF RefreshGet
  <2>2. writer["portfolios"] # t
    BY <1>1, <2>1
  <2>3. QED
    BY <1>6, <2>1, <2>2
<1>19. ASSUME RefreshPut(t) PROVE Locked(t)'
  <2>1. /\ pc[t] = "put" /\ pc'[t] = "commit" /\ pos'[t] = pos[t]
        /\ writer' = writer
    BY <1>5, <1>19 DEF RefreshPut, locks
  <2>2. ~Trading(t) /\ writer["portfolios"] # t
    BY <1>1, <2>1
  <2>3. QED
    BY <1>6, <2>1, <2>2
<1>20. ASSUME Commit(t) \/ Abort(t) PROVE Locked(t)'
  <2>1. pc'[t] = "done"
    BY <1>5, <1>20 DEF Commit, Abort
  <2>2. writer'["portfolios"] # t
    BY <1>1, <1>3, <1>20, Released DEF Commit, Abort
  <2>3. QED
    BY <2>1, <2>2
<1>21. ASSUME GivesUp(t) PROVE Locked(t)'
  BY <1>5, <1>8, <1>21 DEF GivesUp, Fails, locks
<1>22. Locked(t)'
  BY <1>9, <1>10, <1>11, <1>12, <1>14, <1>15, <1>16, <1>17, <1>18, <1>19,
     <1>20, <1>21, ActCases
<1>23. QED
  BY <1>4, <1>22

(* Who writes the portfolios has kept the table as it was.                 *)
LEMMA WriterSteps ==
    ASSUME IInv, NEW t \in Txns, Act(t), NEW u \in Txns,
           writer'["portfolios"] = u
    PROVE  \/ writer["portfolios"] = u /\ before'[u] = before[u]
           \/ /\ u = t
              /\ writer["portfolios"] = NoTxn
              /\ before'[u] = portfolio
<1>1. Types /\ AtOrder(t)
  BY DEF IInv
<1>2. "portfolios" \in Pages /\ "portfolios" \in Tables
  BY IdFacts
<1>3. /\ Elsewhere(t) /\ LocksElsewhere(t)
      /\ writer \in [Pages -> Txns \cup {NoTxn}]
      /\ before \in [Txns -> PortfolioTables]
  BY <1>1, OthersStay, LocksOfOthers DEF Types
<1>4. CASE u # t
  BY <1>2, <1>3, <1>4 DEF Elsewhere, LocksElsewhere
<1>5. ASSUME SaveBefore(t), writer["portfolios"] \in {t, NoTxn}, u = t
      PROVE  \/ writer["portfolios"] = u /\ before'[u] = before[u]
             \/ /\ u = t
                /\ writer["portfolios"] = NoTxn
                /\ before'[u] = portfolio
  BY <1>1, <1>5, SavedBefore
<1>6. CASE u = t /\ WriteRow(t)
  BY <1>1, <1>5, <1>6, GrantedAt DEF WriteRow
<1>7. CASE u = t /\ Insert(t)
  BY <1>1, <1>2, <1>5, <1>7, GrantedAt DEF Insert
<1>8. CASE u = t /\ (Commit(t) \/ Abort(t))
  BY <1>1, <1>2, <1>8, Released, IdFacts DEF Commit, Abort
<1>9. CASE u = t /\ RefreshGet(t)
  <2>1. Order(t).symbol # "portfolios"
    BY <1>1, <1>2, OrderFacts
  <2>2. QED
    BY <1>2, <1>3, <1>9, <2>1 DEF RefreshGet
<1>10. CASE writer' = writer /\ before' = before
  BY <1>10
<1>11. CASE Start(t) \/ Lookup(t) \/ ReadRow(t) \/ CheckPrice(t) \/ TakeId(t)
  BY <1>10, <1>11 DEF Start, Lookup, ReadRow, CheckPrice, TakeId, locks
<1>12. CASE Viewing(t) \/ RefreshPut(t) \/ GivesUp(t)
  BY <1>10, <1>12
     DEF Viewing, NextView, RefreshPut, GivesUp, Fails, locks
<1>13. QED
  BY <1>4, <1>6, <1>7, <1>8, <1>9, <1>11, <1>12, ActCases

(* Three steps change the portfolios.                                      *)
LEMMA TableSteps ==
    ASSUME NEW t \in Txns, Act(t)
    PROVE  \/ portfolio' = portfolio
           \/ WriteRow(t)
           \/ Insert(t)
           \/ /\ Abort(t)
              /\ writer["portfolios"] = t
              /\ portfolio' = before[t]
<1>1. CASE Start(t) \/ Lookup(t) \/ ReadRow(t) \/ CheckPrice(t) \/ TakeId(t)
  BY <1>1 DEF Start, Lookup, ReadRow, CheckPrice, TakeId, tables
<1>2. CASE \/ Viewing(t) \/ RefreshGet(t)
           \/ RefreshPut(t) \/ Commit(t) \/ GivesUp(t)
  BY <1>2 DEF Viewing, NextView, RefreshGet, RefreshPut,
              Commit, GivesUp, Fails, tables
<1>3. CASE Abort(t)
  BY <1>3 DEF Abort
<1>4. QED
  BY <1>1, <1>2, <1>3, ActCases

(* ... the row another one is at, ...                                      *)
LEMMA RowOfOther ==
    ASSUME IInv, NEW t \in Txns, Act(t), NEW u \in Txns, u # t, HasRow(u)
    PROVE  /\ KeyOf(portfolio'[row[u]]) = KeyOf(Order(u))
           /\ pc[u] # "read" => held[u] = portfolio'[row[u]].hold
<1>1. /\ Types /\ Exclusive /\ AtOrder(t) /\ RowStays(t) /\ AtOrder(u)
      /\ Locked(u) /\ RowStays(u)
  BY DEF IInv
<1>2. /\ KeyOf(portfolio[row[u]]) = KeyOf(Order(u))
      /\ \A w \in Txns : (writer["portfolios"] = w /\ w # u)
            => KeyOf(before[w][row[u]]) = KeyOf(Order(u))
      /\ pc[u] # "read" => held[u] = portfolio[row[u]].hold
  BY <1>1 DEF RowStays
<1>3. /\ u \in readers["byAccount"]
      /\ pc[u] # "read" => u \in readers["portfolios"]
  BY <1>1 DEF Locked
<1>4. row[u] \in Ids
  BY <1>1, RowFacts
<1>5. CASE portfolio' = portfolio
  BY <1>2, <1>5
<1>6. CASE WriteRow(t)
  <2>1. readers["portfolios"] \subseteq {t}
    BY <1>1, <1>6, GrantedAt DEF WriteRow
  <2>2. pc[u] = "read"
    BY <1>3, <2>1
  <2>3. KeyOf(portfolio'[row[u]]) = KeyOf(portfolio[row[u]])
    <3>1. CASE row[u] = row[t]
      BY <1>1, <1>6, <3>1, RowWritten DEF KeyOf
    <3>2. CASE row[u] # row[t]
      BY <1>1, <1>4, <1>6, <3>2, RowWritten
    <3>3. QED
      BY <3>1, <3>2
  <2>4. QED
    BY <1>2, <2>2, <2>3
<1>7. CASE Insert(t)
  <2>1. readers["byAccount"] \subseteq {t}
    BY <1>1, <1>7, GrantedAt, IdFacts DEF Insert
  <2>2. QED
    BY <1>3, <2>1
<1>8. CASE writer["portfolios"] = t /\ portfolio' = before[t]
  <2>1. readers["portfolios"] \subseteq {t}
    BY <1>1, <1>8, IdFacts DEF Exclusive
  <2>2. pc[u] = "read"
    BY <1>3, <2>1
  <2>3. QED
    BY <1>2, <1>8, <2>2
<1>9. QED
  BY <1>5, <1>6, <1>7, <1>8, TableSteps

LEMMA RowStep ==
    ASSUME IInv, NEW t \in Txns, Act(t)
    PROVE  \A u \in Txns : RowStays(u)'
<1>1. /\ Types /\ AtOrder(t) /\ RowStays(t)
      /\ \A u \in Txns : AtOrder(u) /\ RowStays(u)
  BY DEF IInv
<1>2. Elsewhere(t) /\ job' = job
  BY OthersStay
<1>3. ASSUME NEW u \in Txns, u # t, HasRow(u)' PROVE RowStays(u)'
  <2>1. /\ HasRow(u) /\ Order(u)' = Order(u) /\ row'[u] = row[u]
        /\ held'[u] = held[u] /\ pc'[u] = pc[u]
    BY <1>2, <1>3 DEF Elsewhere, Order, HasRow
  <2>2. KeyOf(Order(u))' = KeyOf(Order(u))
    BY <2>1 DEF KeyOf
  <2>3. KeyOf(portfolio[row[u]])' = KeyOf(portfolio'[row[u]])
    BY <2>1 DEF KeyOf
  <2>4. /\ KeyOf(portfolio'[row[u]]) = KeyOf(Order(u))
        /\ pc[u] # "read" => held[u] = portfolio'[row[u]].hold
    BY <1>3, <2>1, RowOfOther
  <2>5. ASSUME NEW w \in Txns, writer'["portfolios"] = w, w # u
        PROVE  KeyOf(before[w][row[u]])' = KeyOf(Order(u))
    <3>1. KeyOf(before[w][row[u]])' = KeyOf(before'[w][row[u]])
      BY <2>1 DEF KeyOf
    <3>2. \/ writer["portfolios"] = w /\ before'[w] = before[w]
          \/ before'[w] = portfolio
      BY <2>5, WriterSteps
    <3>3. /\ KeyOf(portfolio[row[u]]) = KeyOf(Order(u))
          /\ writer["portfolios"] = w
               => KeyOf(before[w][row[u]]) = KeyOf(Order(u))
      BY <1>1, <2>1, <2>5 DEF RowStays
    <3>4. QED
      BY <3>1, <3>2, <3>3
  <2>6. QED
    BY <2>1, <2>2, <2>3, <2>4, <2>5 DEF RowStays
<1>4. /\ pc \in [Txns -> Labels] /\ row \in [Txns -> 0 .. MaxIds]
      /\ held \in [Txns -> Int]
  BY <1>1 DEF Types
<1>5. ASSUME HasRow(t)'
      PROVE  \/ Found(t) /\ Lookup(t)
             \/ ReadRow(t) \/ CheckPrice(t)
  <2> USE DEF HasRow, GoTo
  <2>1. ASSUME Start(t) PROVE FALSE
    <3>1. pc'[t] \in {"lookup", "viewStock", "viewPortfolio", "refresh"}
      BY <1>1, <1>4, <2>1, JobFacts DEF Start
    <3>2. QED
      BY <1>5, <3>1
  <2>2. ASSUME Lookup(t), ~Found(t) PROVE FALSE
    <3>1. \/ pc'[t] = "abort"
          \/ pc'[t] = "price" /\ row'[t] = MaxIds
      BY <1>4, <2>2 DEF Lookup, Unknown, NotFound
    <3>2. QED
      BY <1>5, <3>1
  <2>3. ASSUME WriteRow(t) \/ Insert(t) PROVE FALSE
    <3>1. \/ NextOrder(t, "lookup")
          \/ pc' = [pc EXCEPT ![t] = "abort"]
      BY <2>3 DEF WriteRow, Insert
    <3>2. pc'[t] \in {"lookup", "commit", "abort"}
      BY <1>1, <1>4, <3>1, Moved
    <3>3. QED
      BY <1>5, <3>2
  <2>4. ASSUME Viewing(t) PROVE FALSE
    <3>1. NextOrder(t, pc[t]) /\ pc[t] \in {"viewStock", "viewPortfolio"}
      BY <2>4 DEF Viewing, NextView
    <3>2. pc'[t] \in {"viewStock", "viewPortfolio", "commit"}
      BY <1>1, <1>4, <3>1, Moved
    <3>3. QED
      BY <1>5, <3>2
  <2>5. ASSUME \/ TakeId(t) \/ RefreshGet(t) \/ RefreshPut(t) \/ Commit(t)
               \/ Abort(t) \/ GivesUp(t)
        PROVE FALSE
    <3>1. pc'[t] \in {"insert", "put", "commit", "done", "abort"}
      BY <1>4, <2>5
         DEF TakeId, RefreshGet, RefreshPut, Commit, Abort, GivesUp, Fails
    <3>2. QED
      BY <1>5, <3>1
  <2>6. QED
    BY <2>1, <2>2, <2>3, <2>4, <2>5, ActCases
<1>6. ASSUME Found(t), Lookup(t), HasRow(t)' PROVE RowStays(t)'
  <2>1. PICK id \in Matches(Order(t)) :
            /\ row' = [row EXCEPT ![t] = id]
            /\ IF Kind(t) = "sale" /\ portfolio[id].hold < Order(t).amount
               THEN GoTo(t, "abort") /\ UNCHANGED readers
               ELSE GoTo(t, "read") /\ Locking(t, "byAccount")
    BY <1>6 DEF Found
  <2>2. row'[t] = id /\ pc'[t] \in {"abort", "read"}
    BY <1>4, <2>1 DEF GoTo
  <2>3. /\ portfolio[id].account = Order(t).account
        /\ portfolio[id].symbol = Order(t).symbol
    BY <2>1 DEF Matches
  <2>4. /\ portfolio' = portfolio /\ writer' = writer
        /\ Order(t)' = Order(t)
    BY <1>2, <1>6 DEF Lookup, tables, Order
  <2>5. KeyOf(portfolio[row[t]])' = KeyOf(Order(t))'
    BY <2>2, <2>3, <2>4 DEF KeyOf
  <2>6. writer["portfolios"] \in {t, NoTxn}
    BY <1>1, <1>6, GrantedAt, IdFacts DEF Found
  <2>7. pc'[t] = "read"
    BY <1>6, <2>2 DEF HasRow
  <2>8. QED
    BY <2>4, <2>5, <2>6, <2>7, IdFacts DEF RowStays
<1>7. ASSUME ReadRow(t) \/ CheckPrice(t), HasRow(t)' PROVE RowStays(t)'
  <2>1. /\ portfolio' = portfolio /\ writer' = writer /\ before' = before
        /\ row' = row /\ Order(t)' = Order(t)
    BY <1>2, <1>7 DEF ReadRow, CheckPrice, tables, Order
  <2>2. /\ HasRow(t)
        /\ ReadRow(t) => held'[t] = portfolio[row[t]].hold
        /\ CheckPrice(t) => held' = held /\ pc[t] = "price"
    BY <1>4, <1>7, <2>1 DEF ReadRow, CheckPrice, HasRow, GoTo
  <2>3. /\ KeyOf(Order(t))' = KeyOf(Order(t))
        /\ KeyOf(portfolio[row[t]])' = KeyOf(portfolio[row[t]])
        /\ \A w \in Txns : KeyOf(before[w][row[t]])' = KeyOf(before[w][row[t]])
    BY <2>1 DEF KeyOf
  <2>4. pc'[t] # "read" => held'[t] = portfolio[row[t]].hold
    BY <1>1, <1>7, <2>2 DEF RowStays
  <2>5. QED
    BY <1>1, <2>1, <2>2, <2>3, <2>4 DEF RowStays
<1>8. ASSUME HasRow(t)' PROVE RowStays(t)'
  BY <1>5, <1>6, <1>7, <1>8
<1>9. \A u \in Txns : ~HasRow(u)' => RowStays(u)'
  BY DEF RowStays
<1>10. QED
  BY <1>3, <1>8, <1>9

(* ... and the prices it has compared.                                     *)
LEMMA PriceOfOther ==
    ASSUME IInv, NEW t \in Txns, Act(t), NEW u \in Txns, NEW s \in Quoted,
           u \in readers[s], u # t
    PROVE  price'[s] = price[s]
<1>1. /\ Types /\ Exclusive /\ AtOrder(t) /\ Locked(t)
      /\ price \in [Quoted -> 0 .. MaxPrice]
  BY DEF IInv, Types
<1>2. CASE RefreshPut(t)
  <2>1. writer[Order(t).symbol] = t
    BY <1>1, <1>2 DEF RefreshPut, Locked
  <2>2. readers[Order(t).symbol] \subseteq {t}
    BY <1>1, <2>1, OrderFacts, IdFacts DEF Exclusive
  <2>3. s # Order(t).symbol
    BY <2>2
  <2>4. QED
    BY <1>1, <1>2, <2>3 DEF RefreshPut
<1>3. CASE price' = price
  BY <1>3
<1>4. CASE \/ Start(t) \/ Lookup(t) \/ ReadRow(t) \/ CheckPrice(t)
           \/ WriteRow(t) \/ TakeId(t) \/ Insert(t)
  BY <1>3, <1>4 DEF Start, Lookup, ReadRow, CheckPrice, WriteRow, TakeId,
                    Insert, tables
<1>5. CASE \/ Viewing(t) \/ RefreshGet(t) \/ Commit(t)
           \/ Abort(t) \/ GivesUp(t)
  BY <1>3, <1>5 DEF Viewing, NextView, RefreshGet, Commit,
                    Abort, GivesUp, Fails, tables
<1>6. QED
  BY <1>2, <1>4, <1>5, ActCases

LEMMA PriceStep ==
    ASSUME IInv, NEW t \in Txns, Act(t)
    PROVE  \A u \in Txns : PriceHolds(u)'
<1>1. /\ Types /\ AtOrder(t) /\ PriceHolds(t)
      /\ \A u \in Txns : AtOrder(u) /\ PriceHolds(u)
  BY DEF IInv
<1>2. /\ Elsewhere(t) /\ job' = job /\ LocksElsewhere(t)
  BY OthersStay, LocksOfOthers
<1>3. ASSUME NEW u \in Txns, u # t PROVE PriceHolds(u)'
  <2>1. /\ pc'[u] = pc[u]
        /\ Kind(u)' = Kind(u) /\ Orders(u)' = Orders(u)
        /\ (Trading(u)' <=> Trading(u))
        /\ Compared(u)' = Compared(u)
    BY <1>2, <1>3 DEF Elsewhere, Kind, Orders, Trading, Compared
  <2>2. ASSUME Trading(u), pc[u] \in OrderLabels \cup {"commit"},
               NEW i \in Compared(u)
        PROVE  /\ Orders(u)[i].symbol \in Quoted
               /\ u \in readers'[Orders(u)[i].symbol]
               /\ GoodPrice(Kind(u), Orders(u)[i])'
    <3>1. /\ Orders(u)[i].symbol \in Quoted
          /\ u \in readers[Orders(u)[i].symbol]
          /\ GoodPrice(Kind(u), Orders(u)[i])
      BY <1>1, <2>2 DEF PriceHolds
    <3>2. Orders(u)[i].symbol \in Pages
      BY <3>1, IdFacts
    <3>3. price'[Orders(u)[i].symbol] = price[Orders(u)[i].symbol]
      BY <1>3, <3>1, PriceOfOther
    <3>4. u \in readers'[Orders(u)[i].symbol]
      BY <1>2, <1>3, <3>1, <3>2 DEF LocksElsewhere
    <3>5. QED
      BY <1>2, <3>1, <3>3, <3>4 DEF GoodPrice, Kind, Orders
  <2>3. QED
    BY <2>1, <2>2 DEF PriceHolds
<1>4. /\ pc \in [Txns -> Labels] /\ pos \in [Txns -> Nat]
      /\ readers \in [Pages -> SUBSET Txns]
  BY <1>1 DEF Types
<1>5. /\ Orders(t)' = Orders(t) /\ Kind(t)' = Kind(t)
      /\ (Trading(t)' <=> Trading(t))
  BY <1>2 DEF Orders, Trading, Kind
<1>6. ASSUME Trading(t), pc[t] \in OrderLabels, price' = price,
             NEW i \in Compared(t),
             \A s \in Symbols : t \in readers[s] => t \in readers'[s]
      PROVE  /\ Orders(t)[i].symbol \in Quoted
             /\ t \in readers'[Orders(t)[i].symbol]
             /\ GoodPrice(Kind(t), Orders(t)[i])'
  <2>1. /\ Orders(t)[i].symbol \in Quoted
        /\ t \in readers[Orders(t)[i].symbol]
        /\ GoodPrice(Kind(t), Orders(t)[i])
    BY <1>1, <1>6 DEF PriceHolds
  <2>2. Orders(t)[i].symbol \in Symbols
    BY <1>1, JobFacts DEF Compared
  <2>3. QED
    BY <1>2, <1>6, <2>1, <2>2 DEF GoodPrice, Kind, Orders
<1>7. ASSUME Trading(t), pc[t] \in OrderLabels, price' = price,
             \A s \in Symbols : t \in readers[s] => t \in readers'[s],
             Compared(t)' \subseteq Compared(t)
      PROVE  PriceHolds(t)'
  BY <1>5, <1>6, <1>7 DEF PriceHolds
<1>8. ASSUME ~Trading(t) PROVE PriceHolds(t)'
  BY <1>5, <1>8 DEF PriceHolds
<1>9. ASSUME pc'[t] \notin OrderLabels \cup {"commit"} PROVE PriceHolds(t)'
  BY <1>9 DEF PriceHolds
<1> USE DEF GoTo, OrderLabels
<1>10. ASSUME Start(t) PROVE PriceHolds(t)'
  <2>1. pos'[t] = pos[t] /\ pos[t] = 1
    BY <1>1, <1>10 DEF Start, AtOrder
  <2>2. CASE Trading(t)
    <3>1. pc'[t] = "lookup"
      BY <1>4, <1>10, <2>2 DEF Start, Trading
    <3>2. Compared(t)' = {}
      BY <1>1, <1>5, <2>1, <3>1, JobFacts DEF Compared
    <3>3. QED
      BY <3>2 DEF PriceHolds
  <2>3. QED
    BY <1>8, <2>2
<1>11. ASSUME Lookup(t) PROVE PriceHolds(t)'
  <2>1. /\ pc[t] = "lookup" /\ pos' = pos /\ price' = price
        /\ pc'[t] \in {"read", "price", "abort"}
    BY <1>4, <1>11 DEF Lookup, Unknown, NotFound, Found, tables
  <2>2. Compared(t)' \subseteq Compared(t)
    BY <1>5, <2>1 DEF Compared
  <2>3. \/ readers' = readers
        \/ Locking(t, "byAccount")
    BY <1>11 DEF Lookup, Unknown, NotFound, Found
  <2>4. \A s \in Symbols : t \in readers[s] => t \in readers'[s]
    BY <1>4, <2>3, IdFacts DEF Locking
  <2>5. Trading(t)
    BY <1>1, <2>1 DEF AtOrder
  <2>6. QED
    BY <1>7, <2>1, <2>2, <2>4, <2>5
<1>12. ASSUME ReadRow(t) PROVE PriceHolds(t)'
  <2>1. /\ pc[t] = "read" /\ pos' = pos /\ price' = price
        /\ pc'[t] = "price"
    BY <1>4, <1>12 DEF ReadRow, tables
  <2>2. Compared(t)' \subseteq Compared(t)
    BY <1>5, <2>1 DEF Compared
  <2>3. \A s \in Symbols : t \in readers[s] => t \in readers'[s]
    BY <1>4, <1>12, IdFacts DEF ReadRow, Locking
  <2>4. Trading(t)
    BY <1>1, <2>1 DEF AtOrder
  <2>5. QED
    BY <1>7, <2>1, <2>2, <2>3, <2>4
<1>13. ASSUME CheckPrice(t) PROVE PriceHolds(t)'
  <2>1. pc[t] = "price" /\ pos' = pos /\ price' = price
    BY <1>13 DEF CheckPrice, tables
  <2>2. Trading(t)
    BY <1>1, <2>1 DEF AtOrder
  <2>3. \A s \in Symbols : t \in readers[s] => t \in readers'[s]
    BY <1>4, <1>13, IdFacts DEF CheckPrice, ReadQuote, Locking
  <2>4. Order(t).symbol \in Quoted /\ t \in readers'[Order(t).symbol]
    BY <1>1, <1>4, <1>13, OrderFacts DEF CheckPrice, ReadQuote, Locking
  <2>5. CASE pc'[t] = "abort"
    BY <1>9, <2>5
  <2>6. CASE pc'[t] \in {"newId", "write"} /\ GoodPrice(Kind(t), Order(t))
    <3>1. Compared(t)' \subseteq Compared(t) \cup {pos[t]}
      BY <1>5, <2>1, <2>6 DEF Compared
    <3>2. Order(t) = Orders(t)[pos[t]]
      BY <1>1, OrderFacts
    <3>3. GoodPrice(Kind(t), Orders(t)[pos[t]])'
      BY <1>2, <2>1, <2>6, <3>2 DEF GoodPrice, Kind, Orders
    <3>4. ASSUME NEW i \in Compared(t)'
          PROVE  /\ Orders(t)[i].symbol \in Quoted
                 /\ t \in readers'[Orders(t)[i].symbol]
                 /\ GoodPrice(Kind(t), Orders(t)[i])'
      <4>1. CASE i = pos[t]
        BY <2>1, <2>4, <3>2, <3>3, <4>1
      <4>2. CASE i \in Compared(t)
        BY <1>6, <2>1, <2>2, <2>3, <4>2
      <4>3. QED
        BY <3>1, <3>4, <4>1, <4>2
    <3>5. QED
      BY <1>5, <3>4 DEF PriceHolds
  <2>7. QED
    BY <1>4, <1>13, <2>5, <2>6 DEF CheckPrice
<1>14. ASSUME NextOrder(t, "lookup"), pc[t] \in {"write", "insert"}
       PROVE  Compared(t)' \subseteq Compared(t)
  <2>1. \/ pos'[t] = pos[t] + 1 /\ pc'[t] = "lookup"
        \/ pos'[t] = pos[t] /\ pc'[t] = "commit"
    BY <1>1, <1>4, <1>14, Moved
  <2>2. pos[t] \in Nat /\ DOMAIN Orders(t) \subseteq Nat
    BY <1>1, <1>4, JobFacts
  <2>3. QED
    BY <1>5, <1>14, <2>1, <2>2 DEF Compared
<1>15. ASSUME WriteRow(t) PROVE PriceHolds(t)'
  <2>1. pc[t] = "write" /\ price' = price /\ NextOrder(t, "lookup")
    BY <1>15 DEF WriteRow
  <2>2. \A s \in Symbols : t \in readers[s] => t \in readers'[s]
    BY <1>4, <1>15, IdFacts DEF WriteRow, WithoutReader
  <2>3. Trading(t)
    BY <1>1, <2>1 DEF AtOrder
  <2>4. QED
    BY <1>7, <1>14, <2>1, <2>2, <2>3
<1>16. ASSUME TakeId(t) PROVE PriceHolds(t)'
  <2>1. /\ pc[t] = "newId" /\ pos' = pos /\ price' = price
        /\ pc'[t] = "insert" /\ readers' = readers
    BY <1>4, <1>16 DEF TakeId, locks
  <2>2. Compared(t)' \subseteq Compared(t)
    BY <1>5, <2>1 DEF Compared
  <2>3. Trading(t)
    BY <1>1, <2>1 DEF AtOrder
  <2>4. QED
    BY <1>7, <2>1, <2>2, <2>3
<1>17. ASSUME Insert(t) PROVE PriceHolds(t)'
  <2>1. pc[t] = "insert" /\ price' = price /\ readers' = readers
    BY <1>17 DEF Insert
  <2>2. Trading(t)
    BY <1>1, <2>1 DEF AtOrder
  <2>3. CASE NextOrder(t, "lookup")
    BY <1>7, <1>14, <2>1, <2>2, <2>3
  <2>4. CASE pc' = [pc EXCEPT ![t] = "abort"]
    <3>1. pc'[t] = "abort"
      BY <1>4, <2>4
    <3>2. QED
      BY <1>9, <3>1
  <2>5. QED
    BY <1>1, <1>17, <2>3, <2>4, RowInserted
<1>18. ASSUME \/ Viewing(t) \/ RefreshGet(t)
              \/ RefreshPut(t)
       PROVE  PriceHolds(t)'
  BY <1>1, <1>8, <1>18
     DEF Viewing, RefreshGet, RefreshPut, AtOrder
<1>19. ASSUME Commit(t) \/ Abort(t) \/ GivesUp(t) PROVE PriceHolds(t)'
  <2>1. pc'[t] \in {"done", "abort"}
    BY <1>4, <1>19 DEF Commit, Abort, GivesUp, Fails
  <2>2. QED
    BY <1>9, <2>1
<1>20. PriceHolds(t)'
  BY <1>10, <1>11, <1>12, <1>13, <1>15, <1>16, <1>17, <1>18, <1>19, ActCases
<1>21. QED
  BY <1>3, <1>20
-----------------------------------------------------------------------------
(* The books.  What a table holds of a key changes with one row by what    *)
(* that row held before and holds afterwards.                              *)

HoldOf(f) == [id \in Ids |-> f[id].hold]
RowsOf(f, k) == {id \in Ids : KeyOf(f[id]) = k}
Share(f, id, k) == IF KeyOf(f[id]) = k THEN f[id].hold ELSE 0

LEMMA HoldingsNumber ==
    ASSUME NEW f \in PortfolioTables, NEW k
    PROVE  /\ HoldingsIn(f, k) = SumFunctionOnSet(HoldOf(f), RowsOf(f, k))
           /\ IsFiniteSet(RowsOf(f, k))
           /\ \A id \in Ids : HoldOf(f)[id] = f[id].hold /\ f[id].hold \in Int
           /\ HoldingsIn(f, k) \in Int
<1>1. HoldingsIn(f, k) = SumFunctionOnSet(HoldOf(f), RowsOf(f, k))
  BY DEF HoldingsIn, HoldOf, RowsOf, KeyOf
<1>2. IsFiniteSet(Ids)
  BY IdFacts, FS_Interval
<1>3. RowsOf(f, k) \in SUBSET Ids
  BY DEF RowsOf
<1>4. IsFiniteSet(RowsOf(f, k))
  BY <1>2, <1>3, FS_Subset
<1>5. ASSUME NEW id \in Ids
      PROVE  HoldOf(f)[id] = f[id].hold /\ f[id].hold \in Int
  <2>1. f[id] \in Rows \cup {Absent}
    BY DEF PortfolioTables
  <2>2. QED
    BY <2>1 DEF HoldOf, Rows, Absent
<1>6. \A id \in RowsOf(f, k) : HoldOf(f)[id] \in Int
  BY <1>3, <1>5
<1>7. SumFunctionOnSet(HoldOf(f), RowsOf(f, k)) \in Int
  BY <1>4, <1>6, SumNumber
<1>8. QED
  BY <1>1, <1>4, <1>5, <1>7

LEMMA HoldingsSplit ==
    ASSUME NEW f \in PortfolioTables, NEW id \in Ids, NEW k
    PROVE  /\ IsFiniteSet(RowsOf(f, k) \ {id})
           /\ SumFunctionOnSet(HoldOf(f), RowsOf(f, k) \ {id}) \in Int
           /\ Share(f, id, k) \in Int
           /\ HoldingsIn(f, k) = Share(f, id, k)
                + SumFunctionOnSet(HoldOf(f), RowsOf(f, k) \ {id})
<1>1. /\ HoldingsIn(f, k) = SumFunctionOnSet(HoldOf(f), RowsOf(f, k))
      /\ IsFiniteSet(RowsOf(f, k))
      /\ \A i \in Ids : HoldOf(f)[i] = f[i].hold /\ f[i].hold \in Int
  BY HoldingsNumber
<1>2. \A i \in RowsOf(f, k) : HoldOf(f)[i] \in Int
  BY <1>1 DEF RowsOf
<1>3. IsFiniteSet(RowsOf(f, k) \ {id})
  BY <1>1, FS_RemoveElement
<1>4. SumFunctionOnSet(HoldOf(f), RowsOf(f, k) \ {id}) \in Int
  BY <1>2, <1>3, SumNumber
<1>5. CASE id \in RowsOf(f, k)
  <2>1. Share(f, id, k) = HoldOf(f)[id]
    BY <1>1, <1>5 DEF RowsOf, Share
  <2>2. SumFunctionOnSet(HoldOf(f), RowsOf(f, k)) = HoldOf(f)[id]
          + SumFunctionOnSet(HoldOf(f), RowsOf(f, k) \ {id})
    BY <1>1, <1>2, <1>5, SumWithout
  <2>3. HoldOf(f)[id] \in Int
    BY <1>1
  <2>4. HoldingsIn(f, k) = Share(f, id, k)
                + SumFunctionOnSet(HoldOf(f), RowsOf(f, k) \ {id})
    BY <1>1, <2>1, <2>2, Zenon
  <2>5. QED
    BY <1>3, <1>4, <2>1, <2>3, <2>4
<1>6. CASE id \notin RowsOf(f, k)
  <2>1. Share(f, id, k) = 0
    BY <1>6 DEF RowsOf, Share
  <2>2. RowsOf(f, k) \ {id} = RowsOf(f, k)
    BY <1>6
  <2>3. HoldingsIn(f, k) =
          SumFunctionOnSet(HoldOf(f), RowsOf(f, k) \ {id})
    BY <1>1, <2>2, Zenon
  <2>4. QED
    BY <1>3, <1>4, <2>1, <2>3
<1>7. QED
  BY <1>5, <1>6

LEMMA HoldingsChange ==
    ASSUME NEW f \in PortfolioTables, NEW g \in PortfolioTables,
           NEW id \in Ids, \A j \in Ids \ {id} : g[j] = f[j], NEW k
    PROVE  HoldingsIn(g, k) = HoldingsIn(f, k)
                                + (Share(g, id, k) - Share(f, id, k))
<1>1. RowsOf(g, k) \ {id} = RowsOf(f, k) \ {id}
  BY DEF RowsOf
<1>2. PICK R : R = RowsOf(f, k) \ {id}
  OBVIOUS
<1>3. /\ IsFiniteSet(R)
      /\ SumFunctionOnSet(HoldOf(f), R) \in Int
      /\ Share(f, id, k) \in Int
      /\ HoldingsIn(f, k) = Share(f, id, k) + SumFunctionOnSet(HoldOf(f), R)
  BY <1>2, HoldingsSplit
<1>4. /\ Share(g, id, k) \in Int
      /\ HoldingsIn(g, k) = Share(g, id, k) + SumFunctionOnSet(HoldOf(g), R)
  BY <1>1, <1>2, HoldingsSplit
<1>5. \A j \in R : HoldOf(f)[j] \in Int /\ HoldOf(g)[j] = HoldOf(f)[j]
  <2>1. ASSUME NEW j \in R
        PROVE  HoldOf(f)[j] \in Int /\ HoldOf(g)[j] = HoldOf(f)[j]
    <3>1. j \in Ids \ {id}
      BY <1>2 DEF RowsOf
    <3>2. HoldOf(f)[j] = f[j].hold /\ f[j].hold \in Int
      BY <3>1, HoldingsNumber
    <3>3. HoldOf(g)[j] = g[j].hold
      BY <3>1, HoldingsNumber
    <3>4. QED
      BY <3>1, <3>2, <3>3
  <2>2. QED
    BY <2>1
<1>6. SumFunctionOnSet(HoldOf(g), R) = SumFunctionOnSet(HoldOf(f), R)
  BY <1>3, <1>5, SumAgrees
<1>7. QED
  BY <1>3, <1>4, <1>6

(* What an order adds to a key.                                            *)
Delta(t, k) == IF KeyOf(Order(t)) = k THEN Change(t) ELSE 0

LEMMA WrittenHoldings ==
    ASSUME IInv, NEW t \in Txns, WriteRow(t), NEW k
    PROVE  HoldingsIn(portfolio', k) = HoldingsIn(portfolio, k) + Delta(t, k)
<1>1. /\ Types /\ AtOrder(t) /\ RowStays(t)
      /\ portfolio \in PortfolioTables
  BY DEF IInv, Types
<1>2. HasRow(t)
  BY DEF WriteRow, HasRow
<1>3. KeyOf(portfolio[row[t]]) = KeyOf(Order(t))
  BY <1>1, <1>2 DEF RowStays
<1>4. KeyOf(portfolio'[row[t]]) = KeyOf(Order(t))
  BY <1>1, <1>3, RowWritten DEF KeyOf
<1>5. /\ portfolio[row[t]].hold \in Int
      /\ Change(t) \in Int
      /\ portfolio'[row[t]].hold = portfolio[row[t]].hold + Change(t)
  BY <1>1, <1>2, RowFacts, RowWritten, OrderFacts DEF Rows, Change
<1>6. Share(portfolio', row[t], k) - Share(portfolio, row[t], k) = Delta(t, k)
  BY <1>3, <1>4, <1>5 DEF Share, Delta
<1>7. PICK g \in PortfolioTables : g = portfolio'
  BY <1>1, RowWritten
<1>8. PICK f \in PortfolioTables : f = portfolio
  BY <1>1
<1>9. PICK i \in Ids : i = row[t]
  BY <1>1, RowWritten
<1>10. \A j \in Ids \ {i} : g[j] = f[j]
  BY <1>1, <1>7, <1>8, <1>9, RowWritten
<1>11. HoldingsIn(g, k) = HoldingsIn(f, k) + (Share(g, i, k) - Share(f, i, k))
  BY <1>10, HoldingsChange
<1>12. QED
  BY <1>6, <1>7, <1>8, <1>9, <1>11

LEMMA InsertedHoldings ==
    ASSUME IInv, NEW t \in Txns, Insert(t), pc' # [pc EXCEPT ![t] = "abort"],
           NEW k
    PROVE  HoldingsIn(portfolio', k) = HoldingsIn(portfolio, k) + Delta(t, k)
<1>1. /\ Types /\ AtOrder(t)
      /\ portfolio \in PortfolioTables
  BY DEF IInv, Types
<1>2. /\ portfolio' \in PortfolioTables
      /\ row[t] \in Ids
      /\ portfolio[row[t]] = Absent
      /\ \A id \in Ids \ {row[t]} : portfolio'[id] = portfolio[id]
      /\ portfolio'[row[t]].account = Order(t).account
      /\ portfolio'[row[t]].symbol = Order(t).symbol
      /\ portfolio'[row[t]].hold = Order(t).amount
  BY <1>1, RowInserted
<1>3. KeyOf(portfolio'[row[t]]) = KeyOf(Order(t))
  BY <1>2 DEF KeyOf
<1>4. Kind(t) = "purchase"
  BY <1>1 DEF Insert, AtOrder
<1>5. Change(t) = Order(t).amount /\ Order(t).amount \in Int
  BY <1>1, <1>4, OrderFacts DEF Change
<1>6. portfolio[row[t]].hold = 0
  BY <1>2 DEF Absent
<1>7. Share(portfolio', row[t], k) - Share(portfolio, row[t], k) = Delta(t, k)
  BY <1>2, <1>3, <1>5, <1>6 DEF Share, Delta
<1>8. PICK g \in PortfolioTables : g = portfolio'
  BY <1>2
<1>9. PICK f \in PortfolioTables : f = portfolio
  BY <1>1
<1>10. PICK i \in Ids : i = row[t]
  BY <1>2
<1>11. \A j \in Ids \ {i} : g[j] = f[j]
  BY <1>2, <1>8, <1>9, <1>10
<1>12. HoldingsIn(g, k) = HoldingsIn(f, k) + (Share(g, i, k) - Share(f, i, k))
  BY <1>11, HoldingsChange
<1>13. QED
  BY <1>7, <1>8, <1>9, <1>10, <1>12

(* What the orders applied add up to, before and behind an order, and at   *)
(* the commit.                                                             *)
LEMMA SoFarNumber ==
    ASSUME Types, NEW t \in Txns, NEW k
    PROVE  SoFar(t, k) \in Int
<1>1. Mine(t, k) \cap Applied(t) \in SUBSET (DOMAIN Orders(t))
  BY DEF Mine, Applied
<1>2. SumFunctionOnSet(Amounts(t), Mine(t, k) \cap Applied(t)) \in Int
  BY <1>1, OrdersSum
<1>3. QED
  BY <1>2 DEF SoFar

LEMMA SoFarNothing ==
    ASSUME NEW t \in Txns, NEW k, Applied(t) = {}
    PROVE  SoFar(t, k) = 0
<1>1. Mine(t, k) \cap Applied(t) = {}
  OBVIOUS
<1>2. SumFunctionOnSet(Amounts(t), Mine(t, k) \cap Applied(t)) = 0
  BY <1>1, SumNothing
<1>3. QED
  BY <1>2 DEF SoFar

LEMMA SoFarSame ==
    ASSUME NEW t \in Txns, NEW k, job' = job, Applied(t)' = Applied(t)
    PROVE  SoFar(t, k)' = SoFar(t, k)
<1>1. /\ Amounts(t)' = Amounts(t) /\ Mine(t, k)' = Mine(t, k)
      /\ Kind(t)' = Kind(t)
  BY DEF Amounts, Mine, Orders, Kind
<1>2. QED
  BY <1>1 DEF SoFar

LEMMA SoFarNext ==
    ASSUME Types, NEW t \in Txns, NEW k, AtOrder(t), job' = job,
           pos[t] \notin Applied(t), Applied(t)' = Applied(t) \cup {pos[t]}
    PROVE  SoFar(t, k)' = SoFar(t, k) + Delta(t, k)
<1>1. /\ Amounts(t)' = Amounts(t) /\ Mine(t, k)' = Mine(t, k)
      /\ Kind(t)' = Kind(t)
  BY DEF Amounts, Mine, Orders, Kind
<1>2. PICK I : I = Mine(t, k) \cap Applied(t)
  OBVIOUS
<1>3. PICK A : A = Amounts(t)
  OBVIOUS
<1>4. PICK J : J = Mine(t, k) \cap (Applied(t) \cup {pos[t]})
  OBVIOUS
<1>5. I \in SUBSET (DOMAIN Orders(t)) /\ J \in SUBSET (DOMAIN Orders(t))
  BY <1>2, <1>4 DEF Mine
<1>6. /\ IsFiniteSet(J)
      /\ \A i \in J : A[i] \in Int
      /\ SumFunctionOnSet(A, I) \in Int
      /\ SumFunctionOnSet(A, J) \in Int
  BY <1>3, <1>5, OrdersSum
<1>7. /\ Order(t) = Orders(t)[pos[t]] /\ pos[t] \in DOMAIN Orders(t)
      /\ Order(t).amount \in Int
  BY OrderFacts
<1>8. A[pos[t]] = Order(t).amount
  BY <1>3, <1>7 DEF Amounts
<1>9. SumFunctionOnSet(A, J) = SumFunctionOnSet(A, I)
        + (IF KeyOf(Order(t)) = k THEN Order(t).amount ELSE 0)
  <2>1. CASE KeyOf(Order(t)) = k
    <3>1. pos[t] \in J
      BY <1>4, <1>7, <2>1 DEF Mine
    <3>2. J \ {pos[t]} = I
      BY <1>2, <1>4
    <3>3. SumFunctionOnSet(A, J) =
            A[pos[t]] + SumFunctionOnSet(A, J \ {pos[t]})
      BY <1>6, <3>1, SumWithout
    <3>4. SumFunctionOnSet(A, J) = Order(t).amount + SumFunctionOnSet(A, I)
      BY <1>8, <3>2, <3>3, Zenon
    <3>5. QED
      BY <1>6, <1>7, <2>1, <3>4
  <2>2. CASE KeyOf(Order(t)) # k
    <3>1. J = I
      BY <1>2, <1>4, <1>7, <2>2 DEF Mine
    <3>2. QED
      BY <1>6, <2>2, <3>1
  <2>3. QED
    BY <2>1, <2>2
<1>10. SoFar(t, k) = IF Kind(t) = "purchase" THEN SumFunctionOnSet(A, I)
                                             ELSE -SumFunctionOnSet(A, I)
  BY <1>2, <1>3 DEF SoFar
<1>11. SoFar(t, k)' = IF Kind(t) = "purchase" THEN SumFunctionOnSet(A, J)
                                              ELSE -SumFunctionOnSet(A, J)
  BY <1>1, <1>3, <1>4 DEF SoFar
<1>12. QED
  BY <1>6, <1>7, <1>9, <1>10, <1>11 DEF Delta, Change

LEMMA SoFarAll ==
    ASSUME Types, NEW t \in Txns, NEW k, Trading(t), pc[t] = "commit"
    PROVE  SoFar(t, k) = Traded(t, k)
<1>1. Mine(t, k) \cap Applied(t) = Mine(t, k)
  BY DEF Mine, Applied
<1>2. QED
  BY <1>1, TradedIs DEF SoFar, Trading

(* The table as the last commit left it changes with a commit only.        *)
LEMMA BooksOfWrite ==
    ASSUME IInv, NEW t \in Txns, Act(t), WriteRow(t) \/ Insert(t)
    PROVE  (\A u \in Txns : Balanced(u)') /\ HoldingsMatchLedger'
<1>1. /\ Types /\ AtOrder(t) /\ Locked(t) /\ Balanced(t)
      /\ HoldingsMatchLedger
      /\ portfolio \in PortfolioTables /\ before \in [Txns -> PortfolioTables]
      /\ pc \in [Txns -> Labels] /\ pos \in [Txns -> Nat]
      /\ writer \in [Pages -> Txns \cup {NoTxn}]
  BY DEF IInv, Types
<1>2. "portfolios" \in Pages /\ "portfolios" \in Tables /\ NoTxn # t
  BY IdFacts
<1>3. writer'["portfolios"] = t
  BY <1>1, <1>2 DEF WriteRow, Insert
<1>4. writer["portfolios"] \in {t, NoTxn}
  BY <1>1, <1>2, GrantedAt DEF WriteRow, Insert
<1>5. /\ writer["portfolios"] = t => before'[t] = before[t]
      /\ writer["portfolios"] = NoTxn => before'[t] = portfolio
  BY <1>2, <1>3, WriterSteps
<1>6. job' = job
  BY OthersStay
<1>7. Committed' = before'[t]
  BY <1>2, <1>3 DEF Committed
<1>8. Committed = before'[t]
  BY <1>2, <1>4, <1>5 DEF Committed
<1>9. ledger' = ledger
  BY DEF WriteRow, Insert
<1>10. HoldingsMatchLedger'
  BY <1>1, <1>7, <1>8, <1>9 DEF HoldingsMatchLedger, HoldingsIn
<1>11. pc[t] \in {"write", "insert"} /\ pc[t] \in OrderLabels
  BY DEF WriteRow, Insert, OrderLabels
<1>12. ASSUME NEW k \in Keys, pc'[t] # "abort"
       PROVE  (HoldingsIn(portfolio, k) =
                 HoldingsIn(before[t], k) + SoFar(t, k))'
  <2>1. pc' # [pc EXCEPT ![t] = "abort"]
    BY <1>1, <1>12
  <2>2. HoldingsIn(portfolio', k) = HoldingsIn(portfolio, k) + Delta(t, k)
    BY <2>1, WrittenHoldings, InsertedHoldings
  <2>3. NextOrder(t, "lookup")
    BY <1>1, <2>1, RowInserted DEF WriteRow
  <2>4. \/ pos'[t] = pos[t] + 1 /\ pc'[t] = "lookup"
        \/ /\ pos[t] = Len(Orders(t))
           /\ pos'[t] = pos[t] /\ pc'[t] = "commit"
    BY <1>1, <2>3, Moved
  <2>5. /\ Orders(t)' = Orders(t)
        /\ DOMAIN Orders(t) = 1 .. Len(Orders(t))
        /\ Len(Orders(t)) \in Nat
        /\ pos[t] \in DOMAIN Orders(t)
    BY <1>1, <1>6, JobFacts, OrderFacts DEF Orders
  <2>6. /\ pos[t] \notin Applied(t)
        /\ Applied(t)' = Applied(t) \cup {pos[t]}
    BY <1>11, <2>4, <2>5 DEF Applied
  <2>7. SoFar(t, k)' = SoFar(t, k) + Delta(t, k)
    BY <1>1, <1>6, <2>6, SoFarNext
  <2>8. HoldingsIn(portfolio, k) = HoldingsIn(before'[t], k) + SoFar(t, k)
    <3>1. CASE writer["portfolios"] = t
      BY <1>1, <1>5, <1>11, <3>1 DEF Balanced
    <3>2. CASE writer["portfolios"] = NoTxn
      <4>1. ~HasWritten(t)
        BY <1>1, <1>2, <3>2 DEF Locked
      <4>2. pos[t] = 1
        BY <1>1, <1>11, <4>1, OrderFacts DEF HasWritten
      <4>3. Applied(t) = {}
        BY <1>11, <2>5, <4>2 DEF Applied
      <4>4. SoFar(t, k) = 0
        BY <4>3, SoFarNothing
      <4>5. HoldingsIn(portfolio, k) \in Int
        BY <1>1, HoldingsNumber
      <4>6. HoldingsIn(before'[t], k) = HoldingsIn(portfolio, k)
        BY <1>5, <3>2
      <4>7. QED
        BY <4>4, <4>5, <4>6
    <3>3. QED
      BY <1>4, <3>1, <3>2
  <2>9. HoldingsIn(before'[t], k) \in Int
    BY <1>1, <1>4, <1>5, HoldingsNumber
  <2>10. SoFar(t, k) \in Int /\ Delta(t, k) \in Int
    BY <1>1, SoFarNumber, OrderFacts DEF Delta, Change
  <2>11. HoldingsIn(portfolio', k) = HoldingsIn(before'[t], k) + SoFar(t, k)'
    BY <2>2, <2>7, <2>8, <2>9, <2>10
  <2>12. QED
    BY <2>11 DEF HoldingsIn
<1>13. Balanced(t)'
  BY <1>12 DEF Balanced
<1>14. \A u \in Txns : u # t => Balanced(u)'
  BY <1>3 DEF Balanced
<1>15. QED
  BY <1>10, <1>13, <1>14

LEMMA BalancedOther ==
    ASSUME IInv, NEW t \in Txns, Act(t), NEW u \in Txns, u # t,
           \/ portfolio' = portfolio
           \/ writer["portfolios"] = t /\ writer'["portfolios"] # u
    PROVE  Balanced(u)'
<1> SUFFICES ASSUME writer'["portfolios"] = u, pc'[u] # "abort",
                    NEW k \in Keys
             PROVE  (HoldingsIn(portfolio, k) =
                       HoldingsIn(before[u], k) + SoFar(u, k))'
  BY DEF Balanced
<1>1. /\ Elsewhere(t) /\ job' = job /\ LocksElsewhere(t)
      /\ "portfolios" \in Pages
  BY OthersStay, LocksOfOthers, IdFacts
<1>2. /\ writer["portfolios"] = u /\ pc'[u] = pc[u] /\ pos'[u] = pos[u]
      /\ before'[u] = before[u]
  BY <1>1 DEF Elsewhere, LocksElsewhere
<1>3. portfolio' = portfolio
  BY <1>2
<1>4. Applied(u)' = Applied(u)
  BY <1>1, <1>2 DEF Applied, Orders
<1>5. SoFar(u, k)' = SoFar(u, k)
  BY <1>1, <1>4, SoFarSame
<1>6. HoldingsIn(portfolio, k) = HoldingsIn(before[u], k) + SoFar(u, k)
  BY <1>2 DEF IInv, Balanced
<1>7. QED
  BY <1>2, <1>3, <1>5, <1>6 DEF HoldingsIn

LEMMA BooksOfEnd ==
    ASSUME IInv, NEW t \in Txns, Act(t), Commit(t) \/ Abort(t)
    PROVE  (\A u \in Txns : Balanced(u)') /\ HoldingsMatchLedger'
<1>1. /\ Types /\ AtOrder(t) /\ Locked(t) /\ Balanced(t)
      /\ HoldingsMatchLedger
      /\ portfolio \in PortfolioTables /\ before \in [Txns -> PortfolioTables]
      /\ ledger \in [Keys -> Int]
      /\ writer \in [Pages -> Txns \cup {NoTxn}]
  BY DEF IInv, Types
<1>2. "portfolios" \in Pages /\ NoTxn # t /\ NoTxn \notin Txns
  BY IdFacts
<1>3. writer'["portfolios"] = IF writer["portfolios"] = t THEN NoTxn
                              ELSE writer["portfolios"]
  BY <1>1, <1>2, Released DEF Commit, Abort
<1>4. before' = before
  BY DEF Commit, Abort
<1>5. Balanced(t)'
  BY <1>2, <1>3 DEF Balanced
<1>6. ASSUME NEW u \in Txns, u # t PROVE Balanced(u)'
  <2>1. \/ portfolio' = portfolio
        \/ writer["portfolios"] = t /\ writer'["portfolios"] # u
    BY <1>2, <1>3 DEF Commit, Abort, tables
  <2>2. QED
    BY <1>6, <2>1, BalancedOther
<1>7. ASSUME Committed' = Committed, ledger' = ledger
      PROVE  HoldingsMatchLedger'
  BY <1>1, <1>7 DEF HoldingsMatchLedger, HoldingsIn
<1>8. CASE Abort(t)
  <2>1. Committed' = Committed
    BY <1>2, <1>3, <1>4, <1>8 DEF Committed, Abort
  <2>2. QED
    BY <1>5, <1>6, <1>7, <1>8, <2>1 DEF Abort
<1>9. CASE Commit(t)
  <2>1. portfolio' = portfolio /\ pc[t] = "commit"
    BY <1>9 DEF Commit, tables
  <2>2. ledger' = [k \in Keys |-> ledger[k] + Traded(t, k)]
    BY <1>9 DEF Commit
  <2>3. CASE writer["portfolios"] = t
    <3>1. Trading(t)
      BY <1>1, <2>3 DEF Locked
    <3>2. Committed' = portfolio /\ Committed = before[t]
      BY <1>2, <1>3, <2>1, <2>3 DEF Committed
    <3>3. ASSUME NEW k \in Keys PROVE HoldingsIn(portfolio, k) = ledger'[k]
      <4>1. HoldingsIn(portfolio, k) =
              HoldingsIn(before[t], k) + SoFar(t, k)
        BY <1>1, <2>1, <2>3 DEF Balanced
      <4>2. SoFar(t, k) = Traded(t, k)
        BY <1>1, <2>1, <3>1, SoFarAll
      <4>3. HoldingsIn(before[t], k) = ledger[k]
        BY <1>1, <3>2 DEF HoldingsMatchLedger
      <4>4. ledger'[k] = ledger[k] + Traded(t, k)
        BY <2>2
      <4>5. QED
        BY <4>1, <4>2, <4>3, <4>4
    <3>4. \A k \in Keys : HoldingsIn(Committed, k)' = ledger'[k]
      BY <3>2, <3>3 DEF HoldingsIn
    <3>5. QED
      BY <1>5, <1>6, <3>4 DEF HoldingsMatchLedger
  <2>4. CASE writer["portfolios"] # t
    <3>1. ~Trading(t)
      BY <1>1, <2>1, <2>4 DEF Locked, HasWritten
    <3>2. \A k \in Keys : ledger'[k] = ledger[k]
      <4>1. ASSUME NEW k \in Keys PROVE ledger'[k] = ledger[k]
        <5>1. Traded(t, k) = 0
          BY <3>1, TradedIs
        <5>2. ledger[k] \in Int /\ ledger'[k] = ledger[k] + 0
          BY <1>1, <2>2, <5>1
        <5>3. QED
          BY <5>2
      <4>2. QED
        BY <4>1
    <3>3. Committed' = Committed
      BY <1>3, <1>4, <2>1, <2>4 DEF Committed
    <3>4. \A k \in Keys : HoldingsIn(Committed, k)' = ledger'[k]
      BY <1>1, <3>2, <3>3 DEF HoldingsMatchLedger, HoldingsIn
    <3>5. QED
      BY <1>5, <1>6, <3>4 DEF HoldingsMatchLedger
  <2>5. QED
    BY <2>3, <2>4
<1>10. QED
  BY <1>8, <1>9

LEMMA BooksOfOther ==
    ASSUME IInv, NEW t \in Txns, Act(t), ~WriteRow(t), ~Insert(t),
           ~Commit(t), ~Abort(t)
    PROVE  (\A u \in Txns : Balanced(u)') /\ HoldingsMatchLedger'
<1>1. /\ Types /\ AtOrder(t) /\ Locked(t) /\ Balanced(t)
      /\ HoldingsMatchLedger
      /\ pc \in [Txns -> Labels]
      /\ writer \in [Pages -> Txns \cup {NoTxn}]
  BY DEF IInv, Types
<1>2. /\ "portfolios" \in Pages /\ "portfolios" \in Tables
      /\ job' = job
  BY OthersStay, IdFacts
<1>3. portfolio' = portfolio
  BY TableSteps
<1>4. /\ before' = before /\ ledger' = ledger
      /\ writer'["portfolios"] = writer["portfolios"]
  <2>1. CASE RefreshGet(t)
    <3>1. Order(t).symbol # "portfolios"
      BY <1>1, <1>2, OrderFacts
    <3>2. QED
      BY <1>1, <1>2, <2>1, <3>1 DEF RefreshGet
  <2>2. CASE Start(t) \/ Lookup(t) \/ ReadRow(t) \/ CheckPrice(t) \/ TakeId(t)
    BY <2>2 DEF Start, Lookup, ReadRow, CheckPrice, TakeId, locks
  <2>3. CASE Viewing(t) \/ RefreshPut(t) \/ GivesUp(t)
    BY <2>3 DEF Viewing, NextView, RefreshPut, GivesUp, Fails,
                locks
  <2>4. QED
    BY <2>1, <2>2, <2>3, ActCases
<1>5. Committed' = Committed
  BY <1>3, <1>4 DEF Committed
<1>6. HoldingsMatchLedger'
  BY <1>1, <1>4, <1>5 DEF HoldingsMatchLedger, HoldingsIn
<1>7. \A u \in Txns : u # t => Balanced(u)'
  BY <1>3, BalancedOther
<1>8. ASSUME writer["portfolios"] = t, pc'[t] # "abort"
      PROVE  pos'[t] = pos[t] /\ pc[t] # "commit" /\ pc'[t] # "commit"
  <2>1. Trading(t) /\ pc[t] \in OrderLabels \cup {"commit", "abort"}
    BY <1>1, <1>8 DEF Locked
  <2>2. ~(\/ Viewing(t) \/ RefreshGet(t)
          \/ RefreshPut(t) \/ Start(t))
    BY <1>1, <2>1
       DEF Viewing, RefreshGet, RefreshPut, Start, AtOrder,
           OrderLabels
  <2>3. ~GivesUp(t)
    BY <1>1, <1>8 DEF GivesUp, Fails, GoTo
  <2>4. Lookup(t) \/ ReadRow(t) \/ CheckPrice(t) \/ TakeId(t)
    BY <2>2, <2>3, ActCases
  <2>5. CASE Lookup(t)
    BY <1>1, <2>5 DEF Lookup, Unknown, NotFound, Found, GoTo
  <2>6. CASE ReadRow(t) \/ CheckPrice(t) \/ TakeId(t)
    BY <1>1, <2>6 DEF ReadRow, CheckPrice, TakeId, GoTo
  <2>7. QED
    BY <2>4, <2>5, <2>6
<1>9. Balanced(t)'
  <2> SUFFICES ASSUME writer'["portfolios"] = t, pc'[t] # "abort",
                      NEW k \in Keys
               PROVE  (HoldingsIn(portfolio, k) =
                         HoldingsIn(before[t], k) + SoFar(t, k))'
    BY DEF Balanced
  <2>1. pos'[t] = pos[t] /\ pc[t] # "commit" /\ pc'[t] # "commit"
    BY <1>4, <1>8
  <2>2. Applied(t)' = Applied(t)
    BY <1>2, <2>1 DEF Applied, Orders
  <2>3. SoFar(t, k)' = SoFar(t, k)
    BY <1>2, <2>2, SoFarSame
  <2>4. pc[t] # "abort"
    <3>1. ~GivesUp(t)
      BY <1>1 DEF GivesUp, Fails, GoTo
    <3>2. QED
      BY <3>1, ActCases
         DEF Start, Lookup, Unknown, NotFound, Found, ReadRow,
             CheckPrice, TakeId, Viewing, RefreshGet,
             RefreshPut
  <2>5. HoldingsIn(portfolio, k) = HoldingsIn(before[t], k) + SoFar(t, k)
    BY <1>1, <1>4, <2>4 DEF Balanced
  <2>6. QED
    BY <1>3, <1>4, <2>3, <2>5 DEF HoldingsIn
<1>10. QED
  BY <1>6, <1>7, <1>9

LEMMA BooksStep ==
    ASSUME IInv, NEW t \in Txns, Act(t)
    PROVE  (\A u \in Txns : Balanced(u)') /\ HoldingsMatchLedger'
BY BooksOfWrite, BooksOfEnd, BooksOfOther
-----------------------------------------------------------------------------
(* The tables as loaded have a share of each portfolio.                    *)
LEMMA LoadedTables ==
    ASSUME Init
    PROVE  portfolio \in PortfolioTables
<1>1. /\ Len(Held) \in Nat /\ Held \in [1 .. Len(Held) -> Keys]
      /\ MaxIds \in Nat
  BY TradeAssumption, LenProperties DEF Keys
<1>2. ASSUME NEW id \in Ids, id < Len(Held)
      PROVE  [account |-> Held[id + 1][1], symbol |-> Held[id + 1][2],
              hold |-> 1] \in Rows
  <2>1. id + 1 \in 1 .. Len(Held)
    BY <1>1, <1>2 DEF Ids
  <2>2. Held[id + 1] \in Keys
    BY <1>1, <2>1
  <2>3. QED
    BY <2>2 DEF Rows, Keys
<1>3. QED
  BY <1>2 DEF Init, PortfolioTables

LEMMA LoadedHoldings ==
    ASSUME Init, NEW k \in Keys
    PROVE  HoldingsIn(portfolio, k) = ledger[k]
<1>1. /\ Len(Held) \in Nat /\ Held \in [1 .. Len(Held) -> Keys]
      /\ DOMAIN Held = 1 .. Len(Held)
      /\ MaxIds \in Nat /\ MaxIds > Len(Held)
  BY TradeAssumption, LenProperties DEF Keys
<1> DEFINE H == {i \in DOMAIN Held : Held[i] = k}
           R == RowsOf(portfolio, k)
<1>2. ASSUME NEW id \in Ids
      PROVE  /\ id \in R <=> (id < Len(Held) /\ Held[id + 1] = k)
             /\ id \in R => portfolio[id].hold = 1
  <2>1. id \in Nat
    BY <1>1, IdFacts
  <2>2. CASE id < Len(Held)
    <3>1. id + 1 \in 1 .. Len(Held)
      BY <1>1, <2>1, <2>2
    <3>2. Held[id + 1] \in Keys
      BY <1>1, <3>1
    <3>3. Held[id + 1] = <<Held[id + 1][1], Held[id + 1][2]>>
      BY <3>2 DEF Keys
    <3>4. portfolio[id] = [account |-> Held[id + 1][1],
                           symbol |-> Held[id + 1][2], hold |-> 1]
      BY <2>2 DEF Init
    <3>5. KeyOf(portfolio[id]) = Held[id + 1] /\ portfolio[id].hold = 1
      BY <3>3, <3>4 DEF KeyOf
    <3>6. QED
      BY <2>2, <3>5 DEF RowsOf
  <2>3. CASE ~(id < Len(Held))
    <3>1. portfolio[id] = Absent
      BY <2>3 DEF Init
    <3>2. KeyOf(portfolio[id]) = <<"none", "none">>
      BY <3>1 DEF KeyOf, Absent
    <3>3. KeyOf(portfolio[id]) # k
      BY <3>2, IdFacts DEF Keys
    <3>4. QED
      BY <2>3, <3>3 DEF RowsOf
  <2>4. QED
    BY <2>2, <2>3
<1>3. portfolio \in PortfolioTables
  BY LoadedTables
<1>4. /\ HoldingsIn(portfolio, k) = SumFunctionOnSet(HoldOf(portfolio), R)
      /\ IsFiniteSet(R)
      /\ \A id \in Ids : HoldOf(portfolio)[id] = portfolio[id].hold
  BY <1>3, HoldingsNumber
<1>5. \A id \in R : HoldOf(portfolio)[id] = 1
  BY <1>2, <1>4 DEF RowsOf
<1>6. SumFunctionOnSet(HoldOf(portfolio), R) = Cardinality(R)
  BY <1>4, <1>5, SumOfOnes
<1>7. Cardinality(R) = Cardinality(H)
  <2> DEFINE f == [id \in R |-> id + 1]
  <2>1. \A id \in R : /\ id \in Ids /\ id \in Nat
                      /\ id + 1 \in H
    BY <1>1, <1>2, IdFacts DEF RowsOf
  <2>2. f \in Injection(R, H)
    BY <2>1 DEF Injection, IsInjective
  <2>3. f \in Surjection(R, H)
    <3>1. ASSUME NEW i \in H PROVE \E id \in R : f[id] = i
      <4>1. i \in 1 .. Len(Held) /\ Held[i] = k
        BY <1>1
      <4>2. i - 1 \in Ids /\ i - 1 < Len(Held) /\ (i - 1) + 1 = i
        BY <1>1, <4>1, IdFacts
      <4>3. i - 1 \in R
        BY <1>2, <4>1, <4>2
      <4>4. f[i - 1] = i
        BY <4>2, <4>3
      <4>5. QED
        BY <4>3, <4>4
    <3>2. QED
      BY <2>1, <3>1 DEF Surjection
  <2>4. ExistsBijection(R, H)
    BY <2>2, <2>3 DEF ExistsBijection, Bijection
  <2>5. QED
    BY <1>4, <2>4, FS_Bijection
<1>8. ledger[k] = Cardinality(H)
  BY DEF Init
<1>9. QED
  BY <1>4, <1>6, <1>7, <1>8

LEMMA HeldNumber ==
    \A k : Cardinality({i \in DOMAIN Held : Held[i] = k}) \in Int
<1> TAKE k
<1>1. /\ Len(Held) \in Nat /\ DOMAIN Held = 1 .. Len(Held)
  BY TradeAssumption, LenProperties DEF Keys
<1>2. IsFiniteSet(DOMAIN Held)
  BY <1>1, FS_Interval
<1>3. IsFiniteSet({i \in DOMAIN Held : Held[i] = k})
  BY <1>2, FS_Subset
<1>4. QED
  BY <1>3, FS_CardinalityType

LEMMA InitInv == Init => IInv
<1> SUFFICES ASSUME Init PROVE IInv
  OBVIOUS
<1>1. portfolio \in PortfolioTables
  BY LoadedTables
<1>2. Types
  <2>1. price \in [Quoted -> 0 .. MaxPrice]
    BY TradeAssumption DEF Init
  <2>2. nextId \in 0 .. MaxIds
    BY PresentNumber DEF Init
  <2>3. row \in [Txns -> 0 .. MaxIds]
    BY IdFacts DEF Init
  <2>4. ledger \in [Keys -> Int]
    BY HeldNumber DEF Init
  <2>5. /\ before \in [Txns -> PortfolioTables]
        /\ pc \in [Txns -> Labels]
    BY <1>1 DEF Init, Labels
  <2>6. /\ readers \in [Pages -> SUBSET Txns]
        /\ writer \in [Pages -> Txns \cup {NoTxn}]
        /\ job \in Plans /\ pos \in [Txns -> Nat] /\ held \in [Txns -> Int]
        /\ result \in [Txns -> {"none", "ok", "fail"}]
    BY DEF Init
  <2>7. QED
    BY <1>1, <2>1, <2>2, <2>3, <2>4, <2>5, <2>6 DEF Types
<1>3. Exclusive
  BY DEF Init, Exclusive
<1>4. writer["portfolios"] = NoTxn
  BY IdFacts DEF Init
<1>5. ASSUME NEW t \in Txns
      PROVE  /\ AtOrder(t) /\ Locked(t) /\ RowStays(t) /\ PriceHolds(t)
             /\ Balanced(t)
  <2>1. /\ pc[t] = "idle" /\ pos[t] = 1 /\ writer["portfolios"] # t
    BY <1>4, IdFacts DEF Init
  <2>2. 1 \in DOMAIN Orders(t)
    BY <1>2, JobFacts
  <2>3. ~HasRow(t) /\ ~HasWritten(t)
    BY <2>1 DEF HasRow, HasWritten, OrderLabels
  <2>4. AtOrder(t)
    BY <2>1, <2>2 DEF AtOrder, OrderLabels
  <2>5. Locked(t) /\ RowStays(t) /\ PriceHolds(t) /\ Balanced(t)
    BY <2>1, <2>3 DEF Locked, RowStays, PriceHolds, Balanced, OrderLabels
  <2>6. QED
    BY <2>4, <2>5
<1>6. HoldingsMatchLedger
  BY <1>4, LoadedHoldings DEF HoldingsMatchLedger, Committed
<1>7. QED
  BY <1>2, <1>3, <1>5, <1>6 DEF IInv

LEMMA NextInv == IInv /\ [Next]_vars => IInv'
<1> SUFFICES ASSUME IInv, [Next]_vars PROVE IInv'
  OBVIOUS
<1>1. Types'
  BY TypesStep
<1>2. ASSUME NEW t \in Txns, Act(t) PROVE IInv'
  BY <1>1, <1>2, LocksOfOthers, AtOrderStep, LockedStep, RowStep, PriceStep,
     BooksStep DEF IInv
<1>3. CASE /\ UNCHANGED <<portfolio, price, locks, job, pos, pc, row, held,
                          before, result, ledger>>
  <2> USE DEF locks
  <2>1. Exclusive' /\ HoldingsMatchLedger'
    BY <1>3 DEF IInv, Exclusive, HoldingsMatchLedger, HoldingsIn, Committed
  <2>2. ASSUME NEW t \in Txns
        PROVE  /\ AtOrder(t)' /\ Locked(t)' /\ RowStays(t)'
               /\ PriceHolds(t)' /\ Balanced(t)'
    <3>1. /\ Orders(t)' = Orders(t) /\ Order(t)' = Order(t)
          /\ Kind(t)' = Kind(t) /\ (Trading(t)' <=> Trading(t))
          /\ (HasRow(t)' <=> HasRow(t)) /\ (HasWritten(t)' <=> HasWritten(t))
          /\ Compared(t)' = Compared(t) /\ Applied(t)' = Applied(t)
      BY <1>3 DEF Orders, Order, Kind, Trading, HasRow, HasWritten, Compared,
                  Applied
    <3>2. AtOrder(t)' /\ Locked(t)'
      BY <1>3, <3>1 DEF IInv, AtOrder, Locked
    <3>3. RowStays(t)'
      BY <1>3, <3>1 DEF IInv, RowStays, KeyOf
    <3>4. PriceHolds(t)'
      BY <1>3, <3>1 DEF IInv, PriceHolds, GoodPrice
    <3>5. \A k : SoFar(t, k)' = SoFar(t, k)
      BY <1>3, <3>1, SoFarSame
    <3>6. Balanced(t)'
      BY <1>3, <3>5 DEF IInv, Balanced, HoldingsIn
    <3>7. QED
      BY <3>2, <3>3, <3>4, <3>6
  <2>3. QED
    BY <1>1, <2>1, <2>2 DEF IInv
<1>4. CASE Restart
  BY <1>3, <1>4 DEF Restart
<1>5. CASE UNCHANGED vars
  BY <1>3, <1>5 DEF vars, tables, locks
<1>6. QED
  BY <1>2, <1>4, <1>5, NextActs
-----------------------------------------------------------------------------
(* The invariant, whatever the transactions, the accounts and the symbols. *)
THEOREM TradeInvariant == Spec => []IInv
<1>1. Init => IInv
  BY InitInv
<1>2. IInv /\ [Next]_vars => IInv'
  BY NextInv
<1>3. QED
  BY <1>1, <1>2, PTL DEF Spec

(* Every variable has its type, and a page that a transaction writes is    *)
(* read by no other.                                                       *)
THEOREM TradeTypes == Spec => []TypeOK
<1>1. IInv => TypeOK
  <2> SUFFICES ASSUME IInv PROVE TypeOK
    OBVIOUS
  <2>1. Types /\ Exclusive
    BY DEF IInv
  <2>2. ASSUME NEW id \in Ids
        PROVE  \/ portfolio[id] = Absent
               \/ /\ portfolio[id].account \in Accounts
                  /\ portfolio[id].symbol \in Symbols
                  /\ portfolio[id].hold \in Int
    <3>1. portfolio[id] \in Rows \cup {Absent}
      BY <2>1 DEF Types, PortfolioTables
    <3>2. QED
      BY <3>1 DEF Rows
  <2>3. QED
    BY <2>1, <2>2 DEF TypeOK, Types, Exclusive
<1>2. QED
  BY <1>1, TradeInvariant, PTL

(* What is held is what was loaded and what committed transactions bought, *)
(* less what they sold: no change is lost or applied by halves.            *)
THEOREM HoldingsAreTraded == Spec => []HoldingsMatchLedger
<1>1. IInv => HoldingsMatchLedger
  BY DEF IInv
<1>2. QED
  BY <1>1, TradeInvariant, PTL

(* A transaction commits at prices that suit all its orders, whatever the  *)
(* refreshes do meanwhile.                                                 *)
THEOREM PricesHold == Spec => []OrdersAtGoodPrice
<1>1. IInv => OrdersAtGoodPrice
  <2> SUFFICES ASSUME IInv, NEW t \in Txns, pc[t] = "commit", Trading(t),
                      NEW i \in DOMAIN job[t].orders
               PROVE  GoodPrice(Kind(t), job[t].orders[i])
    BY DEF OrdersAtGoodPrice, Trading
  <2>1. Types /\ AtOrder(t) /\ PriceHolds(t)
    BY DEF IInv
  <2>2. pos[t] = Len(Orders(t))
    BY <2>1 DEF AtOrder
  <2>3. i \in 1 .. Len(Orders(t)) /\ Len(Orders(t)) \in Nat
    BY <2>1, JobFacts DEF Orders
  <2>4. i \in Compared(t)
    BY <2>2, <2>3 DEF Compared, Orders
  <2>5. QED
    BY <2>1, <2>4 DEF PriceHolds, Orders
<1>2. QED
  BY <1>1, TradeInvariant, PTL
-----------------------------------------------------------------------------
(* The transactions implement the book.  What that rests on besides the    *)
(* invariant: a transaction ends once, keeps to its kind, and has found    *)
(* the accounts and symbols of the orders whose prices it has compared; a  *)
(* view, and a refresh, has found the quotes.                              *)

Once(t) ==
    /\ pc[t] \in {"viewStock", "viewPortfolio"} => Kind(t) = pc[t]
    /\ pc[t] \in {"refresh", "put"} => Kind(t) = "refresh"
    /\ Kind(t) = "refresh" => pos[t] = 1
    /\ result[t] = "none" <=> pc[t] # "done"
    /\ (Trading(t) /\ pc[t] \in OrderLabels \cup {"commit"}) =>
          \A i \in Compared(t) : Known(Orders(t)[i])
    /\ pc[t] = "put" => Order(t).symbol \in Quoted
    /\ (Kind(t) = "viewStock" /\ pc[t] \in {"viewStock", "commit"}) =>
          \A i \in Compared(t) : Orders(t)[i].symbol \in Quoted
    /\ (Kind(t) = "viewStock" /\ pc[t] = "commit") => pos[t] = Len(Orders(t))

OnceInv == \A t \in Txns : Once(t)

LEMMA ResultStep ==
    ASSUME Types, NEW t \in Txns, Act(t)
    PROVE  /\ \A u \in Txns : u # t => result'[u] = result[u]
           /\ (Commit(t) \/ Abort(t)) \/ result' = result
<1>1. result \in [Txns -> {"none", "ok", "fail"}]
  BY DEF Types
<1>2. CASE \/ Start(t) \/ Lookup(t) \/ ReadRow(t) \/ CheckPrice(t)
           \/ WriteRow(t) \/ TakeId(t) \/ Insert(t)
  BY <1>2 DEF Start, Lookup, ReadRow, CheckPrice, WriteRow, TakeId, Insert
<1>3. CASE \/ Viewing(t) \/ RefreshGet(t)
           \/ RefreshPut(t) \/ GivesUp(t)
  BY <1>3 DEF Viewing, NextView, RefreshGet, RefreshPut,
              GivesUp, Fails
<1>4. CASE Commit(t) \/ Abort(t)
  BY <1>1, <1>4 DEF Commit, Abort
<1>5. QED
  BY <1>2, <1>3, <1>4, ActCases

LEMMA OnceStep ==
    ASSUME IInv, OnceInv, NEW t \in Txns, Act(t)
    PROVE  OnceInv'
<1>1. /\ Types /\ AtOrder(t) /\ Once(t)
      /\ \A u \in Txns : Once(u)
  BY DEF IInv, OnceInv
<1>2. Elsewhere(t) /\ job' = job
  BY OthersStay
<1>3. ASSUME NEW u \in Txns, u # t PROVE Once(u)'
  <2>1. result'[u] = result[u]
    BY <1>1, <1>3, ResultStep
  <2>2. QED
    BY <1>1, <1>2, <1>3, <2>1
       DEF Elsewhere, Once, Trading, Kind, Order, Orders, Compared
<1>4. /\ pc \in [Txns -> Labels] /\ pos \in [Txns -> Nat]
      /\ result \in [Txns -> {"none", "ok", "fail"}]
  BY <1>1 DEF Types
<1>5. /\ Orders(t)' = Orders(t) /\ Kind(t)' = Kind(t)
      /\ (Trading(t)' <=> Trading(t))
  BY <1>2 DEF Orders, Kind, Trading
<1> DEFINE Checked == (Trading(t) /\ pc[t] \in OrderLabels \cup {"commit"}) =>
                         \A i \in Compared(t) : Known(Orders(t)[i])
<1>6. ASSUME Trading(t), pc[t] \in OrderLabels,
             Compared(t)' \subseteq Compared(t)
      PROVE  Checked'
  BY <1>1, <1>5, <1>6 DEF Once
<1>7. ASSUME pc'[t] = "abort", pos'[t] = pos[t], pc[t] # "done",
             result' = result
      PROVE  Once(t)'
  BY <1>1, <1>5, <1>7 DEF Once, OrderLabels
<1>8. ASSUME Start(t) PROVE Once(t)'
  <2>1. /\ pos'[t] = pos[t] /\ result'[t] = result[t] /\ pc[t] = "idle"
        /\ pc'[t] = IF Trading(t) THEN "lookup" ELSE Kind(t)
    BY <1>4, <1>8 DEF Start, GoTo, Trading
  <2>2. Kind(t) \in {"purchase", "sale", "viewStock", "viewPortfolio",
                     "refresh"}
    BY <1>1, JobFacts
  <2>3. Compared(t)' = {}
    <3>1. pos[t] = 1
      BY <1>1, <2>1 DEF AtOrder
    <3>2. \A i \in DOMAIN Orders(t) : ~(i < 1)
      BY <1>1, JobFacts
    <3>3. pc'[t] \notin {"write", "newId", "insert", "commit"}
      BY <2>1, <2>2
    <3>4. QED
      BY <1>5, <2>1, <3>1, <3>2, <3>3 DEF Compared
  <2>4. QED
    BY <1>1, <1>5, <2>1, <2>2, <2>3 DEF Once, Trading, OrderLabels
<1>9. ASSUME pc[t] \in OrderLabels, pc'[t] \in {"read", "price", "insert"},
             pc[t] # "insert", pc[t] # "newId" => pc'[t] # "insert",
             pos'[t] = pos[t], result' = result
      PROVE  Once(t)'
  <2>1. Trading(t)
    BY <1>1, <1>9 DEF AtOrder
  <2>2. Compared(t)' \subseteq Compared(t)
    BY <1>5, <1>9 DEF Compared
  <2>3. QED
    BY <1>1, <1>5, <1>6, <1>9, <2>1, <2>2 DEF Once, Trading, OrderLabels
<1>10. ASSUME Lookup(t) PROVE Once(t)'
  <2>1. /\ pc[t] = "lookup" /\ pos'[t] = pos[t] /\ result' = result
        /\ pc'[t] \in {"abort", "price", "read"}
    BY <1>4, <1>10 DEF Lookup, Unknown, NotFound, Found, GoTo
  <2>2. QED
    BY <1>7, <1>9, <2>1 DEF OrderLabels
<1>11. ASSUME ReadRow(t) PROVE Once(t)'
  <2>1. /\ pc[t] = "read" /\ pos'[t] = pos[t] /\ result' = result
        /\ pc'[t] = "price"
    BY <1>4, <1>11 DEF ReadRow, GoTo
  <2>2. QED
    BY <1>9, <2>1 DEF OrderLabels
<1>12. ASSUME CheckPrice(t) PROVE Once(t)'
  <2>1. /\ pc[t] = "price" /\ pos'[t] = pos[t] /\ result' = result
        /\ pc'[t] \in {"abort", "newId", "write"}
    BY <1>4, <1>12 DEF CheckPrice, GoTo
  <2>2. Trading(t) /\ Known(Order(t))
    BY <1>1, <2>1 DEF AtOrder, OrderLabels
  <2>3. Compared(t)' \subseteq Compared(t) \cup {pos[t]}
    BY <1>5, <2>1 DEF Compared
  <2>4. Checked'
    BY <1>1, <1>5, <2>1, <2>2, <2>3 DEF Once, Order, Orders, OrderLabels
  <2>5. QED
    BY <1>1, <1>5, <2>1, <2>2, <2>4 DEF Once, Trading
<1>13. ASSUME NextOrder(t, "lookup"), pc[t] \in {"write", "insert"},
              result' = result
       PROVE  Once(t)'
  <2>1. \/ /\ pos[t] < Len(Orders(t))
           /\ pos'[t] = pos[t] + 1
           /\ pc'[t] = "lookup"
        \/ /\ pos[t] = Len(Orders(t))
           /\ pos'[t] = pos[t]
           /\ pc'[t] = "commit"
    BY <1>1, <1>4, <1>13, Moved
  <2>2. Trading(t)
    BY <1>1, <1>13 DEF AtOrder, OrderLabels
  <2>3. \A i \in DOMAIN Orders(t) : i \in Nat
    BY <1>1, JobFacts
  <2>4. Compared(t)' \subseteq Compared(t)
    BY <1>4, <1>5, <1>13, <2>1, <2>3 DEF Compared
  <2>5. Checked'
    BY <1>6, <1>13, <2>2, <2>4 DEF OrderLabels
  <2>6. QED
    BY <1>1, <1>5, <1>13, <2>1, <2>2, <2>5 DEF Once, Trading
<1>14. ASSUME WriteRow(t) PROVE Once(t)'
  BY <1>13, <1>14 DEF WriteRow
<1>15. ASSUME TakeId(t) PROVE Once(t)'
  <2>1. /\ pc[t] = "newId" /\ pos'[t] = pos[t] /\ result' = result
        /\ pc'[t] = "insert"
    BY <1>4, <1>15 DEF TakeId, GoTo
  <2>2. QED
    BY <1>9, <2>1 DEF OrderLabels
<1>16. ASSUME Insert(t) PROVE Once(t)'
  <2>1. \/ NextOrder(t, "lookup")
        \/ pc' = [pc EXCEPT ![t] = "abort"] /\ pos' = pos
    BY <1>1, <1>16, RowInserted
  <2>2. pc[t] = "insert" /\ result' = result
    BY <1>16 DEF Insert
  <2>3. QED
    BY <1>4, <1>7, <1>13, <2>1, <2>2
<1>17. ASSUME Viewing(t) PROVE Once(t)'
  <2>1. /\ NextOrder(t, pc[t]) /\ pc[t] \in {"viewStock", "viewPortfolio"}
        /\ result' = result
    BY <1>17 DEF Viewing, NextView
  <2>2. \/ /\ pos[t] < Len(Orders(t))
           /\ pos'[t] = pos[t] + 1
           /\ pc'[t] = pc[t]
        \/ /\ pos[t] = Len(Orders(t))
           /\ pos'[t] = pos[t]
           /\ pc'[t] = "commit"
    BY <1>1, <1>4, <2>1, Moved
  <2>3. Compared(t)' \subseteq Compared(t) \cup {pos[t]}
    <3>1. pos[t] \in Nat /\ \A i \in DOMAIN Orders(t) : i \in Nat
      BY <1>1, <1>4, JobFacts
    <3>2. QED
      BY <1>5, <2>1, <2>2, <3>1 DEF Compared
  <2>4. Kind(t) = pc[t]
    BY <1>1, <2>1 DEF Once
  <2>5. pc[t] = "viewStock" =>
           \A i \in Compared(t)' : Orders(t)[i].symbol \in Quoted
    BY <1>1, <1>17, <2>3, <2>4 DEF Once, Viewing, Order, Orders
  <2>6. QED
    BY <1>1, <1>5, <2>1, <2>2, <2>4, <2>5 DEF Once, Trading
<1>18. ASSUME RefreshGet(t) \/ RefreshPut(t) PROVE Once(t)'
  <2>1. /\ pc[t] \in {"refresh", "put"} /\ pc'[t] \in {"put", "commit"}
        /\ pos'[t] = pos[t] /\ result' = result
        /\ pc'[t] = "put" => Order(t).symbol \in Quoted
    BY <1>4, <1>18 DEF RefreshGet, RefreshPut, GoTo
  <2>2. Order(t)' = Order(t) /\ Kind(t) = "refresh"
    BY <1>1, <1>2, <2>1 DEF Order, Once
  <2>3. QED
    BY <1>1, <1>5, <2>1, <2>2 DEF Once, Trading
<1>19. ASSUME Commit(t) \/ Abort(t) PROVE Once(t)'
  <2>1. /\ pc'[t] = "done" /\ pos'[t] = pos[t] /\ result'[t] # "none"
    BY <1>4, <1>19 DEF Commit, Abort, GoTo
  <2>2. QED
    BY <1>1, <1>5, <2>1 DEF Once, OrderLabels
<1>20. ASSUME GivesUp(t) PROVE Once(t)'
  <2>1. /\ pc'[t] = "abort" /\ pos'[t] = pos[t] /\ result' = result
    BY <1>4, <1>20 DEF GivesUp, Fails, GoTo
  <2>2. pc[t] # "done"
    BY <1>20 DEF GivesUp
  <2>3. QED
    BY <1>7, <2>1, <2>2
<1>21. Once(t)'
  BY <1>8, <1>10, <1>11, <1>12, <1>14, <1>15, <1>16, <1>17, <1>18, <1>19,
     <1>20, ActCases
<1>22. QED
  BY <1>3, <1>21 DEF OnceInv

LEMMA OnceInvariant == Spec => []OnceInv
<1>1. Init => OnceInv
  <2> SUFFICES ASSUME Init, NEW t \in Txns PROVE Once(t)
    BY DEF OnceInv
  <2>1. pc[t] = "idle" /\ pos[t] = 1 /\ result[t] = "none"
    BY DEF Init
  <2>2. QED
    BY <2>1 DEF Once, OrderLabels
<1>2. IInv /\ OnceInv /\ [Next]_vars => OnceInv'
  <2> SUFFICES ASSUME IInv, OnceInv, [Next]_vars PROVE OnceInv'
    OBVIOUS
  <2>1. CASE UNCHANGED <<job, pos, pc, result>>
    BY <2>1 DEF OnceInv, Once, Trading, Kind, Order, Orders, Compared
  <2>2. CASE Restart
    BY <2>1, <2>2 DEF Restart
  <2>3. CASE UNCHANGED vars
    BY <2>1, <2>3 DEF vars
  <2>4. QED
    BY <2>2, <2>3, OnceStep, NextActs
<1>3. QED
  BY <1>1, <1>2, TradeInvariant, PTL DEF Spec

(* The mapping: the book is the ledger, for the books balance, ...         *)
BookNow == [k \in Keys |-> HoldingsIn(Committed, k)]

LEMMA BookIsLedger == IInv => BookNow = ledger
<1> SUFFICES ASSUME IInv PROVE BookNow = ledger
  OBVIOUS
<1>1. ledger \in [Keys -> Int]
  BY DEF IInv, Types
<1>2. \A k \in Keys : HoldingsIn(Committed, k) = ledger[k]
  BY DEF IInv, HoldingsMatchLedger
<1>3. QED
  BY <1>1, <1>2 DEF BookNow

(* ... and a transaction has ended when its result is there, or when it is *)
(* a refresh that has put the quote.                                       *)
OutcomeNow == [t \in Txns |-> IF Kind(t) = "refresh" /\ pc[t] = "commit"
                              THEN "ok" ELSE result[t]]

(* What a step that neither puts a quote nor ends the transaction changes  *)
(* cannot be seen in the book.                                             *)
LEMMA Unseen ==
    ASSUME IInv, IInv', OnceInv, NEW t \in Txns, Act(t),
           ~Commit(t), ~Abort(t), ~RefreshPut(t)
    PROVE  UNCHANGED <<BookNow, price, job, OutcomeNow>>
<1>1. Types /\ AtOrder(t) /\ Once(t)
  BY DEF IInv, OnceInv
<1>2. job' = job /\ result' = result /\ Elsewhere(t)
  BY <1>1, OthersStay, ResultStep
<1>3. ledger' = ledger /\ price' = price
  <2>1. CASE \/ Start(t) \/ Lookup(t) \/ ReadRow(t) \/ CheckPrice(t)
             \/ WriteRow(t) \/ TakeId(t) \/ Insert(t)
    BY <2>1 DEF Start, Lookup, ReadRow, CheckPrice, WriteRow, TakeId, Insert,
                tables
  <2>2. CASE Viewing(t) \/ RefreshGet(t) \/ GivesUp(t)
    BY <2>2 DEF Viewing, NextView, RefreshGet, GivesUp, Fails,
                tables
  <2>3. QED
    BY <2>1, <2>2, ActCases
<1>4. BookNow' = BookNow
  <2>1. BookNow = ledger
    BY BookIsLedger
  <2>2. BookNow' = ledger'
    <3>1. ledger' \in [Keys -> Int]
      BY DEF IInv, Types
    <3>2. \A k \in Keys : HoldingsIn(Committed', k) = ledger'[k]
      BY DEF IInv, HoldingsMatchLedger, HoldingsIn
    <3>3. BookNow' = [k \in Keys |-> HoldingsIn(Committed', k)]
      BY DEF BookNow, HoldingsIn
    <3>4. QED
      BY <3>1, <3>2, <3>3
  <2>3. QED
    BY <1>3, <2>1, <2>2
<1>5. Kind(t) = "refresh" => pc[t] # "commit" /\ pc'[t] # "commit"
  <2> SUFFICES ASSUME Kind(t) = "refresh"
               PROVE  pc[t] # "commit" /\ pc'[t] # "commit"
    OBVIOUS
  <2>1. pc \in [Txns -> Labels]
    BY <1>1 DEF Types
  <2>2. ~Trading(t) /\ pc[t] \notin OrderLabels
    BY <1>1 DEF AtOrder, Trading
  <2>3. pc[t] \notin {"viewStock", "viewPortfolio"}
    BY <1>1 DEF Once
  <2>4. CASE Start(t)
    BY <2>1, <2>4 DEF Start, GoTo
  <2>5. CASE \/ Lookup(t) \/ ReadRow(t) \/ CheckPrice(t)
             \/ WriteRow(t) \/ TakeId(t) \/ Insert(t)
    BY <2>2, <2>5 DEF Lookup, Unknown, NotFound, Found, ReadRow,
                      CheckPrice, WriteRow, TakeId, Insert, OrderLabels
  <2>6. CASE Viewing(t)
    BY <2>3, <2>6 DEF Viewing
  <2>7. CASE RefreshGet(t)
    BY <2>1, <2>7 DEF RefreshGet, GoTo
  <2>8. CASE GivesUp(t)
    <3>1. pc[t] # "commit"
      BY <2>8 DEF GivesUp
    <3>2. QED
      BY <2>1, <2>8, <3>1 DEF GivesUp, Fails, GoTo
  <2>9. QED
    BY <2>4, <2>5, <2>6, <2>7, <2>8, ActCases
<1>6. OutcomeNow' = OutcomeNow
  <2>1. \A u \in Txns : Kind(u)' = Kind(u)
    BY <1>2 DEF Kind
  <2>2. \A u \in Txns : (Kind(u) = "refresh" /\ pc'[u] = "commit") <=>
                           (Kind(u) = "refresh" /\ pc[u] = "commit")
    BY <1>2, <1>5 DEF Elsewhere
  <2>3. QED
    BY <1>2, <2>1, <2>2 DEF OutcomeNow
<1>7. QED
  BY <1>2, <1>3, <1>4, <1>6

(* Sums and sizes are the same in the book as here.                        *)
LEMMA SameSum ==
    ASSUME NEW f, NEW S
    PROVE  Book!SumFunctionOnSet(f, S) = SumFunctionOnSet(f, S)
BY Zenon DEF SumFunctionOnSet, FoldFunctionOnSet, MapThenFoldSet,
             Book!SumFunctionOnSet, Book!FoldFunctionOnSet, Book!MapThenFoldSet

LEMMA SameCardinality ==
    ASSUME NEW S
    PROVE  Book!Cardinality(S) = Cardinality(S)
BY Zenon DEF Cardinality, Book!Cardinality, IsFiniteSet, Book!IsFiniteSet

LEMMA BookSum ==
    ASSUME NEW t \in Txns, NEW k
    PROVE  Book!Sum(job[t].orders, k) = SumFunctionOnSet(Amounts(t), Mine(t, k))
<1>1. Book!Sum(job[t].orders, k)
         = Book!SumFunctionOnSet(Amounts(t), Mine(t, k))
  BY DEF Book!Sum, Amounts, Mine, KeyOf, Orders
<1>2. QED
  BY <1>1, SameSum, Zenon

(* The commit of a purchase or a sale is all of its orders at once.        *)
LEMMA CommitTrades ==
    ASSUME IInv, IInv', OnceInv, NEW t \in Txns, Commit(t), Trading(t)
    PROVE  Book!Trade(t)
<1>1. Types /\ AtOrder(t) /\ Once(t) /\ PriceHolds(t)
  BY DEF IInv, OnceInv
<1>2. pc[t] = "commit" /\ result' = [result EXCEPT ![t] = "ok"] /\ job' = job
      /\ price' = price /\ pc' = [pc EXCEPT ![t] = "done"]
      /\ ledger' = [k \in Keys |-> ledger[k] + Traded(t, k)]
  BY <1>1 DEF Commit, GoTo, tables, Types
<1>3. \A i \in DOMAIN job[t].orders :
         Book!Acceptable(job[t].kind, job[t].orders[i])
  <2> SUFFICES ASSUME NEW i \in DOMAIN Orders(t)
               PROVE  Book!Acceptable(Kind(t), Orders(t)[i])
    BY DEF Orders, Kind
  <2>1. i \in Compared(t)
    <3>1. pos[t] = Len(Orders(t))
      BY <1>1, <1>2 DEF AtOrder
    <3>2. i \in 1 .. Len(Orders(t)) /\ Len(Orders(t)) \in Nat
      BY <1>1, JobFacts
    <3>3. QED
      BY <1>2, <3>1, <3>2 DEF Compared
  <2>2. Known(Orders(t)[i])
    BY <1>1, <1>2, <2>1 DEF Once
  <2>3. Orders(t)[i].symbol \in Quoted /\ GoodPrice(Kind(t), Orders(t)[i])
    BY <1>1, <1>2, <2>1 DEF PriceHolds
  <2>4. QED
    BY <2>2, <2>3 DEF Book!Acceptable, GoodPrice, Known
<1>4. \A k \in Keys :
         /\ Kind(t) = "purchase" => Traded(t, k) = Book!Sum(job[t].orders, k)
         /\ Kind(t) = "sale" => Traded(t, k) = -Book!Sum(job[t].orders, k)
  BY BookSum, TradedIs
<1>5. \A k : Book!Sum(job[t].orders, k) \in Int
  <2> TAKE k
  <2>1. Mine(t, k) \in SUBSET (DOMAIN Orders(t))
    BY DEF Mine
  <2>2. SumFunctionOnSet(Amounts(t), Mine(t, k)) \in Int
    BY <1>1, <2>1, OrdersSum
  <2>3. QED
    BY <2>2, BookSum
<1>6. BookNow = ledger
  BY BookIsLedger
<1>7. /\ BookNow' = [k \in Keys |-> HoldingsIn(Committed', k)]
      /\ \A k \in Keys : HoldingsIn(Committed', k) = ledger'[k]
  BY DEF IInv, HoldingsMatchLedger, HoldingsIn, BookNow
<1>8. BookNow' = [k \in Keys |->
                    IF job[t].kind = "purchase"
                    THEN BookNow[k] + Book!Sum(job[t].orders, k)
                    ELSE BookNow[k] - Book!Sum(job[t].orders, k)]
  <2>1. \A k \in Keys : ledger[k] \in Int
    BY <1>1 DEF Types
  <2>2. \A k \in Keys : HoldingsIn(Committed', k) =
           IF job[t].kind = "purchase"
           THEN BookNow[k] + Book!Sum(job[t].orders, k)
           ELSE BookNow[k] - Book!Sum(job[t].orders, k)
    BY <1>2, <1>4, <1>5, <1>6, <1>7, <2>1 DEF Trading, Kind
  <2>3. QED
    BY <1>7, <2>2
<1>9. OutcomeNow[t] = "none" /\ OutcomeNow' = [OutcomeNow EXCEPT ![t] = "ok"]
  <2>1. Kind(t) # "refresh" /\ \A u \in Txns : Kind(u)' = Kind(u)
    BY <1>2 DEF Trading, Kind
  <2>2. result[t] = "none" /\ result \in [Txns -> {"none", "ok", "fail"}]
        /\ pc \in [Txns -> Labels]
    BY <1>1, <1>2 DEF Once, Types
  <2>3. \A u \in Txns : u # t => OutcomeNow'[u] = OutcomeNow[u]
    BY <1>2, <2>1, <2>2 DEF OutcomeNow
  <2>4. OutcomeNow[t] = "none" /\ OutcomeNow'[t] = "ok"
    BY <1>2, <2>1, <2>2 DEF OutcomeNow
  <2>5. /\ OutcomeNow = [u \in Txns |-> OutcomeNow[u]]
        /\ OutcomeNow' = [u \in Txns |-> OutcomeNow'[u]]
    BY DEF OutcomeNow
  <2>6. QED
    BY <2>3, <2>4, <2>5
<1>10. Book!Ends(t, "ok")
  BY <1>2, <1>9 DEF Book!Ends, OutcomeNow
<1>11. Keys = Book!Keys
  BY DEF Keys, Book!Keys
<1>12. QED
  BY <1>2, <1>3, <1>8, <1>10, <1>11 DEF Book!Trade, BookNow, Trading, Kind

(* Nothing in the book moves as long as the ledger stays.                  *)
LEMMA BookStays ==
    ASSUME IInv, IInv', ledger' = ledger
    PROVE  BookNow' = BookNow
<1>1. BookNow = ledger
  BY BookIsLedger
<1>2. ledger' \in [Keys -> Int]
  BY DEF IInv, Types
<1>3. \A k \in Keys : HoldingsIn(Committed', k) = ledger'[k]
  BY DEF IInv, HoldingsMatchLedger, HoldingsIn
<1>4. BookNow' = [k \in Keys |-> HoldingsIn(Committed', k)]
  BY DEF BookNow, HoldingsIn
<1>5. QED
  BY <1>1, <1>2, <1>3, <1>4

(* The commit of another transaction is no trade.                          *)
LEMMA CommitEnds ==
    ASSUME IInv, IInv', OnceInv, NEW t \in Txns, Commit(t), ~Trading(t)
    PROVE  Book!View(t) \/ UNCHANGED <<BookNow, price, job, OutcomeNow>>
<1>1. Types /\ AtOrder(t) /\ Once(t)
  BY DEF IInv, OnceInv
<1>2. /\ pc[t] = "commit" /\ result' = [result EXCEPT ![t] = "ok"]
      /\ job' = job /\ price' = price /\ pc' = [pc EXCEPT ![t] = "done"]
      /\ ledger' = [k \in Keys |-> ledger[k] + Traded(t, k)]
  BY <1>1 DEF Commit, GoTo, tables, Types
<1>3. ledger \in [Keys -> Int] /\ result \in [Txns -> {"none", "ok", "fail"}]
      /\ pc \in [Txns -> Labels]
  BY <1>1 DEF Types
<1>4. BookNow' = BookNow
  <2>1. \A k \in Keys : Traded(t, k) = 0
    BY TradedIs
  <2>2. ledger' = ledger
    BY <1>2, <1>3, <2>1
  <2>3. QED
    BY <2>2, BookStays
<1>5. \A u \in Txns : Kind(u)' = Kind(u)
  BY <1>2 DEF Kind
<1>6. \A u \in Txns : u # t => OutcomeNow'[u] = OutcomeNow[u]
  BY <1>2, <1>3, <1>5 DEF OutcomeNow
<1>7. OutcomeNow'[t] = "ok"
  BY <1>2, <1>3, <1>5 DEF OutcomeNow
<1>8. /\ OutcomeNow = [u \in Txns |-> OutcomeNow[u]]
      /\ OutcomeNow' = [u \in Txns |-> OutcomeNow'[u]]
  BY DEF OutcomeNow
<1>9. CASE Kind(t) = "refresh"
  <2>1. OutcomeNow[t] = "ok"
    BY <1>2, <1>9 DEF OutcomeNow
  <2>2. OutcomeNow' = OutcomeNow
    BY <1>6, <1>7, <1>8, <2>1
  <2>3. QED
    BY <1>2, <1>4, <2>2
<1>10. CASE Kind(t) # "refresh"
  <2>1. job[t].kind \in {"viewStock", "viewPortfolio"}
    BY <1>1, <1>10, JobFacts DEF Trading, Kind
  <2>2. OutcomeNow[t] = "none"
    BY <1>1, <1>2, <1>10 DEF OutcomeNow, Once
  <2>3. OutcomeNow' = [OutcomeNow EXCEPT ![t] = "ok"]
    BY <1>6, <1>7, <1>8
  <2>4. Book!Ends(t, "ok")
    BY <1>2, <2>2, <2>3 DEF Book!Ends, OutcomeNow
  <2>5. ASSUME job[t].kind = "viewStock", NEW i \in DOMAIN job[t].orders
        PROVE  job[t].orders[i].symbol \in Quoted
    <3>1. Kind(t) = "viewStock" /\ pos[t] = Len(Orders(t))
      BY <1>1, <1>2, <2>5 DEF Once, Kind
    <3>2. i \in 1 .. Len(Orders(t)) /\ Len(Orders(t)) \in Nat
      BY <1>1, <2>5, JobFacts DEF Orders
    <3>3. i \in Compared(t)
      BY <1>2, <2>5, <3>1, <3>2 DEF Compared, Orders
    <3>4. QED
      BY <1>1, <1>2, <3>1, <3>3 DEF Once, Orders
  <2>6. QED
    BY <1>2, <1>4, <2>1, <2>4, <2>5 DEF Book!View, BookNow
<1>11. QED
  BY <1>9, <1>10

(* An abort leaves nothing of the transaction, ...                         *)
LEMMA AbortFails ==
    ASSUME IInv, IInv', OnceInv, NEW t \in Txns, Abort(t)
    PROVE  Book!Fail(t)
<1>1. Types /\ Once(t)
  BY DEF IInv, OnceInv
<1>2. /\ pc[t] = "abort" /\ result' = [result EXCEPT ![t] = "fail"]
      /\ job' = job /\ price' = price /\ pc' = [pc EXCEPT ![t] = "done"]
      /\ ledger' = ledger
  BY <1>1 DEF Abort, GoTo
<1>3. result \in [Txns -> {"none", "ok", "fail"}] /\ pc \in [Txns -> Labels]
  BY <1>1 DEF Types
<1>4. BookNow' = BookNow
  BY <1>2, BookStays
<1>5. \A u \in Txns : Kind(u)' = Kind(u)
  BY <1>2 DEF Kind
<1>6. \A u \in Txns : u # t => OutcomeNow'[u] = OutcomeNow[u]
  BY <1>2, <1>3, <1>5 DEF OutcomeNow
<1>7. OutcomeNow[t] = "none" /\ OutcomeNow'[t] = "fail"
  BY <1>1, <1>2, <1>3, <1>5 DEF OutcomeNow, Once
<1>8. /\ OutcomeNow = [u \in Txns |-> OutcomeNow[u]]
      /\ OutcomeNow' = [u \in Txns |-> OutcomeNow'[u]]
  BY DEF OutcomeNow
<1>9. OutcomeNow' = [OutcomeNow EXCEPT ![t] = "fail"]
  BY <1>6, <1>7, <1>8
<1>10. Book!Ends(t, "fail")
  BY <1>2, <1>7, <1>9 DEF Book!Ends, OutcomeNow
<1>11. QED
  BY <1>2, <1>4, <1>10 DEF Book!Fail, BookNow

(* ... and a refresh is done when it has put the quote.                    *)
LEMMA PutRefreshes ==
    ASSUME IInv, IInv', OnceInv, NEW t \in Txns, RefreshPut(t)
    PROVE  Book!Refresh(t)
<1>1. Types /\ Once(t) /\ AtOrder(t)
  BY DEF IInv, OnceInv
<1>2. /\ pc[t] = "put" /\ result' = result /\ job' = job /\ ledger' = ledger
      /\ pc' = [pc EXCEPT ![t] = "commit"]
      /\ \E p \in {price[Order(t).symbol] - 1, price[Order(t).symbol] + 1} :
            price' = [price EXCEPT ![Order(t).symbol] = p]
      /\ Order(t).symbol \in Quoted
  BY <1>1 DEF RefreshPut, GoTo, Once
<1>3. result \in [Txns -> {"none", "ok", "fail"}] /\ pc \in [Txns -> Labels]
  BY <1>1 DEF Types
<1>4. Kind(t) = "refresh" /\ job[t].kind = "refresh"
      /\ Order(t) = job[t].orders[1]
  BY <1>1, <1>2 DEF Once, Kind, Order
<1>5. BookNow' = BookNow
  BY <1>2, BookStays
<1>6. \A u \in Txns : Kind(u)' = Kind(u)
  BY <1>2 DEF Kind
<1>7. \A u \in Txns : u # t => OutcomeNow'[u] = OutcomeNow[u]
  BY <1>2, <1>3, <1>6 DEF OutcomeNow
<1>8. OutcomeNow[t] = "none" /\ OutcomeNow'[t] = "ok"
  BY <1>1, <1>2, <1>3, <1>4, <1>6 DEF OutcomeNow, Once
<1>9. /\ OutcomeNow = [u \in Txns |-> OutcomeNow[u]]
      /\ OutcomeNow' = [u \in Txns |-> OutcomeNow'[u]]
  BY DEF OutcomeNow
<1>10. OutcomeNow' = [OutcomeNow EXCEPT ![t] = "ok"]
  BY <1>7, <1>8, <1>9
<1>11. Book!Ends(t, "ok")
  BY <1>2, <1>8, <1>10 DEF Book!Ends, OutcomeNow
<1>12. QED
  BY <1>2, <1>4, <1>5, <1>11 DEF Book!Refresh, BookNow

(* Every step of the code maps to a step of the book or to none.           *)
LEMMA BookStep ==
    ASSUME IInv, IInv', OnceInv, [Next]_vars
    PROVE  [Book!Next]_(Book!vars)
<1>1. ASSUME UNCHANGED <<BookNow, price, job, OutcomeNow>>
      PROVE  UNCHANGED Book!vars
  BY <1>1 DEF Book!vars, BookNow, OutcomeNow
<1>2. ASSUME NEW t \in Txns, Act(t)
      PROVE  \/ Book!Trade(t) \/ Book!Refresh(t) \/ Book!View(t)
             \/ Book!Fail(t)
             \/ UNCHANGED <<BookNow, price, job, OutcomeNow>>
  <2>1. CASE Commit(t)
    BY <2>1, CommitTrades, CommitEnds
  <2>2. CASE Abort(t)
    BY <2>2, AbortFails
  <2>3. CASE RefreshPut(t)
    BY <2>3, PutRefreshes
  <2>4. CASE ~Commit(t) /\ ~Abort(t) /\ ~RefreshPut(t)
    BY <1>2, <2>4, Unseen
  <2>5. QED
    BY <2>1, <2>2, <2>3, <2>4
<1>3. ASSUME UNCHANGED <<portfolio, price, writer, before, job, pc, result>>
      PROVE  UNCHANGED <<BookNow, price, job, OutcomeNow>>
  BY <1>3 DEF BookNow, OutcomeNow, Committed, HoldingsIn, Kind
<1>4. CASE Restart
  BY <1>1, <1>3, <1>4 DEF Restart, locks
<1>5. CASE UNCHANGED vars
  BY <1>1, <1>3, <1>5 DEF vars, tables, locks
<1>6. CASE \E t \in Txns : Act(t)
  BY <1>1, <1>2, <1>6 DEF Book!Next
<1>7. QED
  BY <1>4, <1>5, <1>6, NextActs

(* The transactions implement the book: whatever rows, locks, deadlocks,   *)
(* timeouts and aborts there are between them, what is committed is what   *)
(* whole jobs, one at a time, each at prices that suit it, have made of    *)
(* what was loaded.                                                        *)
THEOREM TradesImplementBook == Spec => BookSpec
<1>1. Init => Book!Init
  <2> SUFFICES ASSUME Init PROVE Book!Init
    OBVIOUS
  <2>1. IInv
    BY InitInv
  <2>2. BookNow = [k \in Keys |-> Cardinality({i \in DOMAIN Held :
                                                 Held[i] = k})]
    BY <2>1, BookIsLedger DEF Init
  <2>3. OutcomeNow = [t \in Txns |-> "none"]
    BY DEF Init, OutcomeNow
  <2>4. price = [s \in Quoted |-> 1] /\ job \in Plans
    BY DEF Init
  <2>5. Keys = Book!Keys
    BY DEF Keys, Book!Keys
  <2>6. BookNow = [k \in Book!Keys |->
                     Book!Cardinality({i \in DOMAIN Held : Held[i] = k})]
    BY <2>2, <2>5, SameCardinality
  <2>7. QED
    BY <2>3, <2>4, <2>6 DEF Book!Init, BookNow, OutcomeNow
<1>2. IInv /\ IInv' /\ OnceInv /\ [Next]_vars => [Book!Next]_(Book!vars)
  BY BookStep
<1>3. QED
  BY <1>1, <1>2, TradeInvariant, OnceInvariant, PTL
     DEF Spec, BookSpec, Book!Spec
-----------------------------------------------------------------------------
(* Nobody is left waiting.  What that rests on is that only a transaction  *)
(* that is under way holds locks.                                          *)

UnderWay(t) == pc[t] \notin {"idle", "done"}

NothingKept ==
    \A t \in Txns : ~UnderWay(t) =>
       \A p \in Pages : writer[p] # t /\ t \notin readers[p]

(* A transaction that the deadlock detector picks.                         *)
Victim(t) == \E T \in SUBSET Txns : /\ t \in T /\ Ring(T)
                                    /\ \A u \in T : WriteLocks(t)
                                                       <= WriteLocks(u)

(* From these no wait leads out: all transactions, or one and all that it  *)
(* waits for in the end.                                                   *)
Closed(T) == \A t \in T : \A u \in Txns : WaitsFor(t, u) => u \in T

NoStandstill == \A T \in SUBSET Txns :
    Closed(T) => \A t \in T : UnderWay(t) =>
                    \E u \in T : UnderWay(u) /\ (Granted(u) \/ Victim(u))

LEMMA KeptStep ==
    ASSUME IInv, NothingKept, NEW t \in Txns, Act(t)
    PROVE  NothingKept'
<1>1. Types /\ AtOrder(t) /\ pc \in [Txns -> Labels]
  BY DEF IInv, Types
<1>2. Elsewhere(t) /\ LocksElsewhere(t)
  BY OthersStay, LocksOfOthers
<1>3. ASSUME NEW u \in Txns, u # t, ~UnderWay(u)', NEW p \in Pages
      PROVE  writer'[p] # u /\ u \notin readers'[p]
  <2>1. ~UnderWay(u)
    BY <1>2, <1>3 DEF UnderWay, Elsewhere
  <2>2. QED
    BY <1>2, <1>3, <2>1 DEF NothingKept, LocksElsewhere
<1>4. CASE Commit(t) \/ Abort(t)
  <2>1. Release(t)
    BY <1>4 DEF Commit, Abort
  <2>2. \A p \in Pages : writer'[p] # t /\ t \notin readers'[p]
    BY <1>1, <2>1, Released, IdFacts
  <2>3. QED
    BY <1>3, <2>2 DEF NothingKept
<1>5. CASE ~Commit(t) /\ ~Abort(t)
  <2>1. UnderWay(t)'
    <3> USE DEF UnderWay, GoTo
    <3>1. CASE Start(t)
      <4>1. Kind(t) \in {"purchase", "sale", "viewStock", "viewPortfolio",
                         "refresh"}
        BY <1>1, JobFacts
      <4>2. QED
        BY <1>1, <3>1, <4>1 DEF Start
    <3>2. CASE Lookup(t)
      BY <1>1, <3>2 DEF Lookup, Unknown, NotFound, Found
    <3>3. CASE ReadRow(t) \/ CheckPrice(t) \/ TakeId(t)
      BY <1>1, <3>3 DEF ReadRow, CheckPrice, TakeId
    <3>4. CASE WriteRow(t)
      <4>1. NextOrder(t, "lookup")
        BY <3>4 DEF WriteRow
      <4>2. QED
        BY <1>1, <4>1, Moved
    <3>5. CASE Insert(t)
      <4>1. \/ NextOrder(t, "lookup")
            \/ pc' = [pc EXCEPT ![t] = "abort"] /\ pos' = pos
        BY <1>1, <3>5, RowInserted
      <4>2. CASE NextOrder(t, "lookup")
        BY <1>1, <4>2, Moved
      <4>3. CASE pc' = [pc EXCEPT ![t] = "abort"]
        BY <1>1, <4>3
      <4>4. QED
        BY <4>1, <4>2, <4>3
    <3>6. CASE Viewing(t)
      <4>1. NextOrder(t, pc[t]) /\ pc[t] \in {"viewStock", "viewPortfolio"}
        BY <3>6 DEF Viewing, NextView
      <4>2. QED
        BY <1>1, <4>1, Moved
    <3>7. CASE RefreshGet(t) \/ RefreshPut(t) \/ GivesUp(t)
      BY <1>1, <3>7 DEF RefreshGet, RefreshPut, GivesUp, Fails
    <3>8. QED
      BY <1>5, <3>1, <3>2, <3>3, <3>4, <3>5, <3>6, <3>7, ActCases
  <2>2. QED
    BY <1>3, <2>1 DEF NothingKept
<1>6. QED
  BY <1>4, <1>5

(* However a transaction ends, it keeps no lock.                           *)
THEOREM LocksGivenBack == Spec => []NothingKept
<1>1. Init => NothingKept
  BY IdFacts DEF Init, NothingKept
<1>2. IInv /\ NothingKept /\ [Next]_vars => NothingKept'
  <2> SUFFICES ASSUME IInv, NothingKept, [Next]_vars PROVE NothingKept'
    OBVIOUS
  <2>1. CASE UNCHANGED <<pc, locks>>
    BY <2>1 DEF NothingKept, UnderWay, locks
  <2>2. CASE Restart
    BY <2>1, <2>2 DEF Restart
  <2>3. CASE UNCHANGED vars
    BY <2>1, <2>3 DEF vars
  <2>4. QED
    BY <2>2, <2>3, KeptStep, NextActs
<1>3. QED
  BY <1>1, <1>2, TradeInvariant, PTL DEF Spec

(* So a wait is for one that is under way.                                 *)
LEMMA WaitUnderWay ==
    ASSUME IInv, NothingKept, NEW t \in Txns, NEW u \in Txns, WaitsFor(t, u)
    PROVE  UnderWay(t) /\ UnderWay(u)
<1>1. Types /\ AtOrder(t)
  BY DEF IInv
<1>2. Reads(t) \cup Writes(t) \subseteq Pages
  BY <1>1, WaitsAt, OrderFacts, IdFacts DEF Reads, Writes
<1>3. UnderWay(u)
  BY <1>2, WaitsAt DEF NothingKept
<1>4. UnderWay(t)
  BY WaitsAt DEF UnderWay
<1>5. QED
  BY <1>3, <1>4

(* Whoever waits in a set from which no wait leads out waits in a ring.    *)
LEMMA RingWithin ==
    ASSUME IsFiniteSet(Txns), NEW T \in SUBSET Txns, Stuck(T)
    PROVE  \E U \in SUBSET T : Ring(U)
<1> DEFINE Bad == {U \in SUBSET T : Stuck(U)}
<1>1. Bad \in SUBSET (SUBSET T) /\ T \in Bad
  OBVIOUS
<1>2. IsFiniteSet(T)
  BY FS_Subset
<1>3. \A U \in SUBSET T : Stuck(U) <=> U \in Bad
  OBVIOUS
<1> HIDE DEF Bad
<1>4. PICK U \in Bad : \A V \in Bad : V \subseteq U => V = U
  BY <1>1, <1>2, LeastSet
<1>5. U \in SUBSET T /\ Stuck(U)
  BY <1>1, <1>3, <1>4
<1>6. ASSUME NEW V \in SUBSET U, Stuck(V) PROVE V = U
  <2>1. V \in Bad
    BY <1>3, <1>5, <1>6
  <2>2. QED
    BY <1>4, <1>6, <2>1
<1>7. QED
  BY <1>5, <1>6 DEF Ring

(* One of them has the fewest write locks.                                 *)
LEMMA RingHasVictim ==
    ASSUME Types, IsFiniteSet(Pages), NEW U \in SUBSET Txns, Ring(U)
    PROVE  \E t \in U : Victim(t)
<1> DEFINE Counts == {WriteLocks(u) : u \in U}
<1>1. \A u \in U : WriteLocks(u) \in Nat
  <2> TAKE u \in U
  <2>1. {p \in Pages : writer[p] = u} \in SUBSET Pages
    OBVIOUS
  <2>2. IsFiniteSet({p \in Pages : writer[p] = u})
    BY <2>1, FS_Subset
  <2>3. QED
    BY <2>2, FS_CardinalityType DEF WriteLocks
<1>2. U # {}
  BY DEF Ring, Stuck
<1>3. Counts \in SUBSET Nat /\ Counts # {}
  BY <1>1, <1>2
<1>4. \A n \in Counts : \E u \in U : n = WriteLocks(u)
  OBVIOUS
<1>5. \A u \in U : WriteLocks(u) \in Counts
  OBVIOUS
<1> HIDE DEF Counts
<1>6. PICK n \in Counts : \A m \in Counts : n <= m
  BY <1>3, LeastNumber
<1>7. PICK t \in U : n = WriteLocks(t)
  BY <1>4, <1>6
<1>8. \A u \in U : WriteLocks(t) <= WriteLocks(u)
  BY <1>5, <1>6, <1>7
<1>9. Victim(t)
  BY <1>8 DEF Victim
<1>10. QED
  BY <1>9

(* Among all that a transaction waits for in the end there is one that has *)
(* the locks its next step needs, or one that the deadlock detector makes  *)
(* fail: no transaction waits for good.  This is the safety half of        *)
(* TxnsEnd, for any number of transactions, symbols and accounts.          *)
THEOREM NobodyWaitsForGood ==
    ASSUME IsFiniteSet(Txns), IsFiniteSet(Symbols)
    PROVE  Spec => []NoStandstill
<1>1. IInv /\ NothingKept => NoStandstill
  <2> SUFFICES ASSUME IInv, NothingKept, NEW T \in SUBSET Txns, Closed(T),
                      NEW t \in T, UnderWay(t)
               PROVE  \E u \in T : UnderWay(u) /\ (Granted(u) \/ Victim(u))
    BY DEF NoStandstill
  <2> DEFINE W == {u \in T : UnderWay(u)}
  <2>1. CASE \E u \in W : Granted(u)
    BY <2>1
  <2>2. CASE ~(\E u \in W : Granted(u))
    <3>1. \A w \in W : \E u \in W : WaitsFor(w, u)
      BY <2>2, WaitUnderWay DEF Granted, Closed
    <3>2. Stuck(W)
      BY <3>1 DEF Stuck
    <3>3. W \in SUBSET Txns
      OBVIOUS
    <3> HIDE DEF W
    <3>4. PICK U \in SUBSET W : Ring(U)
      BY <3>2, <3>3, RingWithin
    <3>5. IsFiniteSet(Pages)
      <4>1. IsFiniteSet({"portfolios"}) /\ IsFiniteSet({"byAccount"})
        BY FS_Singleton
      <4>2. IsFiniteSet({"portfolios"} \cup {"byAccount"})
        BY <4>1, FS_Union
      <4>3. Pages = ({"portfolios"} \cup {"byAccount"}) \cup Symbols
        BY DEF Pages, Tables
      <4>4. QED
        BY <4>2, <4>3, FS_Union
    <3>6. Types /\ U \in SUBSET Txns
      BY <3>3, <3>4 DEF IInv
    <3>7. PICK u \in U : Victim(u)
      BY <3>4, <3>5, <3>6, RingHasVictim
    <3>8. u \in W
      BY <3>4, <3>7
    <3>9. QED
      BY <3>7, <3>8 DEF W
  <2>3. QED
    BY <2>1, <2>2
<1>2. QED
  BY <1>1, TradeInvariant, LocksGivenBack, PTL
=============================================================================
