---------------------------- MODULE MCTradeTxns ----------------------------
(***************************************************************************)
(* Two or three transactions on two symbols that are listed and quoted,    *)
(* one that has no quote and one that is not listed.                       *)
(***************************************************************************)
EXTENDS TradeTxns, TLC
CONSTANTS t1, t2, t3
TwoTxns == {t1, t2}
ThreeTxns == {t1, t2, t3}
TwoAccounts == {"u1", "u2"}
FourSymbols == {"IBM", "HP", "DEC", "SUN"}
ThreeListed == {"IBM", "HP", "DEC"}
ThreeQuoted == {"IBM", "HP", "SUN"}
OneHeld == << <<"u1", "IBM">> >>

Item(a, s, n) == [account |-> a, symbol |-> s, amount |-> n, price |-> 1]
Job(kind, orders) == [kind |-> kind, orders |-> orders]

(* Purchases of two symbols, of one symbol twice, one that fails at its    *)
(* last order, for a symbol that is not listed; every other kind; and one  *)
(* for a symbol that has no quote.                                         *)
JobList ==
    << Job("purchase", <<Item("u1", "IBM", 1), Item("u1", "HP", 2)>>),
       Job("purchase", <<Item("u2", "IBM", 1), Item("u2", "IBM", 2)>>),
       Job("purchase", <<Item("u1", "HP", 1), Item("u1", "SUN", 1)>>),
       Job("sale", <<Item("u1", "IBM", 1)>>),
       Job("refresh", <<Item("u1", "IBM", 0)>>),
       Job("viewStock", <<Item("u1", "IBM", 0)>>),
       Job("viewPortfolio", <<Item("u1", "IBM", 0), Item("u2", "IBM", 0)>>),
       Job("purchase", <<Item("u1", "DEC", 1)>>) >>

(* Transactions are interchangeable: which of them does a job is no        *)
(* matter.  Two of the three do the same, or they are a purchase, a sale   *)
(* and a refresh.                                                          *)
J == DOMAIN JobList
Combined(i, j, k) == \/ i < j /\ j = k
                     \/ i = j /\ j < k
                     \/ i < j /\ <<j, k>> = <<4, 5>>
ThreeOfAll ==
    {(t1 :> JobList[n[1]]) @@ (t2 :> JobList[n[2]]) @@ (t3 :> JobList[n[3]]) :
        n \in {m \in J \X J \X J : Combined(m[1], m[2], m[3])}}

TwoPurchases ==
    {[t \in TwoTxns |-> Job("purchase", <<Item("u1", "HP", 2)>>)]}
=============================================================================
