----------------------------- MODULE TradeBook -----------------------------
(***************************************************************************)
(* What the stock-trade database promises the clients of the server: the   *)
(* transactions take effect one at a time and as a whole.  There is a book *)
(* of what the accounts hold and a list of quotes; no portfolio, page or   *)
(* lock can be told from here.                                             *)
(***************************************************************************)
EXTENDS Integers, Sequences, FiniteSets, Functions

CONSTANTS Txns,       (* the transactions                                  *)
          Plans,      (* what they may be asked to do                      *)
          Accounts,   (* the accounts there are                            *)
          Symbols,    (* the symbols that may be asked for                 *)
          Listed,     (* the symbols that may be traded                    *)
          Quoted,     (* the symbols that have a price                     *)
          Held        (* the keys of the portfolios that were loaded       *)

VARIABLES book,       (* how many stocks of a symbol an account holds      *)
          quotes,     (* the price of a symbol                             *)
          jobs,       (* what each transaction is asked to do              *)
          outcome     (* what has become of it                             *)

vars == <<book, quotes, jobs, outcome>>

Keys == Accounts \X Symbols

(* What the orders of a job come to for a key.                             *)
Sum(orders, k) ==
    SumFunctionOnSet([i \in DOMAIN orders |-> orders[i].amount],
                     {i \in DOMAIN orders : <<orders[i].account,
                                              orders[i].symbol>> = k})

(* What a purchase, or a sale, asks for an order: an account and a symbol  *)
(* that exist, and a price that suits it.                                  *)
Acceptable(kind, o) ==
    /\ o.account \in Accounts
    /\ o.symbol \in Listed \cap Quoted
    /\ IF kind = "purchase" THEN quotes[o.symbol] <= o.price
                            ELSE quotes[o.symbol] >= o.price

Init == /\ book = [k \in Keys |-> Cardinality({i \in DOMAIN Held :
                                                  Held[i] = k})]
        /\ quotes = [s \in Quoted |-> 1]
        /\ jobs \in Plans
        /\ outcome = [t \in Txns |-> "none"]

Ends(t, how) == /\ outcome[t] = "none"
                /\ outcome' = [outcome EXCEPT ![t] = how]
                /\ UNCHANGED jobs

(* All the orders of the job at once, every one of them at a price that is *)
(* good at that moment.                                                    *)
Trade(t) ==
    /\ jobs[t].kind \in {"purchase", "sale"}
    /\ \A i \in DOMAIN jobs[t].orders :
          Acceptable(jobs[t].kind, jobs[t].orders[i])
    /\ book' = [k \in Keys |-> IF jobs[t].kind = "purchase"
                               THEN book[k] + Sum(jobs[t].orders, k)
                               ELSE book[k] - Sum(jobs[t].orders, k)]
    /\ Ends(t, "ok")
    /\ UNCHANGED quotes

(* The quote of the item moves a step up or down.                          *)
Refresh(t) ==
    /\ jobs[t].kind = "refresh"
    /\ LET s == jobs[t].orders[1].symbol
       IN  /\ s \in Quoted
           /\ \E p \in {quotes[s] - 1, quotes[s] + 1} :
                 quotes' = [quotes EXCEPT ![s] = p]
    /\ Ends(t, "ok")
    /\ UNCHANGED book

(* The prices of all the symbols that are asked for, or the portfolios.    *)
View(t) == /\ jobs[t].kind \in {"viewStock", "viewPortfolio"}
           /\ jobs[t].kind = "viewStock" =>
                 \A i \in DOMAIN jobs[t].orders :
                    jobs[t].orders[i].symbol \in Quoted
           /\ Ends(t, "ok")
           /\ UNCHANGED <<book, quotes>>

(* It fails, for one of its items or for the locks, and nothing of it      *)
(* stays.                                                                  *)
Fail(t) == Ends(t, "fail") /\ UNCHANGED <<book, quotes>>

Next == \E t \in Txns : Trade(t) \/ Refresh(t) \/ View(t) \/ Fail(t)

Spec == Init /\ [][Next]_vars
=============================================================================
