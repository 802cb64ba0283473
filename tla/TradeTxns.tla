----------------------------- MODULE TradeTxns -----------------------------
(***************************************************************************)
(* The transactions of the stock-trade database: purchases and sales of    *)
(* several orders, views, and refreshes of quotes, each in a thread of its *)
(* own on the shared benchmark handle (benchmark_common.c and the          *)
(* benchmark_*2 functions).  BerkeleyDB is external: it locks pages, waits *)
(* for locks (DB_TXN_WAIT), breaks deadlocks (DB_LOCK_MINWRITE) and, as    *)
(* all transactions are DB_READ_COMMITTED, gives the read lock of a cursor *)
(* back when the cursor moves or is closed.                                *)
(*                                                                         *)
(* The portfolios table and its index by account are a page each, and so   *)
(* is the quote of every symbol.  The tables of accounts and of symbols    *)
(* are never written, so reading them needs no lock here.                  *)
(***************************************************************************)
EXTENDS Integers, Sequences, FiniteSets, Functions

CONSTANTS Txns,       (* the transactions, each run once by one thread     *)
          Plans,      (* what the transactions may be asked to do          *)
          Accounts,   (* the accounts of the personal table                *)
          Symbols,    (* the symbols that may be asked for                 *)
          Listed,     (* the symbols of the stocks table                   *)
          Quoted,     (* the symbols of the quotes table                   *)
          Held,       (* the keys of the portfolios that were loaded       *)
          MaxIds,     (* bound of the model: portfolio ids in use          *)
          MaxPrice,   (* bound of the model: the highest price             *)
          NoTxn       (* the owner of a page nobody writes                 *)

ASSUME TradeAssumption == /\ NoTxn \notin Txns
                          /\ Listed \subseteq Symbols
                          /\ Quoted \subseteq Symbols
                          /\ Held \in Seq(Accounts \X Symbols)
                          /\ MaxIds \in Nat /\ MaxIds > Len(Held)
                          /\ MaxPrice \in Nat \ {0}
                          /\ {"portfolios", "byAccount"} \cap Symbols = {}
                          /\ "none" \notin Accounts

(* An order, which may name an account or a symbol that does not exist; a  *)
(* transaction has at least one, for chronosRequestCreate fills each       *)
(* packet with random_num_data_items, which are 3, and a refresh is of one *)
(* item.                                                                   *)
IsOrder(o) == o.symbol \in Symbols /\ o.amount \in Int /\ o.price \in Int

IsJob(j) == /\ j.kind \in {"purchase", "sale", "viewStock", "viewPortfolio",
                           "refresh"}
            /\ Len(j.orders) \in Nat \ {0}
            /\ DOMAIN j.orders = 1 .. Len(j.orders)
            /\ \A i \in DOMAIN j.orders : IsOrder(j.orders[i])

ASSUME PlansAssumption == \A plan \in Plans : \A t \in Txns : IsJob(plan[t])

VARIABLES portfolio,   (* the portfolios table: records by portfolio_id    *)
          price,       (* the quotes table: current_price of a symbol      *)
          nextId,      (* number_portfolios of the handle                  *)
          readers,     (* who holds a read lock on a page                  *)
          writer,      (* who holds the write lock of a page               *)
          job,         (* what each transaction does                       *)
          pos,         (* the order it is at                               *)
          pc,          (* where it is                                      *)
          row,         (* the portfolio id of that order                   *)
          held,        (* hold_stocks as the primary cursor read it        *)
          before,      (* the table before its first write, for the abort  *)
          result,      (* the return code of the transaction               *)
          restarted,   (* the server has been restarted                    *)
          ledger       (* history: loaded and bought less sold, by key     *)

tables == <<portfolio, price, nextId>>
locks == <<readers, writer>>
vars == <<tables, locks, job, pos, pc, row, held, before, result, restarted,
          ledger>>

Ids == 0 .. MaxIds - 1
Tables == {"portfolios", "byAccount"}
Pages == Tables \cup Symbols
Absent == [account |-> "none", symbol |-> "none", hold |-> 0]
Keys == Accounts \X Symbols
Labels == {"idle", "lookup", "read", "price", "write", "newId", "insert",
           "viewStock", "viewPortfolio", "refresh", "put", "commit", "abort",
          "done"}

Present == {id \in Ids : portfolio[id] # Absent}
Kind(t) == job[t].kind
Order(t) == job[t].orders[pos[t]]
GoTo(t, label) == pc' = [pc EXCEPT ![t] = label]
Locking(t, p) == readers' = [readers EXCEPT ![p] = @ \cup {t}]
WithoutReader(t, P) == [p \in Pages |-> IF p \in P THEN readers[p] \ {t}
                                                   ELSE readers[p]]

(* The price at which a purchase, or a sale, may go ahead.                 *)
GoodPrice(kind, order) == IF kind = "purchase"
                          THEN price[order.symbol] <= order.price
                          ELSE price[order.symbol] >= order.price
-----------------------------------------------------------------------------
(* Locks.  The pages the next step of a transaction reads or writes, and   *)
(* the transactions that step has to wait for.                             *)
Reads(t) == CASE pc[t] = "lookup" -> Tables
              [] pc[t] = "read" -> {"portfolios"}
              [] pc[t] \in {"price", "viewStock"} -> {Order(t).symbol}
              [] pc[t] = "viewPortfolio" -> Tables
              [] OTHER -> {}

Writes(t) == CASE pc[t] = "write" -> {"portfolios"}
               [] pc[t] = "insert" -> Tables
               [] pc[t] = "refresh" -> {Order(t).symbol}
               [] OTHER -> {}

WaitsFor(t, u) == /\ u # t
                  /\ \/ \E p \in Reads(t) \cup Writes(t) : writer[p] = u
                     \/ \E p \in Writes(t) : u \in readers[p]

Granted(t) == \A u \in Txns : ~WaitsFor(t, u)

(* Transactions that wait for one another in a ring.                       *)
Stuck(T) == T # {} /\ \A t \in T : \E u \in T : WaitsFor(t, u)
Ring(T) == Stuck(T) /\ \A U \in SUBSET T : Stuck(U) => U = T
WriteLocks(t) == Cardinality({p \in Pages : writer[p] = t})
-----------------------------------------------------------------------------
(* Faulty variants.  Each is a plausible bug in the definition it is named *)
(* after; the model uses none of them, the properties below are tried      *)
(* against them.                                                           *)

(* A transaction that fails keeps what it has written.                     *)
AbortKeepsRows(t) ==
    /\ pc[t] = "abort"
    /\ result' = [result EXCEPT ![t] = "fail"]
    /\ readers' = WithoutReader(t, Pages)
    /\ writer' = [p \in Pages |-> IF writer[p] = t THEN NoTxn ELSE writer[p]]
    /\ GoTo(t, "done")
    /\ UNCHANGED <<tables, job, pos, row, held, before, restarted, ledger>>

(* The cursor on the quote is closed when its price has been read.         *)
CheckPriceUnlocked(t) ==
    /\ pc[t] = "price" /\ Granted(t)
    /\ Order(t).symbol \in Quoted
    /\ \/ ~GoodPrice(Kind(t), Order(t)) /\ GoTo(t, "abort")
       \/ /\ GoodPrice(Kind(t), Order(t))
          /\ GoTo(t, IF row[t] = MaxIds THEN "newId" ELSE "write")
    /\ UNCHANGED <<tables, locks, job, pos, row, held, before, result,
                   restarted, ledger>>

(* Nobody set set_lk_detect.                                               *)
DeadlockUndetected(t) == FALSE /\ UNCHANGED vars

(* Account and symbol change places in the new row.                        *)
InsertSwapped(t) ==
    /\ pc[t] = "insert" /\ Granted(t)
    /\ writer' = [p \in Pages |-> IF p \in Tables THEN t ELSE writer[p]]
    /\ before' = IF writer["portfolios"] = t THEN before
                 ELSE [before EXCEPT ![t] = portfolio]
    /\ portfolio' = [portfolio EXCEPT ![row[t]] =
                       [account |-> Order(t).symbol,
                        symbol |-> Order(t).account,
                        hold |-> Order(t).amount]]
    /\ GoTo(t, "commit")
    /\ UNCHANGED <<price, nextId, readers, job, pos, row, held, result,
                   restarted, ledger>>
-----------------------------------------------------------------------------
(* Trading starts on the tables as loaded, with a share in each portfolio.  *)
Init == /\ portfolio = [id \in Ids |->
                          IF id < Len(Held)
                          THEN [account |-> Held[id + 1][1],
                                symbol |-> Held[id + 1][2], hold |-> 1]
                          ELSE Absent]
        /\ price = [s \in Quoted |-> 1]
        /\ nextId = Cardinality(Present)
        /\ readers = [p \in Pages |-> {}]
        /\ writer = [p \in Pages |-> NoTxn]
        /\ job \in Plans
        /\ pos = [t \in Txns |-> 1]
        /\ pc = [t \in Txns |-> "idle"]
        /\ row = [t \in Txns |-> MaxIds]
        /\ held = [t \in Txns |-> 0]
        /\ before = [t \in Txns |-> portfolio]
        /\ result = [t \in Txns |-> "none"]
        /\ restarted = FALSE
        /\ ledger = [k \in Keys |-> Cardinality({i \in DOMAIN Held :
                                                   Held[i] = k})]
-----------------------------------------------------------------------------
(* start_xact; benchmark_refresh_quotes2 begins in update_stock.           *)
Start(t) == /\ pc[t] = "idle"
            /\ GoTo(t, IF Kind(t) \in {"purchase", "sale"} THEN "lookup"
                                                          ELSE Kind(t))
            /\ UNCHANGED <<tables, locks, job, pos, row, held, before,
                           result, restarted, ledger>>

(* To the next order of the transaction, or to its end.                    *)
NextOrder(t, label) == IF pos[t] < Len(job[t].orders)
                       THEN /\ pos' = [pos EXCEPT ![t] = @ + 1]
                            /\ GoTo(t, label)
                       ELSE /\ GoTo(t, "commit")
                            /\ UNCHANGED pos

(* The rows get_portfolio may come across first in its scan of the index.  *)
Matches(order) == {id \in Present : /\ portfolio[id].account = order.account
                                    /\ portfolio[id].symbol = order.symbol}

(* account_exists and symbol_exists.                                       *)
Known(order) == order.account \in Accounts /\ order.symbol \in Listed

(* place_order and sell_stocks: these two, then get_portfolio, whose scan  *)
(* is one step here.  Its cursor stays open on a row that is found, and    *)
(* keeps the index locked.                                                 *)
Unknown(t) == /\ pc[t] = "lookup"
              /\ ~Known(Order(t))
              /\ GoTo(t, "abort")
              /\ UNCHANGED <<readers, row>>

NotFound(t) == /\ pc[t] = "lookup" /\ Granted(t)
               /\ Known(Order(t))
               /\ Matches(Order(t)) = {}
               /\ row' = [row EXCEPT ![t] = MaxIds]
               /\ GoTo(t, IF Kind(t) = "purchase" THEN "price" ELSE "abort")
               /\ UNCHANGED readers

Found(t) ==
    /\ pc[t] = "lookup" /\ Granted(t)
    /\ Known(Order(t))
    /\ \E id \in Matches(Order(t)) :
          /\ row' = [row EXCEPT ![t] = id]
          /\ IF Kind(t) = "sale" /\ portfolio[id].hold < Order(t).amount
             THEN GoTo(t, "abort") /\ UNCHANGED readers
             ELSE GoTo(t, "read") /\ Locking(t, "byAccount")

Lookup(t) == /\ Unknown(t) \/ NotFound(t) \/ Found(t)
             /\ UNCHANGED <<tables, writer, job, pos, held, before, result,
                            restarted, ledger>>

(* The row is read again, with a cursor on the primary table.              *)
ReadRow(t) == /\ pc[t] = "read" /\ Granted(t)
              /\ held' = [held EXCEPT ![t] = portfolio[row[t]].hold]
              /\ Locking(t, "portfolios")
              /\ GoTo(t, "price")
              /\ UNCHANGED <<tables, writer, job, pos, row, before, result,
                             restarted, ledger>>

(* get_stock leaves its cursor on the quote, and nobody closes it before   *)
(* the transaction ends.                                                   *)
ReadQuote(t) == Locking(t, Order(t).symbol)

(* The comparison with the price of the order.                             *)
CheckPrice(t) ==
    /\ pc[t] = "price" /\ Granted(t)
    /\ Order(t).symbol \in Quoted
    /\ ReadQuote(t)
    /\ \/ ~GoodPrice(Kind(t), Order(t)) /\ GoTo(t, "abort")
       \/ /\ GoodPrice(Kind(t), Order(t))
          /\ GoTo(t, IF row[t] = MaxIds THEN "newId" ELSE "write")
    /\ UNCHANGED <<tables, writer, job, pos, row, held, before, result,
                   restarted, ledger>>

(* A call of the transaction fails, and it is going to be undone.          *)
Fails(t) == /\ GoTo(t, "abort")
            /\ UNCHANGED <<tables, locks, job, pos, row, held, before, result,
                           restarted, ledger>>

(* get_stock finds no quote of the symbol, and closes its cursor; place_-  *)
(* order, sell_stocks, show_quote and update_stock fail.                   *)
NoQuote(t) == /\ pc[t] \in {"price", "viewStock", "refresh"}
              /\ Order(t).symbol \notin Quoted
              /\ Fails(t)

(* What a transaction needs to undo its writes.                            *)
SaveBefore(t) == before' = IF writer["portfolios"] = t THEN before
                           ELSE [before EXCEPT ![t] = portfolio]

(* put(DB_CURRENT), and both portfolio cursors are closed.                 *)
WriteRow(t) ==
    /\ pc[t] = "write" /\ Granted(t)
    /\ LET change == IF Kind(t) = "purchase" THEN Order(t).amount
                                             ELSE -Order(t).amount
       IN portfolio' = [portfolio EXCEPT ![row[t]].hold = held[t] + change]
    /\ SaveBefore(t)
    /\ writer' = [writer EXCEPT !["portfolios"] = t]
    /\ readers' = WithoutReader(t, Tables)
    /\ NextOrder(t, "lookup")
    /\ UNCHANGED <<price, nextId, job, row, held, result, restarted, ledger>>

(* create_portfolio: the id, with __sync_fetch_and_add, ...                *)
TakeId(t) == /\ pc[t] = "newId"
             /\ nextId < MaxIds
             /\ nextId' = nextId + 1
             /\ row' = [row EXCEPT ![t] = nextId]
             /\ GoTo(t, "insert")
             /\ UNCHANGED <<portfolio, price, locks, job, pos, held, before,
                            result, restarted, ledger>>

(* ... then put(DB_NOOVERWRITE), which refuses an id that is taken.        *)
Insert(t) ==
    /\ pc[t] = "insert" /\ Granted(t)
    /\ writer' = [p \in Pages |-> IF p \in Tables THEN t ELSE writer[p]]
    /\ SaveBefore(t)
    /\ \/ /\ row[t] \in Present
          /\ GoTo(t, "abort")
          /\ UNCHANGED <<portfolio, pos>>
       \/ /\ row[t] \notin Present
          /\ portfolio' = [portfolio EXCEPT ![row[t]] =
                             [account |-> Order(t).account,
                              symbol |-> Order(t).symbol,
                              hold |-> Order(t).amount]]
          /\ NextOrder(t, "lookup")
    /\ UNCHANGED <<price, nextId, readers, job, row, held, result, restarted,
                   ledger>>

(* What place_order and sell_stocks do for an order.                       *)
PlaceOrder(t) == \/ Lookup(t) \/ ReadRow(t) \/ CheckPrice(t) \/ WriteRow(t)
                 \/ TakeId(t) \/ Insert(t)

(* To the next symbol, or account, of a view.                              *)
NextView(t) == /\ NextOrder(t, pc[t])
               /\ UNCHANGED <<tables, locks, job, row, held, before, result,
                              restarted, ledger>>

(* show_quote closes its cursor behind each symbol, ...                    *)
ViewStock(t) == /\ pc[t] = "viewStock" /\ Granted(t)
                /\ Order(t).symbol \in Quoted
                /\ NextView(t)

(* ... and show_one_portfolio behind each account.                         *)
ViewPortfolio(t) == pc[t] = "viewPortfolio" /\ Granted(t) /\ NextView(t)

(* update_stock reads the quote with DB_RMW, ...                           *)
RefreshGet(t) == /\ pc[t] = "refresh" /\ Granted(t)
                 /\ Order(t).symbol \in Quoted
                 /\ writer' = [writer EXCEPT ![Order(t).symbol] = t]
                 /\ GoTo(t, "put")
                 /\ UNCHANGED <<tables, readers, job, pos, row, held, before,
                                result, restarted, ledger>>

(* ... moves its price a step up or down, and commits.                     *)
RefreshPut(t) ==
    /\ pc[t] = "put"
    /\ \E p \in {price[Order(t).symbol] - 1, price[Order(t).symbol] + 1} :
          /\ p \in 0 .. MaxPrice
          /\ price' = [price EXCEPT ![Order(t).symbol] = p]
    /\ GoTo(t, "commit")
    /\ UNCHANGED <<portfolio, nextId, locks, job, pos, row, held, before,
                   result, restarted, ledger>>

RefreshQuotes(t) == RefreshGet(t) \/ RefreshPut(t)

Release(t) ==
    /\ readers' = WithoutReader(t, Pages)
    /\ writer' = [p \in Pages |-> IF writer[p] = t THEN NoTxn ELSE writer[p]]

(* What the orders of a transaction add to the holdings of a key.          *)
Traded(t, k) ==
    LET orders == job[t].orders
        mine == {i \in DOMAIN orders : <<orders[i].account,
                                         orders[i].symbol>> = k}
        total == SumFunctionOnSet([i \in DOMAIN orders |-> orders[i].amount],
                                  mine)
    IN CASE Kind(t) = "purchase" -> total
         [] Kind(t) = "sale" -> -total
         [] OTHER -> 0

Commit(t) == /\ pc[t] = "commit"
             /\ Release(t)
             /\ ledger' = [k \in Keys |-> ledger[k] + Traded(t, k)]
             /\ result' = [result EXCEPT ![t] = "ok"]
             /\ GoTo(t, "done")
             /\ UNCHANGED <<tables, job, pos, row, held, before, restarted>>

(* An order failed: the whole transaction is undone.                       *)
Abort(t) == /\ pc[t] = "abort"
            /\ portfolio' = IF writer["portfolios"] = t THEN before[t]
                                                        ELSE portfolio
            /\ Release(t)
            /\ result' = [result EXCEPT ![t] = "fail"]
            /\ GoTo(t, "done")
            /\ UNCHANGED <<price, nextId, job, pos, row, held, before,
                           restarted, ledger>>

(* A call that waits for a lock fails, and the transaction with it.  (A     *)
(* scan of get_portfolio that fails looks like one that found nothing, but *)
(* no later call of the transaction that needs a lock succeeds.)  Only     *)
(* show_portfolios takes no notice when show_one_portfolio fails, goes on  *)
(* to the next account and commits, if BerkeleyDB lets it.                 *)
LockFails(t) == /\ ~Granted(t)
                /\ \/ Fails(t)
                   \/ pc[t] = "viewPortfolio" /\ NextView(t)

(* The deadlock detector picks the transaction in the ring that has the    *)
(* fewest write locks; ...                                                 *)
Deadlock(t) == /\ \E T \in SUBSET Txns :
                     /\ t \in T /\ Ring(T)
                     /\ \A u \in T : WriteLocks(t) <= WriteLocks(u)
               /\ LockFails(t)

(* ... and any wait may last longer than the ten seconds of set_timeout.   *)
LockTimeout(t) == LockFails(t)

(* The server is restarted between transactions: number_portfolios is the  *)
(* number of records then, not one more than the highest id.               *)
Restart == /\ ~restarted
           /\ \A t \in Txns : pc[t] \in {"idle", "done"}
           /\ restarted' = TRUE
           /\ nextId' = Cardinality(Present)
           /\ UNCHANGED <<portfolio, price, locks, job, pos, pc, row, held,
                          before, result, ledger>>

Step(t) == \/ Start(t) \/ PlaceOrder(t) \/ ViewStock(t) \/ ViewPortfolio(t)
           \/ RefreshQuotes(t) \/ NoQuote(t) \/ Commit(t) \/ Abort(t)

Next == \/ \E t \in Txns : Step(t) \/ Deadlock(t) \/ LockTimeout(t)
        \/ Restart

Spec == Init /\ [][Next]_vars

(* Every thread runs, a lock that is free is granted, and the detector     *)
(* runs at every conflict; nothing rests on the timeouts.                  *)
Fairness == \A t \in Txns : WF_vars(Step(t)) /\ WF_vars(Deadlock(t))

FairSpec == Spec /\ Fairness
-----------------------------------------------------------------------------
(* Every variable of the transactions has its type.                        *)
TypeOK == /\ \A id \in Ids : \/ portfolio[id] = Absent
                             \/ /\ portfolio[id].account \in Accounts
                                /\ portfolio[id].symbol \in Symbols
                                /\ portfolio[id].hold \in Int
          /\ price \in [Quoted -> 0 .. MaxPrice]
          /\ nextId \in 0 .. MaxIds
          /\ readers \in [Pages -> SUBSET Txns]
          /\ writer \in [Pages -> Txns \cup {NoTxn}]
          /\ \A p \in Pages : writer[p] # NoTxn => readers[p] \subseteq
                                                        {writer[p]}
          /\ job \in Plans
          /\ pc \in [Txns -> Labels]
          /\ row \in [Txns -> 0 .. MaxIds]
          /\ held \in [Txns -> Int]
          /\ result \in [Txns -> {"none", "ok", "fail"}]

(* The table as the last commit left it.                                   *)
Committed == IF writer["portfolios"] = NoTxn THEN portfolio
             ELSE before[writer["portfolios"]]

(* What the rows of a table hold of a key.                                 *)
HoldingsIn(table, k) ==
    SumFunctionOnSet([id \in Ids |-> table[id].hold],
                     {id \in Ids : <<table[id].account, table[id].symbol>> = k})

(* No purchase or sale is lost or applied by halves, although rows are     *)
(* read under shared locks and written later, and although a restart lets  *)
(* ids be drawn again: what was loaded, plus what committed transactions   *)
(* bought, less what they sold, is what the table holds.                   *)
HoldingsMatchLedger == \A k \in Keys : HoldingsIn(Committed, k) = ledger[k]

(* A refresh cannot slip in between the comparison of the price and the    *)
(* commit: a transaction commits at prices that suit all its orders.       *)
OrdersAtGoodPrice ==
    \A t \in Txns : (pc[t] = "commit" /\ Kind(t) \in {"purchase", "sale"})
       => \A i \in DOMAIN job[t].orders :
             GoodPrice(Kind(t), job[t].orders[i])

(* The book as the last commit left it.  A refresh takes effect when it    *)
(* puts the quote, for after that it has only its commit to do.            *)
Book == INSTANCE TradeBook WITH
            book    <- [k \in Keys |-> HoldingsIn(Committed, k)],
            quotes  <- price,
            jobs    <- job,
            outcome <- [t \in Txns |-> IF Kind(t) = "refresh" /\ pc[t] = "commit"
                                       THEN "ok" ELSE result[t]]

(* Whatever the order in which rows and quotes are read, written and       *)
(* undone, the transactions take effect one at a time and as a whole: each *)
(* once, a purchase or sale with all its orders, for accounts and symbols  *)
(* that exist and at prices that suit all of them at that moment, or with  *)
(* none.                                                                   *)
BookSpec == Book!Spec

(* Two transactions that read the same page and then both want to write it *)
(* wait for each other; every transaction ends all the same.               *)
TxnsEnd == \A t \in Txns : (pc[t] # "idle") ~> (pc[t] = "done")

(* "3) exists portfolio, 3.1) if so, update, 3.2) otherwise, create a new  *)
(* portfolio": an account has one portfolio for a symbol.                  *)
OnePortfolio == \A k \in Keys :
    Cardinality({id \in Ids : <<Committed[id].account,
                                Committed[id].symbol>> = k}) <= 1

=============================================================================
