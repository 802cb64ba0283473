---------------------------- MODULE ClientCache ----------------------------
(***************************************************************************)
(* What chronos_cache.c computes: which users the threads of a client work *)
(* for and which symbolIds they can name.  The cache holds the first       *)
(* NumStocks lines of companylist.txt and the users "0" to NumUsers - 1;   *)
(* createPortfolios gives each thread portfolios of some of the users,     *)
(* with symbols drawn from the whole list.                                 *)
(***************************************************************************)
EXTENDS Integers

CONSTANTS NumClients,     (* numClientsThreads of the client               *)
          NumUsers,       (* CHRONOS_CLIENT_NUM_USERS                      *)
          NumStocks,      (* CHRONOS_CLIENT_NUM_STOCKS                     *)
          MinPortfolios,  (* portfolios a thread has at least              *)
          MaxPortfolios   (* and at most, which is the size of its array   *)

ASSUME CacheAssumption == /\ NumClients \in Nat \ {0}
                          /\ NumUsers \in Nat \ {0}
                          /\ NumStocks \in Nat \ {0}
                          /\ MinPortfolios \in Nat \ {0}
                          /\ MaxPortfolios \in Nat
                          /\ MinPortfolios <= MaxPortfolios

Clients == 1 .. NumClients
Users == 0 .. NumUsers - 1

Smaller(a, b) == IF a < b THEN a ELSE b
Larger(a, b) == IF a > b THEN a ELSE b

(* createPortfolios makes this many for each thread, the i-th of thread c  *)
(* for this user.                                                          *)
NumPortfolios ==
    Larger(Smaller(NumUsers \div NumClients, MaxPortfolios), MinPortfolios)
Portfolios == 0 .. NumPortfolios - 1

(* Faulty variants, see the properties of ClientLife: the portfolios of a  *)
(* thread start one after those of the thread before; rand() % (n + 1).    *)
UserOfNext(c, i) == (i + (c - 1)) % NumUsers
SymbolsAndOne == 0 .. NumStocks

UserOf(c, i) == (i + (NumPortfolios * (c - 1))) % NumUsers

(* A portfolio can hold any symbol of the list, under its place there.     *)
Symbols == 0 .. NumStocks - 1
=============================================================================
