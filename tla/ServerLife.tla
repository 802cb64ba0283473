----------------------------- MODULE ServerLife -----------------------------
(***************************************************************************)
(* A server process from main to its end, and the tables it leaves behind: *)
(* startup_server_2.c and startup_server.c, whose mains differ in the      *)
(* threads they start, the initial load of benchmark_initial_load.c and    *)
(* the opening and closing of the benchmark handle.  The process can fail  *)
(* at each of its steps and can be killed at any of them; another one can  *)
(* then be started on the same tables, with or without -n.                 *)
(*                                                                         *)
(* What the threads do while they run is in QueueServer and ChronosServer: *)
(* here they are counted.  BerkeleyDB is external: a table exists or not,  *)
(* holds the rows committed to it, and a process that is killed within a   *)
(* transaction leaves its locks, for no one asks for recovery.             *)
(***************************************************************************)
EXTENDS ClientCache, Sequences, FiniteSets

CONSTANTS Files,             (* the lines of companylist.txt: the symbol of
                                each, symbols being numbered in key order  *)
          Options,           (* command lines and builds                   *)
          UpdatesPerThread,  (* CHRONOS_NUM_STOCK_UPDATES_PER_UPDATE_THREAD *)
          MaxStarts,         (* bound of the model: processes started      *)
          NoSymbol           (* no handler is dispatching a view           *)

ASSUME ServerLifeAssumption ==
    /\ \A f \in Files : f \in Seq(Nat) /\ NumStocks <= Len(f)
    /\ Options \subseteq [initialLoad : BOOLEAN, numServerThreads : Nat,
                          numUpdateThreads : Nat]
    /\ UpdatesPerThread \in Nat
    /\ MaxStarts \in Nat
    /\ NoSymbol \notin Nat

VARIABLES file,      (* the companylist.txt both programs read             *)
          regions,   (* the files and the memory of the environment exist  *)
          created,   (* how many of Tables exist, in their order           *)
          rows,      (* the keys in each of the tables of Loads            *)
          stuck,     (* a killed process left a lock on the stocks         *)
          loader,    (* history: the process that created the first table  *)
          starts,    (* the processes started so far                       *)
          main,      (* where main of the present process is               *)
          progress,  (* tables opened, lines read or threads made there    *)
          rc,        (* rc of main                                         *)
          options,   (* the context processArguments fills                 *)
          handle,    (* benchmarkCtxtP                                     *)
          items,     (* dataItemsArray                                     *)
          szItems,   (* szDataItemsArray                                   *)
          running,   (* how many threads of each kind run                  *)
          timeToDie, (* time_to_die                                        *)
          asked,     (* the symbolId of the view a handler is dispatching  *)
          failed,    (* history: the calls of this process that failed     *)
          misused    (* history: it has released something twice           *)

tableVars == <<regions, created, rows, stuck, loader>>
ownVars == <<rc, handle, items, szItems>>
processVars == <<starts, options>>
threadVars == <<running, timeToDie, asked>>
historyVars == <<failed, misused>>
serverVars == <<file, tableVars, processVars, main, progress, ownVars,
                threadVars, historyVars>>

(* databases_setup opens them in this order; the index of the portfolios   *)
(* comes right after them.                                                 *)
Tables == <<"stocks", "quotes", "quotes_hist", "portfolios", "portfolios_sec",
            "accounts", "currencies", "personal">>
(* The four that benchmark_initial_load fills, in this order.  It is at    *)
(* one of them when main is.                                               *)
Loads == <<"personal", "stocks", "currencies", "quotes">>
Filled == {Loads[i] : i \in DOMAIN Loads}
(* The kinds of threads, in the order main makes them.  It makes threads   *)
(* of a kind when main is that kind.                                       *)
Kinds == <<"processing", "update", "listener">>
Threads == {Kinds[i] : i \in DOMAIN Kinds}
Joins == [listener |-> "joinListener", update |-> "joinUpdate",
          processing |-> "joinProcessing"]

(* The label after label in a sequence of them, or last.                   *)
After(seq, label, last) ==
    LET i == CHOOSE j \in DOMAIN seq : seq[j] = label
    IN  IF i < Len(seq) THEN seq[i + 1] ELSE last

(* What is in a data file; the others have one line.                       *)
Lines(t) == IF t = "stocks" THEN file ELSE <<0>>
Whole == \A t \in Filled : rows[t] = {Lines(t)[i] : i \in DOMAIN Lines(t)}

(* The symbol at index i of stocksListP, in the cache of a client.         *)
Cached(i) == file[i + 1]

(* The symbol at index i of dataItemsArray: the cursor of                  *)
(* benchmark_stocks_symbols_get goes through the stocks in key order.      *)
Item(i) == CHOOSE s \in rows["stocks"] :
               Cardinality({k \in rows["stocks"] : k < s}) = i

Wanted(k) == CASE k = "processing" -> options.numServerThreads
               [] k = "update" -> options.numUpdateThreads
               [] k = "listener" -> 1
NoOptions == [initialLoad |-> FALSE, numServerThreads |-> 0,
              numUpdateThreads |-> 0]
NoThreads == [k \in Threads |-> 0]
Alive == main # "off"
Goto(label) == main' = label /\ progress' = 0
-----------------------------------------------------------------------------
(* Faulty variants.  Each is a plausible bug in the definition it is named *)
(* after; the model uses none of them, the properties below are tried      *)
(* against them.                                                           *)

(* open_database without DB_EXCL.                                          *)
CreateOrOpen == /\ main = "create"
                /\ created' = Larger(created, progress + 1)
                /\ loader' = IF created = 0 THEN starts ELSE loader
                /\ IF progress + 1 < Len(Tables)
                   THEN progress' = progress + 1 /\ UNCHANGED main
                   ELSE Goto(Loads[1])
                /\ UNCHANGED <<file, regions, rows, stuck, processVars,
                               ownVars, threadVars, historyVars>>

(* A row that cannot be put ends the loop and not the load.                *)
EndOfLoop == /\ main \in Filled
             /\ Goto(After(Loads, main, "unload"))
             /\ UNCHANGED <<file, tableVars, processVars, ownVars, threadVars,
                            historyVars>>

(* main joins the listener only.                                           *)
JoinListener == /\ main = "joinListener"
                /\ running["listener"] = 0
                /\ Goto("cleanup")
                /\ UNCHANGED <<file, tableVars, processVars, ownVars,
                               threadVars, historyVars>>

(* The slices start one item late.                                         *)
FirstItemLate(u) == u * UpdatesPerThread + 1

(* A thread that has left leaves again.                                    *)
ThreadLeavesAgain(k) ==
    /\ timeToDie
    /\ running' = [running EXCEPT ![k] = @ - 1]
    /\ UNCHANGED <<file, tableVars, processVars, main, progress, ownVars,
                   timeToDie, asked, historyVars>>
-----------------------------------------------------------------------------
(* The part of dataItemsArray the u-th update thread gets.                 *)
FirstItem(u) == u * UpdatesPerThread
Slice(u) == FirstItem(u) .. FirstItem(u) + UpdatesPerThread - 1

(* The memory and the threads of a process that is not there.              *)
Reset == /\ options' = NoOptions
         /\ rc' = "ok"
         /\ handle' = "null"
         /\ items' = "null"
         /\ szItems' = 0
         /\ running' = NoThreads
         /\ timeToDie' = FALSE
         /\ asked' = NoSymbol
         /\ failed' = {}
         /\ misused' = FALSE

ServerInit == /\ file \in Files
              /\ regions = FALSE
              /\ created = 0
              /\ rows = [t \in Filled |-> {}]
              /\ stuck = FALSE
              /\ loader = 0
              /\ starts = 0
              /\ main = "off"
              /\ progress = 0
              /\ rc = "ok"
              /\ options = NoOptions
              /\ handle = "null"
              /\ items = "null"
              /\ szItems = 0
              /\ running = NoThreads
              /\ timeToDie = FALSE
              /\ asked = NoSymbol
              /\ failed = {}
              /\ misused = FALSE

Start == /\ main = "off"
         /\ starts < MaxStarts
         /\ starts' = starts + 1
         /\ options' \in Options
         /\ Goto("setup")
         /\ UNCHANGED <<file, tableVars, ownVars, threadVars, historyVars>>

(* The process is gone, with its threads and its memory.                   *)
Ends == /\ Goto("off")
        /\ Reset
        /\ UNCHANGED <<file, regions, created, rows, loader, starts>>

(* A signal main does not handle.  The transaction that loads a row may be *)
(* open.                                                                   *)
Kill == /\ Alive
        /\ stuck' \in {stuck, stuck \/ main = "stocks"}
        /\ Ends

(* The context, the arguments, the signal, the mutexes and the conditions. *)
Setup == /\ main = "setup"
         /\ Goto(IF options.initialLoad THEN "createEnv" ELSE "openEnv")
         /\ UNCHANGED <<file, tableVars, processVars, ownVars, threadVars,
                        historyVars>>

(* open_environment, with DB_CREATE in benchmark_initial_load only.        *)
OpenEnvironment ==
    /\ \/ main = "createEnv" /\ regions' = TRUE /\ Goto("create")
       \/ main = "openEnv" /\ regions /\ UNCHANGED regions /\ Goto("open")
    /\ UNCHANGED <<file, created, rows, stuck, loader, processVars, ownVars,
                   threadVars, historyVars>>

(* open_database with DB_EXCL, from benchmark_initial_load.                *)
Create == /\ main = "create"
          /\ created = progress
          /\ created' = created + 1
          /\ loader' = IF created = 0 THEN starts ELSE loader
          /\ IF created + 1 < Len(Tables)
             THEN progress' = progress + 1 /\ UNCHANGED main
             ELSE Goto(Loads[1])
          /\ UNCHANGED <<file, regions, rows, stuck, processVars, ownVars,
                         threadVars, historyVars>>

(* The next line of the data file at hand, in a transaction of its own.    *)
PutRow == /\ progress < Len(Lines(main))
          /\ rows' = [rows EXCEPT ![main] = @ \cup {Lines(main)[progress + 1]}]
          /\ progress' = progress + 1
          /\ UNCHANGED <<file, regions, created, stuck, loader, processVars,
                         main, ownVars, threadVars, historyVars>>

(* DB_NOOVERWRITE: the put fails for a key that is there.                  *)
NewKey == Lines(main)[progress + 1] \notin rows[main]

LoadPersonal == main = "personal" /\ PutRow /\ NewKey
LoadStocks == main = "stocks" /\ PutRow /\ NewKey
LoadQuotes == main = "quotes" /\ PutRow /\ NewKey
(* The same currency for several countries.                                *)
LoadCurrencies == main = "currencies" /\ PutRow

EndOfFile == /\ main \in Filled
             /\ progress = Len(Lines(main))
             /\ Goto(After(Loads, main, "unload"))
             /\ UNCHANGED <<file, tableVars, processVars, ownVars, threadVars,
                            historyVars>>

(* benchmark_handle_free at the end of the load.  When it fails the same   *)
(* handle is freed once more.                                              *)
Unload == /\ main = "unload"
          /\ \/ Goto("openEnv") /\ UNCHANGED historyVars
             \/ /\ Goto("failXit")
                /\ failed' = failed \cup {"close"}
                /\ misused' = TRUE
          /\ UNCHANGED <<file, tableVars, processVars, ownVars, threadVars>>

(* open_database without DB_CREATE, from benchmark_handle_alloc.           *)
Open == /\ main = "open"
        /\ progress < created
        /\ IF progress + 1 < Len(Tables)
           THEN progress' = progress + 1 /\ UNCHANGED main
           ELSE Goto("symbols")
        /\ UNCHANGED <<file, tableVars, processVars, ownVars, threadVars,
                       historyVars>>

(* The symbols and the number of portfolios complete the handle.           *)
ReadSymbols == /\ main = "symbols"
               /\ ~stuck
               /\ handle' = "open"
               /\ Goto("items")
               /\ UNCHANGED <<file, tableVars, processVars, rc, items, szItems,
                              threadVars, historyVars>>

MakeItems == /\ main = "items"
             /\ items' = "live"
             /\ szItems' = Cardinality(rows["stocks"])
             /\ Goto(Kinds[1])
             /\ UNCHANGED <<file, tableVars, processVars, rc, handle,
                            threadVars, historyVars>>

Spawn == /\ main \in Threads
         /\ progress < Wanted(main)
         /\ running' = [running EXCEPT ![main] = @ + 1]
         /\ progress' = progress + 1
         /\ UNCHANGED <<file, tableVars, processVars, main, ownVars, timeToDie,
                        asked, historyVars>>

Spawned == /\ main \in Threads
           /\ progress = Wanted(main)
           /\ Goto(After(Kinds, main, Joins["listener"]))
           /\ UNCHANGED <<file, tableVars, processVars, ownVars, threadVars,
                          historyVars>>

(* goto failXit: whatever main was doing on its way up has failed, the     *)
(* handle it was about to get is not there.                                *)
StepFails ==
    /\ main \in {"setup", "createEnv", "create", "openEnv", "open", "symbols",
                "items"} \cup Filled \cup Threads
    /\ failed' = failed \cup {IF main \in Threads THEN "spawn" ELSE "start"}
    /\ Goto("failXit")
    /\ UNCHANGED <<file, tableVars, processVars, ownVars, threadVars, misused>>

Join == /\ \/ /\ main = "joinListener" /\ running["listener"] = 0
              /\ Goto("joinUpdate")
           \/ /\ main = "joinUpdate" /\ running["update"] = 0
              /\ Goto("joinProcessing")
           \/ /\ main = "joinProcessing" /\ running["processing"] = 0
              /\ Goto("cleanup")
        /\ UNCHANGED <<file, tableVars, processVars, ownVars, threadVars,
                       historyVars>>

FailXit == /\ main = "failXit"
           /\ rc' = "fail"
           /\ Goto("cleanup")
           /\ UNCHANGED <<file, tableVars, processVars, handle, items, szItems,
                          threadVars, historyVars>>

(* The mutexes, the conditions and dataItemsArray, which keeps its value.  *)
FreeItems == /\ main = "cleanup"
             /\ items' = IF items = "null" THEN "null" ELSE "freed"
             /\ misused' = (misused \/ items = "freed")
             /\ Goto("free")
             /\ UNCHANGED <<file, tableVars, processVars, rc, handle, szItems,
                            threadVars, failed>>

(* benchmark_handle_free, and the end of main.                             *)
FreeHandle == /\ main = "free"
              /\ UNCHANGED stuck
              /\ Ends

(* A table or the environment cannot be closed: main goes to failXit, with *)
(* a handle whose tables are closed in part.                               *)
FreeHandleFails == /\ main = "free"
                   /\ handle # "null"
                   /\ handle' = "broken"
                   /\ failed' = failed \cup {"close"}
                   /\ misused' = (misused \/ handle = "broken")
                   /\ Goto("failXit")
                   /\ UNCHANGED <<file, tableVars, processVars, rc, items,
                                  szItems, threadVars>>

(* The listener also leaves when one of its calls fails.                   *)
ThreadLeaves(k) == /\ running[k] > 0
                   /\ timeToDie \/ k = "listener"
                   /\ running' = [running EXCEPT ![k] = @ - 1]
                   /\ UNCHANGED <<file, tableVars, processVars, main, progress,
                                  ownVars, timeToDie, asked, historyVars>>

Sigint == /\ Alive
          /\ timeToDie' = TRUE
          /\ UNCHANGED <<file, tableVars, processVars, main, progress, ownVars,
                         running, asked, historyVars>>

(* The request of a handler, which the listener has made: dispatchTableFn  *)
(* counts the accesses to a stock under its symbolId.  Handlers are        *)
(* detached and can still be there when the listener has gone.             *)
Dispatch(symbolId) ==
    /\ running["listener"] > 0
    /\ asked = NoSymbol
    /\ asked' = symbolId
    /\ UNCHANGED <<file, tableVars, processVars, main, progress, ownVars,
                   running, timeToDie, historyVars>>

Dispatched == /\ asked # NoSymbol
              /\ asked' = NoSymbol
              /\ UNCHANGED <<file, tableVars, processVars, main, progress,
                             ownVars, running, timeToDie, historyVars>>

ServerNext == \/ Start \/ Kill \/ Setup \/ OpenEnvironment \/ Create
              \/ LoadPersonal \/ LoadStocks \/ LoadCurrencies \/ LoadQuotes
              \/ EndOfFile \/ Unload
              \/ Open \/ ReadSymbols \/ MakeItems \/ Spawn \/ Spawned
              \/ StepFails \/ Join \/ FailXit \/ FreeItems \/ FreeHandle
              \/ FreeHandleFails \/ Sigint
              \/ \E k \in Threads : ThreadLeaves(k)
              \/ \E s \in Symbols : Dispatch(s)
              \/ Dispatched

ServerSpec == ServerInit /\ [][ServerNext]_serverVars
-----------------------------------------------------------------------------
(* What main goes through after the load.                                  *)
Loaded == {"openEnv", "open", "symbols", "items"}
          \cup Threads \cup {Joins[k] : k \in Threads}

(* Every variable has a value of its kind.                                 *)
ServerTypeOK ==
    /\ file \in Files
    /\ regions \in BOOLEAN
    /\ created \in 0 .. Len(Tables)
    /\ rows \in [Filled -> SUBSET Nat]
    /\ stuck \in BOOLEAN
    /\ starts \in 0 .. MaxStarts
    /\ loader \in 0 .. starts
    /\ main \in {"off", "setup", "createEnv", "create", "unload", "failXit",
                 "cleanup", "free"} \cup Filled \cup Loaded
    /\ progress \in Nat
    /\ rc \in {"ok", "fail"}
    /\ options \in Options \cup {NoOptions}
    /\ handle \in {"null", "open", "broken"}
    /\ items \in {"null", "live", "freed"}
    /\ szItems \in Nat
    /\ running \in [Threads -> Nat]
    /\ timeToDie \in BOOLEAN
    /\ asked \in Symbols \cup {NoSymbol}
    /\ failed \subseteq {"start", "spawn", "close"}
    /\ misused \in BOOLEAN

(* A server that was to load its tables and is past the load has every     *)
(* line of every data file in them, whatever failed loads and killed       *)
(* processes there were before.                                            *)
LoadIsWhole ==
    options.initialLoad /\ main \in Loaded \cup {"unload"} => Whole

(* Only the process that created the tables adds to them: what a load that *)
(* failed or was killed has left, no later one completes.                  *)
OneLoader ==
    [][created' # created \/ rows' # rows => loader' = starts]_serverVars

(* As long as every thread can be made and every table closed, main        *)
(* releases nothing twice, and nothing at all while one of the threads it  *)
(* joins is still there.                                                   *)
ReleasedLast == failed \subseteq {"start"} =>
                    /\ ~misused
                    /\ main \in {"cleanup", "free"} => running = NoThreads

(* No two update threads refresh the same item; and when the server has    *)
(* loaded a file with a line for each item its command line asks for, all  *)
(* of them are inside dataItemsArray.                                      *)
SlicesFit ==
    LET n == options.numUpdateThreads
    IN  items = "live" =>
          \A u \in 0 .. n - 1 :
             /\ \A v \in 0 .. n - 1 : u # v => Slice(u) \cap Slice(v) = {}
             /\ options.initialLoad /\ n * UpdatesPerThread <= Len(file)
                   => Slice(u) \subseteq 0 .. szItems - 1

(* A server with all the stocks has an item for every symbolId a client    *)
(* can send; if companylist.txt is in the order of the keys, it is the     *)
(* item of the symbol the client means.                                    *)
CountedItem ==
    LET sorted == \A i, j \in DOMAIN file : i < j => file[i] < file[j]
    IN  asked # NoSymbol /\ items = "live" /\ szItems = Len(file) =>
            /\ asked < szItems
            /\ sorted => Item(asked) = Cached(asked)
=============================================================================
