# TLA+ models of the Chronos prototype

The Chronos prototype is a real-time data base testbed: a server runs
stock-trade transactions on BerkeleyDB for a number of clients, while update
threads refresh the quotes and a sampling timer measures the load and reacts to
it. This directory holds TLA+ specifications of its programs, TLC
configurations that check them on small instances, and proofs for the TLAPS
proof system. All paths below are relative to `src/`, the repository.

Contents: [inventory](#inventory) of the system, [modules](#modules) and how
they correspond to the code, [runs](#runs) and their bounds, [fairness](#fairness),
[findings](#findings), [proofs](#proofs), [what is not modelled](#what-is-not-modelled),
[plan](#plan).

## Inventory

There are two servers and two clients. The Makefile builds `startup_server.c`
and `startup_client.c`; `startup_server_2.c` and `startup_client_2.c` are
variants with transaction queues and persistent connections. Both servers run
the same transactions.

### Ready queue (`src/chronos_queue.c`, `include/chronos_server.h`)

*State*: a ring of `CHRONOS_READY_QUEUE_SIZE` slots `txnInfoArr`, the indices
`nextin` and `nextout`, the count `occupied`, the ticket counter `ticketReq`, a
mutex, and two condition variables, `more` (waited for by consumers) and `less`
(waited for by producers). The server has two: `userTxnQueue`, `sysTxnQueue`.
*Operations*: `chronos_enqueue_transaction`, `chronos_dequeue_transaction` and
four wrappers that fill and unpack a `txn_info_t`.
*Interaction*: called by handlers and update threads (enqueue) and by processing
threads (dequeue); it calls back `timeToDieFp` after each wait.
*Hard*: condition variables with one signal per item, signalled waiters that
are overtaken, waits of 5 s, nobody who signals at shutdown, indices that are
equal when the ring is full and when it is empty.
*Correct when*: the assertions of the file hold, nothing is lost, duplicated or
reordered, no thread sleeps while there is work for it, and every call returns
after `time_to_die`.

### Queue server (`src/startup_server_2.c`)

*State*: `time_to_die`, `currentNumClients`, the start barrier
`startThreadsWait`, the two queues, `num_txn_to_wait`, and for every handler the
stack cells `txn_done` and `txn_rc` of `dispatchTableFn`.
*Operations*: `daListener` accepts a connection per client and makes detached
`daHandler` threads; a handler waits at the barrier, reads requests, waits while
`num_txn_to_wait > 0`, enqueues the request with the addresses of its two cells,
spins on `txn_done` and replies; `processThread` alternates between system and
user queue; `updateThread` enqueues refreshes; `handler_sampling` sets
`num_txn_to_wait`; `main` joins listener, update and processing threads.
*Hard*: pointers into stack frames of another thread; `occupied` and
`num_txn_to_wait` accessed without a lock; a barrier whose count goes down;
shutdown with full queues; return codes nobody looks at.
*Correct when*: a cell is there when it is written (`txn_done` is, `txn_rc` may not
be: it is stored after the notification), a reply stands for exactly one run and
carries its outcome, work is not stuck, and shutdown completes.

### Thread-per-request server (`src/startup_server.c`)

*State*: `time_to_die`, the listening socket, a detached handler per connection,
the benchmark handle they all share.
*Operations*: `daListener` polls with a timeout and accepts; `daHandler` reads
one request, runs it, replies, closes; `main` joins the listener, frees the
handle and returns.
*Hard*: the process ends with handlers in flight; failing calls of the listener;
connections in the backlog; the clock is compared in one branch only.
*Correct when*: what clients count is what the database did, nobody waits for
ever, and the server ends when asked to or when its duration is over.

### Clients (`src/startup_client.c`, `src/startup_client_2.c`, `src/chronos_client.c`)

Threads that connect, send a request, poll for the response until they are asked
to die, count successes and failures, think, and go on; with one connection per
request (`startup_client.c`) or one per thread (`startup_client_2.c`).

### Load sampling and update periods (`handler_sampling` in both servers)

*State*: a ring of `CHRONOS_SAMPLING_SPACE` slots; per slot and data item
`updatePeriodMS`, `updateFrequency` and `accessUpdateRatio`, per slot and
processing thread the statistics `num_txns`, `cumulative_time_ms` and
`num_timely_txns`; `currentSlot`; `smoth_degree_timing_violation`;
`num_txn_to_wait`.
*Operations*: on every expiry of the timer, clear the statistics of the next
slot, compute each item's period for it, publish it, and turn the delay that the
statistics of the slot before give into `num_txn_to_wait`. Update threads read
`currentSlot` and the period at two different moments; processing threads read
`currentSlot` and then write three fields.
*Hard*: nothing is locked; the ring is reused; a transaction that finishes as
the slot changes.
*Correct when*: the periods in use stay between their bounds, a sample is what
finished in its slot, cold data is relaxed, an overload that is over is
forgotten.

### Trade transactions (`src/benchmark_common.c`, `src/*_txn.c`, `src/refresh_quotes.c`)

*State*: the tables of portfolios (with a secondary index by account), quotes,
stocks and personal accounts in BerkeleyDB; `number_portfolios` in the handle.
*Operations*: `benchmark_purchase2`, `benchmark_sell2`,
`benchmark_view_stock2`, `benchmark_view_portfolio2`,
`benchmark_refresh_quotes2`, each in one transaction with
`DB_READ_COMMITTED | DB_TXN_WAIT`.
*Hard*: read locks that are given back when a cursor is closed, locks that are
upgraded, deadlocks, aborts in the middle of several orders, ids that are drawn
outside of the transaction.
*Correct when*: holdings are what was loaded and traded, orders are executed at
prices that suit them, an account has one portfolio for a symbol, and every
transaction ends.

### Life of a server process (`main` in both servers, `src/benchmark_initial_load.c`, `src/benchmark_stocks.c`)

*State*: the tables on disk; `benchmarkCtxtP`, `dataItemsArray`, the threads,
`rc` of `main`.
*Operations*: arguments; with `-n` the creation of the environment and of eight
tables and the load of four of them line by line, each line in a transaction of
its own; the opening of the tables; the slices of `dataItemsArray` for update
threads; threads, joins, `failXit`, `cleanup`.
*Hard*: every step can fail and go to `failXit`, which is also reached from
below the cleanup it leads to; a load that ends half-way; a process that is
killed within a transaction; a slice computed from a command line option;
an index a client sends.
*Correct when*: a server works on whole tables, releases what its threads use
after them and once, and touches items that exist.

### Life of a client process (`src/chronos_cache.c`, `src/chronos_environment.c`, `src/chronos_packets.c`, `main` of both clients)

*State*: the environment with the cache of symbols and users, which all threads
share; a cache of portfolios, a connection and a request per thread.
*Operations*: allocation of the environment, threads, `createPortfolios`,
connections, `chronosRequestCreate`, the release of everything.
*Hard*: `main` frees the environment when it cannot make all its threads, while
those it made run; threads are kept apart by the arithmetic of
`createPortfolios` alone.
*Correct when*: a thread that looks into the environment finds it, and two
threads do not trade for the same user.

### Time macros (`include/chronos.h`)

Arithmetic on `struct timespec`: differences, sums, averages, comparisons,
milliseconds. *Correct when* it is what its names say for the times of a clock,
also one that has been set back.

## Modules

| Module | Models | Extends / uses |
| --- | --- | --- |
| `TxnFifo` | what a ready queue promises its callers | |
| `TxnQueue` | `chronos_queue.c` | refines `TxnFifo` |
| `TxnQueueProofs` | theorems about `TxnQueue` | `TxnQueue` |
| `QueueServer` | the threads of `startup_server_2.c`, client as environment | a queue call is a step of `TxnFifo` |
| `QueueServerProofs` | theorems about `QueueServer` | `QueueServer` |
| `ChronosServer` | the threads of `startup_server.c`, `startup_client.c` | |
| `ChronosServerProofs` | theorems about `ChronosServer` | `ChronosServer` |
| `TradeBook` | what the transactions promise the clients | |
| `TradeTxns` | the `benchmark_*2` transactions | refines `TradeBook` |
| `TradeTxnsProofs` | theorems about `TradeTxns`, and about sums over finite sets | `TradeTxns` |
| `ChronosTime` | the macros of `chronos.h` | |
| `ChronosTimeProofs` | theorems about `ChronosTime` | `ChronosTime` |
| `Sampling` | `handler_sampling` next to `updateThread` and `processUserTransaction` | `ChronosTime` |
| `SamplingProofs` | theorems about `Sampling` | `Sampling`, `ChronosTimeProofs` |
| `ClientCache` | the arithmetic of `chronos_cache.c` | |
| `ServerLife` | `main` of both servers, the initial load, the benchmark handle | `ClientCache` |
| `ServerLifeProofs` | theorems about `ServerLife` | `ServerLife` |
| `ClientLife` | `main` and threads of both clients, environment, cache, requests | `ClientCache` |
| `MCPrograms` | a server or a client from its start to its end | `ServerLife`, `ClientLife` |
| `ProgramsProofs` | theorems about `ClientLife`, and about both programs together | `MCPrograms`, `ServerLifeProofs` |
| other `MC*` | instances for TLC | the module of that name |

Every specification module has the same parts: constants and assumptions, the
variables with the names of the code, a section *Faulty variants*, `Init`, one
action per step of the code, `Next` and fairness, the properties. The faulty
variants are never part of `Next`. Each is a bug somebody could make in one
definition; replacing that definition by it makes TLC find the property it is
listed with in `PROJECT.json` violated, which shows that the property depends on
the code. Variables marked *history* in their comments record the past for the
properties and influence no action.

### TxnQueue and TxnFifo

`TxnQueue` has one action per statement (or group of statements under the mutex
that no other thread can tell apart) of the two functions; `pc[t]` says where a
thread is:

| `pc` | Code | Action |
| --- | --- | --- |
| `idle` | the caller, between two calls | `CallEnqueue`, `CallDequeue` |
| `lock` | `pthread_mutex_lock` | `Lock` |
| `test` | `while (occupied >= SIZE)`, `while (occupied <= 0)` | `EnqueueTest`, `DequeueTest` |
| `wait` | in `pthread_cond_timedwait` | `Timeout`, `Wake` |
| `check` | `timeToDieFp` after the wait | `CheckTimeToDie` |
| `copy` | `assert`, `memcpy`, the ticket | `EnqueueCopy`, `DequeueCopy` |
| `advance` | index and `occupied` | `EnqueueAdvance`, `DequeueAdvance` |
| `signal` | `pthread_cond_signal` | `EnqueueSignal`, `DequeueSignal` |
| `unlock`, `return` | the end of the call | `Unlock`, `Return` |

A thread in `more` or `less` is blocked; `Timeout` (the end of the 5 s, or a
spurious wake-up) and a signal take it out, and it then competes for the mutex
with everybody else (`Wake`). `timeToDie` becomes true at any moment.

`TxnFifo` is the abstract specification: a call takes effect in one step between
its start and its return, transactions come out in the order of their tickets,
each at most once, at most `Size` are inside, and a call fails only after
`time_to_die`. The refinement mapping is in `TxnQueue`: the abstract queue is
the sequence of the `occupied` slots from `nextout` on, and a call takes effect
when it changes `occupied` (`EnqueueAdvance`, `DequeueAdvance`), not when it
copies. While a producer is between the two, its ticket is drawn but not
counted; `Drawn` corrects for that.

A call that fails after `time_to_die` may be followed by others (`Return`):
`updateThread` finishes its pass over the items before it looks.

### QueueServer

Composes listener, handlers, processing threads, an update thread, the sampling
timer, signals, `main`, and client processes. The two queues are the FIFO of
`TxnFifo`, with one thing kept that callers can notice: after a wait, and only
then, a call asks for `time_to_die` before it looks at the queue (labels `full`
of handler and updater, `sysWait` and `userWait` of processing threads).
`occupied` is read without the mutex in a step of its own (`SysTest`,
`UserTest`). `num_txn_to_wait --` is a test, a read and a write (`Control`,
`Load`, `Store`). `*txn_done = 1` and `*txn_rcP = txn_rc` are two steps
(`Notify`, `SetRc`), as are the end of the spinning and the copy of `txn_rc`
(`Await`, `FetchRc`). The cells `txnDone[c]` and `txnRc[c]` stand for the stack
of handler `c`. `DoneCellLive` is about the first: the store of `txn_done` finds
its handler still spinning. It does not hold of the second. `SetRc` comes after
the notification, when the handler may have left `dispatchTableFn`, be in its next
request, or have ended; the model lets it write then, `qserver_reply_code` shows what a
client sees of it, and what else the store hits in a frame that is gone is not
modelled. `main = "exit"` ends the process: nothing happens after it.

`ListenerFails` stands for the ways out of `daListener` by a failing call: `poll`,
`accept`, `calloc`, `pthread_create`, `startSamplingTimer`. The listener ends
then, without setting `time_to_die` and without counting the client it was about
to serve, and handlers that are at the barrier wait for Ctrl-C. It may happen in
all runs of this module and is not fair.

The compile-time options (`CHRONOS_SAMPLING_ENABLED`,
`CHRONOS_UPDATE_TRANSACTIONS_ENABLED`) and the threads there are come from the
constant `Starts`: `Init` picks one of its values, and an updater, a sampler or
a processing thread that is not built is not there. So one run covers several
builds.

### ChronosServer

`Conns` are the connections the client threads can make; a connection and its
handler share the variable `handler[x]` (`backlog` before `accept`, `leaked`
when no thread could be made for it, `gone` when it is closed). The listener's
`poll` with a timeout that starts the loop again is a step that is not taken;
what the code skips in this case, the comparison with the clock, is in
`CheckDuration` only, after the backlog has been emptied. Any call of the
listener may fail (`ListenerFails`, `SpawnFails`). `FreeHandle` closes the
database under the handlers; `FreeHandleFails` is the second round through the
cleanup of `main`. A response is lost when the client has closed or the process
has ended. `succeeded` and `failed` are the requests `cnt_success` and
`cnt_fail` count, by name.

### TradeTxns and TradeBook

A transaction has a list of orders and goes through the database calls of
`place_order` or `sell_stocks` for each: `lookup` (`account_exists`,
`symbol_exists`, the portfolio through the index), `read` (the row through a
primary cursor), `price` (the quote), `write` or `newId` and `insert`. Views and
refreshes have theirs. `Listed` are the symbols in the table of stocks and
`Quoted` those with a quote; orders may name any account and any symbol. An
unknown account or symbol (`Unknown`), a quote that is not there (`NoQuote`) and
a price that does not suit abort the transaction. The view of portfolios takes
no notice of an account whose `show_one_portfolio` fails: it goes on with the
next one and commits, if BerkeleyDB lets it (`LockFails`).

BerkeleyDB is external, modelled from how the code uses it. A step says which
pages it reads and writes (`Reads`, `Writes`); it is taken when nobody else holds
a conflicting lock (`Granted`). Write locks and what open cursors stand on stay
locked to the end of the transaction, or until the cursor is closed or moved.
An abort restores the table as it was before the first write. `Deadlock` fails
the call of the transaction in a ring of waiting ones that has the fewest write
locks, as `set_lk_detect(DB_LOCK_MINWRITE)` asks for; `LockTimeout` fails any
wait, as `set_timeout` does after ten seconds. The portfolios table is one page
and so is its index, which is what BerkeleyDB starts with; each quote has a page
of its own. The scan of `get_portfolio` is one step: with one page per table
nobody can write between two positions of its cursor. `Restart` is a restart of
the server between transactions, which recounts `number_portfolios`.

`TradeBook` is the abstract specification: a book of what the accounts hold, a
list of quotes, and transactions that take effect in one step each (`Trade` with
all its orders, `Refresh`, `View`) or fail and leave nothing (`Fail`). There are
no portfolios, pages, locks or ids in it. The refinement mapping is in
`TradeTxns`: the book is what the committed table holds, portfolio by portfolio
added up; a purchase, a sale or a view takes effect at its commit, where every
one of its orders must be at a price that is good at that moment; a refresh
takes effect when it puts the quote (`RefreshPut`), since only its commit is
left to it. `TradeBook` allows a sale of more than an account holds, as the code
does (below). That a purchase may fail for no reason a client can see is in it,
too: a deadlock, or an id that is taken. What a purchase, a sale, a refresh or a
view needs of `Listed` and `Quoted` to succeed is in its guard there.

### Sampling and ChronosTime

`at` is the position of `handler_sampling`: an item of its loop, then the
publication of the slot (`Publish`), the two sums (`SumCount`, `SumDuration`)
and the degree of violation (`Overload`). The update thread and a processing
thread take their steps between any two of these. `CountUpdate` reads
`currentSlot`, `SetNextUpdate` uses it later; `FinishTxn` reads it, and
`CountTxn`, `AddTime` and `CountTimely` write the three fields of that slot.
`finished` and `straggler` are history: what really finished in a slot, and
whether a thread was in the middle of its three writes when the slot changed.
`SampleIsExact` says that a sample without such a thread is exact, which rests
on the ring: the slot that is summed is neither the one that is written nor the
one that is cleared.

`Expire` has one assumption about time, `InTime`: a thread does not stay in the
middle of three assignments while the timer, whose period is seconds, goes once
around the ring. Without it a late write would fall into cleared statistics.

Periods are integers fine enough to carry a factor of 1.1. The degree of
violation and its smoothed form are doubles in the code, and there the smoothed
one becomes ever smaller and never zero again; what lets clients go is the
truncation to `num_txn_to_wait`. So a degree is counted in grains (`Grain` of
them to one): `Grains` rounds the exact quotient down, but never a positive value
to nothing, and `ToWait` alone truncates, as line 606 does. It is
assumed that the smallest degree makes less than one transaction of all that are
enqueued (`GrainAssumption`, `enqueued < 100 * Grain`; the two queues hold 2048,
`Grain` is 25). A
`ToWait` that rounded up would hold clients back for ever, and `OverloadForgotten`
finds that. `accessUpdateRatio` is zero or NaN at all times in this code, since
nothing adds to it, so the branch for hot items cannot be taken and is not
modelled.

`ChronosTime` has one operator per macro, on records of seconds and nanoseconds.
`Sampling` uses it for durations; the rest is for the proofs.

### ServerLife

`main` is where main is, from `off` (no process) over the labels of its steps to
`off`; `progress` counts within a step (tables opened, lines read, threads
made). Threads are counted in `running`, what they do is in `QueueServer` and
`ChronosServer`. One module stands for both servers, since their mains differ in
the threads they start: `numServerThreads` 0 is `startup_server.c`, whose
processing threads are under `#if 0`, `numUpdateThreads` 0 a build without
`CHRONOS_UPDATE_TRANSACTIONS_ENABLED`.

| Action | Code |
| --- | --- |
| `Setup` | `processArguments`, signals, mutexes |
| `OpenEnvironment`, `Create` | `open_environment`, `databases_setup` with `DB_CREATE \| DB_EXCL` |
| `LoadPersonal`, `LoadStocks`, `LoadCurrencies`, `LoadQuotes`, `EndOfFile` | the four loops of `benchmark_initial_load.c` |
| `Unload` | `benchmark_handle_free` at the end of the load |
| `Open`, `ReadSymbols`, `MakeItems` | `benchmark_handle_alloc`, the symbols, `dataItemsArray` |
| `Spawn`, `Spawned`, `Join`, `ThreadLeaves` | threads and joins |
| `StepFails`, `FailXit`, `FreeItems`, `FreeHandle`, `FreeHandleFails` | `failXit`, `cleanup` |
| `Kill`, `Start` | a signal that is not handled; another process on the same tables |
| `Dispatch`, `Dispatched` | `dispatchTableFn`, which counts an access under the `symbolId` of a request |

What is assumed of BerkeleyDB: a table that exists stays; a committed row stays;
a put with `DB_NOOVERWRITE` of a key that is there fails; a process that is
killed in a transaction may leave a lock that nobody removes, as nothing opens
the environment with recovery (`stuck`); a close may fail, the secondary table
being closed with the environment. Mutexes that are zero may be destroyed.
The lines of `companylist.txt` are numbers in key order: the file in the
repository is not sorted, so the order of a file and of its keys are different
things, which is what `CountedItem` is about.

### ClientCache, ClientLife and MCPrograms

`ClientCache` is `UserOf(c, i)`, the user of the `i`-th portfolio of thread `c`,
`NumPortfolios`, and the symbol ids a portfolio can have; `rand()` is any
choice. `ClientLife` has `cmain` for main and `client[c]` for a thread, with one
action per call a thread makes (`MakePortfolios` for
`chronosClientCacheAlloc`, `CreateRequest` for `chronosRequestCreate`,
`FreeConnection` for `chronosConnHandleFree`). Three of them look into the
environment (`Reading`): that it is there is `EnvAlive`. Each call may fail
(`LeaveLoop`).

`MCPrograms` puts the two next to each other and follows one at a time. They share
the data file and the cache arithmetic and, at run time, a connection, and each
lets its other side do anything at any time; what the messages do is in
`ChronosServer` and `QueueServer`. The interleavings of two programs that do not
look at each other would add states and no behaviour of either.

## Runs

| Run | Question | Instance |
| --- | --- | --- |
| `queue_safety` | Do the assertions hold, are ring and tickets consistent, is a wake-up ever lost, is it a FIFO? | 2 producers, 2 consumers, 2 slots, 3 enqueue calls |
| `queue_liveness` | Is what is accepted delivered by signals alone; does every call end after `time_to_die`? | 2 producers, 1 consumer, 1 slot, 3 enqueue calls |
| `qserver_safety` | Is `txn_done` there when it is written, do handlers start together, does the last one end the experiment? | 2 clients with a request each, 2 processing threads, 1 place in the user queue |
| `qserver_options` | With update threads or with sampling: do the processing threads all block, are requests run, each once, does admission control let them through, does shutdown complete? | 1 client, queues of 1; 2 processing threads and updates, or 1 and sampling with 2 requests |
| `qserver_reply_code` | Does a reply carry the outcome? (violated) | 1 client, 1 processing thread |
| `server` | Are counts true, is only the last outcome lost, does everybody end? | 2 client threads with 2 and 1 connections |
| `server_duration` | Does the server end with its duration? (violated) | 2 client threads, 1 connection each |
| `server_handle` | Is the handle alive under a transaction? (violated) | the same |
| `trade` | Do holdings match, is every transaction atomic and at good prices (`TradeBook`), does every transaction end? | 3 transactions with 8 jobs: two alike, or a purchase, a sale and a refresh; a symbol that is not listed, one that has no quote; a restart |
| `trade_portfolios` | Has an account one portfolio for a symbol? (violated) | 2 purchases |
| `sampling` | Are periods in bounds, samples exact, is cold data relaxed, overload forgotten? | 5 slots as in the code, 2 items; updates in all modes, or 2 transactions in the ring with admission control, queues empty or full (2048) |
| `programs` | Is a load whole, are things released last and once, do slices and ids fit, is the environment alive, are users disjoint? | 2 server processes one after the other, 4 data files, 8 command lines; or 2 client threads, 4 users, 3 stocks |

Why these bounds are enough for the questions:

* *Queue*. Two threads of a kind are what it takes for one to overtake a
  signalled other, for one signal to meet two waiters, and for two waiters to
  need two signals. A ring of two slots is empty, half full and full, and its
  indices wrap; three calls on it make a producer wait. With the ring of one
  slot every enqueue but the first waits. The proofs below take the bounds away
  from the invariants.
* *Queue server*. One place in a queue makes the second request wait, and a
  handler be asked to die while it does. Two processing threads are needed for
  a race on `occupied`; two clients for the barrier. A second request per client
  (in `qserver_options`) makes stale cells visible. The runs are split because
  the product of all of it is too large: the safety run leaves updates and
  sampling out, and `qserver_options` has one or the other. `Codes` has both
  outcomes except where the properties do not depend on it.
* *Server*. A second connection of a client thread is what `OnlyLastIsLost` and
  `OneTxnPerClient` are about; the second thread gives the listener a backlog
  and the shutdown a handler in flight.
* *Trade*. Two transactions make a deadlock and three a ring or a queue of
  waiters; the jobs cover updates of a row and creations, two orders on the
  same symbol in one transaction, a failure behind a success (burned ids; the
  second symbol is not listed), and an id that is drawn again after a restart. Each
  pair of different jobs is there, with one of them done twice. `MaxIds` is never reached by a
  transaction in these instances; `MaxPrice` gives a price on each side of the
  one the orders ask for.
* *Sampling*. Ring size and ratio of the period bounds are those of the code,
  so that the number of steps from the shortest to the longest period, compared
  with the number of slots, is the real one. Two transactions in the ring are
  one in the slot that is summed and one in the slot that is written; their
  times, on time and late, make degrees of violation that rise and fall.
* *Programs*. A second process is what finds the tables a first one left, at any
  of its steps. The data files have three symbols in and out of order, a fourth
  that no client knows, and one that is there twice, at which a load fails after
  rows are in. Two update threads with two items each need more items than some
  of the files have. Two client threads are what a failing `main` can cut
  apart, and what can meet at a user; four users are just enough for them.

Bounds of the models, all in guards and all constants: `MaxTxns` (enqueue calls),
`MaxRequests` (requests of a client), `MaxIds`, `MaxPrice`, `MaxTxns` of
`Sampling` (transactions in the ring), `MaxStarts` (server processes).

Deadlock is checked, except in `ChronosServer` and `TradeTxns`, which end when
all threads have, and in `MCPrograms`, where the processes come to their end.
`SYMMETRY` is used in `qserver_safety` only, which has no liveness property.

What each property says and what code it is about is in the comment in front of
it. Some say under which conditions the code is right, where it is not always:

* `ReleasedLast`: if all threads can be made and all tables closed. Outside of
  that, a table that cannot be closed sends `main` to `failXit` again, with a
  handle that is gone and `dataItemsArray` freed; a thread that cannot be made
  sends it there with threads on the items.
* `SlicesFit`: if the server loaded a file that has enough lines for the update
  threads it was asked to start. `main` does not compare the two, and with `-n`
  it does not know what is in the tables.
* `CountedItem`: if the tables have all the lines, for the bounds of the array;
  if the file is sorted too, for the right symbol. `symbolId` is an index in the
  order of the file at the client and in the order of the keys at the server,
  and the file in the repository is not sorted.
* `EnvAlive`: unless `main` of the client could not make one of its threads.
* `OwnAccounts`: if there are users enough for the threads.

These five say when the code is right and no more: the hazards they leave out
are in PROJECT.json with a note and without a property, since there the code
does what it should not.

`AdmissionLifts` is shown without updates: a handler polls
`num_txn_to_wait`, and when the update thread keeps both queues non-empty the
timer may raise it again between any two polls, so that with updates the
property rests on luck (the model has a behaviour without it). It is shown with
one client and one processing thread beside the timer. A decrement that is lost
between two processing threads, or a client that is passed over while another
one keeps sending, is not in this instance.

## Fairness

Fairness is assumed of what the scheduler and the clock do, never of people,
clients that may close their connection, or failing calls.

* `TxnQueue`: every thread takes the step it can take (weak fairness), and a
  thread that wants the mutex again and again when it is free gets it (strong
  fairness of `Lock` and `Wake`): a pthread mutex is not fair in theory, but the
  threads that compete for it sleep or do other work in between. Nothing is
  assumed of timeouts, except in `CallsEnd`, which states it (`WaitsEnd`):
  nobody signals at shutdown, so there it is the timed wait that ends a call.
* `QueueServer`: weak fairness of each thread, of the periodic timer and of
  `main`, as long as the process lives. None for clients, Ctrl-C, the end of the
  experiment, failing calls of the listener, and spurious wake-ups.
* `ChronosServer`: weak fairness of each thread and of the clock; none for
  signals and failing calls. A client thread always gets on, because its calls
  return or time out.
* `TradeTxns`: weak fairness of each thread and of the deadlock detector, which
  runs at every conflict; none for lock timeouts, so `TxnsEnd` does not rest on
  them.
* `Sampling`: weak fairness of the timer's handler, and of a processing thread
  in the middle of its statistics; none of the update thread or of new
  transactions.
* `MCPrograms` has safety properties only and assumes none.

## Findings

Four disagreements between the code and what the repository says of it were met
while modelling. Each has a run whose counterexample shows it, and an entry in
`PROJECT.json`.

1. `startup_server_2.c:1365` notifies the waiter before the return code is
   stored; a failed transaction can be reported as a success
   (`qserver_reply_code`).
2. `startup_server.c:1119` goes back to the start of the loop when `poll` times
   out, so an idle server does not notice that its duration is over
   (`server_duration`).
3. `startup_server.c:487` frees the benchmark handle while detached handlers may
   run on it (`server_handle`).
4. `benchmark_common.c:2092` gives the lock on the index back when it finds no
   portfolio, so two purchases can both create one (`trade_portfolios`).

Other behaviours that a reader might not expect are listed among the hazards:
a handler that goes back to sleep at the start barrier after another has come
and gone; a sale that makes a holding negative, because the amount is compared
on one read and subtracted from another; the period of a cold item that falls
back to that of the last round of the ring when it cannot be relaxed further;
a purchase that fails after a restart because its new id is taken.

## Proofs

Every invariant that a run checks is proved, for all values of the constants
that the assumptions of its module admit, by an inductive invariant that a run
of TLC has checked first; so are both refinements (`TxnFifo`, `TradeBook`) and the
action property `OneLoader`. The assumptions say of what kind the constants are, and
what else the code gives them: none of them bounds the number of threads,
requests, symbols or steps.

### The ready queue

`TxnQueueProofs` proves, for all finite sets of producers and consumers, every
ring size and every number of calls, from `QueueAssumption` (the two sets are
finite and disjoint, the ring has a slot, `NoThread` is no thread) alone:

| Theorem | States |
| --- | --- |
| `QueueInvariant` | `Spec => []IInv` |
| `QueueTypes` | `Spec => []TypeOK` |
| `QueueAsserts` | `Spec => []AssertsHold`: neither `assert` of `chronos_queue.c` fails |
| `QueueRing` | `Spec => []RingConsistent`: indices, `occupied` and tickets fit together |
| `QueueWakesUp` | `Spec => []NoLostWakeup`: nobody sleeps through work it is needed for |
| `QueueImplementsFifo` | `Spec => FifoSpec`: the ring is a FIFO to its callers |
| `QueueMoves` | `Spec => []StandsStill`: where nobody can step, nobody holds the mutex and all sleep for want of callers on the other side |

None of the first properties is inductive by itself, hence

    IInv == TypeOK /\ MutexInv /\ AssertsHold /\ AdvanceInv /\ RingConsistent

* `MutexInv`: a thread between `pthread_mutex_lock` and the release of the mutex
  is the one that holds it. Without it two threads could be at `copy`, and the
  first to advance would falsify the assertion of the other. The steps of a
  thread that does not hold the mutex then cannot touch the ring.
* `AssertsHold` says what the test has established up to `copy`; `AdvanceInv`
  carries it, and the ticket that has been drawn, over to `advance`, where
  `occupied` changes. Without it `occupied \in 0 .. Size` is not preserved.
* `RingConsistent` speaks of slots relative to `nextout`. The lemmas about the
  ring (`SuccLemma`: stepping an index stays in range and is the successor or
  zero; `SlotDistinct`: slots at different distances differ; `DrawnByHolder`
  and `DrawnByNone`: when the correction `Drawn` is 1) reduce its preservation
  to linear arithmetic; `Slot` is written with a comparison and not with `%` for
  this reason.

The proof has one lemma for each conjunct of the invariant (`TypeStep`,
`MutexStep`, `TestStep`, `RingStep`) and in it one step per action.

*Wake-ups.* `NoLostWakeup` compares `occupied` with numbers of threads, and is
inductive next to `IInv` as soon as those who are in `more` or `less` are known
to be in the wait (`WaitersWait`). A step changes the place of one thread, so
`CountOne` (a set that differs from another at one element at most) settles all
counts; it is why the sets have to be finite. The two delicate steps are the
signal, which takes a signaller out and puts an awake thread in, and the test
that sends a thread to sleep, after which the count must still be covered: it
has just seen that nothing is there.

*Refinement.* The initial states map to that of `TxnFifo`, and every step maps
to a step of it or to none: `EnqueueAdvance` and `DequeueAdvance` to the moment a
call takes effect, `CheckTimeToDie` to its failure, the calls and returns to
themselves. `Simulation` shows it action by action from `IInv` and `CallInv`,
which says what a call has in hand on its way: a consumer at `advance` has what
is in the slot `nextout`, a producer has put its transaction with the present
ticket into the slot `nextin`. That the sequence of the occupied slots loses its
first or gains a last element is where `RingConsistent` is used.

*Deadlock.* `QueueMoves` says where the queue can stand still, without any
fairness: a thread that holds the mutex can always step, so the mutex is free,
so whoever is awake can take it, so all are asleep; and since no wake-up is lost,
consumers can sleep on an empty ring only and producers on a full one only,
which cannot both be. It is the safety half of `AcceptedIsDelivered`; and since
all who are in a call are then in a timed wait, also after `time_to_die`, it is
the one of `CallsEnd`.

### The queue server

`QueueServerProofs` proves, for every finite set of clients, any threads,
requests and places in the queues, any way the server is built and started
(`ServerAssumption`: it has a processing thread, the experiment does not wait
for more clients than there are):

| Theorem | States |
| --- | --- |
| `Inductive` | `Spec => []IInv` |
| `TypeCorrect` | `Spec => []TypeOK` |
| `TxnDoneLive` | `Spec => []DoneCellLive`: the store of `txn_done` finds its handler waiting for it (not that of `txn_rc`, which comes after) |
| `OneRunPerReply` | `Spec => []RepliedAfterOneRun` |
| `AllStartTogether` | `Spec => []StartTogether`: the barrier |
| `ExperimentEnds` | `Spec => []LastHandlerEnds` |
| `NotAllBlocked` | `Spec => []SomeProcRuns` |

    IInv == Types /\ Starting /\ Requests /\ OneRequest /\ Provident

* `Starting`. `Population`: `currentNumClients` is the number of handlers that
  are there, less the one whose thread the listener has made and not counted.
  `Complete`, `Together`: the count reaches the number that is waited for only
  with `done_creating`, and no handler is behind the barrier before. `Inhabited`:
  as long as `time_to_die` is not set, a handler behind the barrier keeps the
  count positive. Together these say why a count that goes down again does not
  let anyone through too early, and why the last to leave finds zero.
* `Requests`: what a client has sent, is sending and can still send are not more
  than its requests, which bounds `taken` and `ran`.
* `OneRequest`. `QueuedOnce`, `BusyOnce`: the request of a client is in one place
  of the queue, or in the hands of one thread, never both. `Awaited`: while it is
  its handler spins on `txn_done`. `RunCounts`: how the runs and the requests
  read compare at each place of the handler. None of these can do without the
  others: a second entry would be run while the handler is on its way to the
  next request.
* `Provident`: some thread is awake and, if it is about to call a queue in which
  it has seen something, will find it. `SomeProcRuns` is not inductive: from a
  state where the last awake thread is about to call an empty queue all would
  block. The thread that is sure is the one that took the last transaction,
  for what the others had seen may have been that; before any was taken
  it is each of them.

The proof found a precedence slip in `ServerAssumption` that no run could:
`SUBSET Procs \ {{}}` admitted a server without processing threads, for which
`NotAllBlocked` fails.

### What clients count

`ChronosServerProofs` proves, for every number of client threads and of requests
of each (`ServerAssumption`: these are numbers, and `NoReply` is no outcome):

| Theorem | States |
| --- | --- |
| `ServerInvariant` | `Spec => []IInv` |
| `ServerTypes` | `Spec => []TypeOK` |
| `ServerCounts` | `Spec => []CountsAreTrue`: what is counted is what the data base did |
| `ServerLoses` | `Spec => []OnlyLastIsLost`: only the outcome of a last request is lost |
| `ServerOneTxn` | `Spec => []OneTxnPerClient`: transactions of a thread do not overlap |

These say something about two programs at once, and the invariant is the chain
that links them:

    IInv == TypeOK /\ ReplyInv /\ OutcomeInv /\ CountInv /\ ClientInv

* `OutcomeInv`: from the end of a transaction on, `txn_rc` of the handler tells
  whether it committed, and nothing has committed before.
* `ReplyInv`: a response says the same, and its handler is through.
* `CountInv`: a client counts what the response says. As the handler is through,
  no later step can change that response.
* `ClientInv`: a thread gets from one connection to the next only by counting
  the request of the first, whatever else may fail; and a connection it has not
  made has no handler. The handlers of earlier connections are therefore
  through, which leaves at most the current one in a transaction.

The proof does not use that signals, failures of the listener and the end of the
process are rare: each is a case of it, and none of them disturbs the chain.

### Times

`ChronosTimeProofs` proves for all times, with `TimeAssumption` (the two factors
are positive) alone: the offset of two normal times is their difference
(`OffsetIsDifference`), also when the clock has been set back, where neither of
its parts is positive (`OffsetBackwards`); a sum is the sum (`PlusIsSum`), and
normal except when the nanoseconds make exactly a second, where the macro does
not carry; the milliseconds of an offset are the difference without its fraction
(`MsOfOffset`); milliseconds make the round trip (`MsRoundTrip`); and an average,
for which the macro divides seconds and nanoseconds apart, is the true one
without the fraction of a nanosecond (`AverageIsFloor`). Division is
kept in two lemmas and the constants symbolic, which leaves linear arithmetic.

### The sampling

`SamplingProofs` proves, for every ring of at least two slots, every number of
items, all normal times of transactions and grains of any size
(`SamplingAssumption`, `TimeAssumption`), `SamplingTypes` (`TypeOK`) and `SamplesAreExact`
(`SampleIsExact`). The types need that the times computed are numbers, for which
the duration of a transaction is a case of `MsOfOffset`. The inductive invariant
of the second is `SampleInv`: in each slot the statistics are what finished in
it plus what the thread that is writing there has written (`Written`); behind
the change of the slot such a thread writes to the current slot unless it
started before; and the sums go on from zero. That the slot before the current
one is another one (`OtherSlot`) is where the ring needs two slots, and `InTime`
is used once, when the statistics of a slot are cleared.

`UsedPeriodsInBounds` (`UsedIsInBounds`) is about a slot that is passed over: when
a period cannot be relaxed any more, the new slot keeps what it had, and in the
first round that is nothing. Its invariant `PeriodInv` says which slots are
filled (all up to the current one, and those behind the handler's loop in the
next one; an empty slot has only empty ones after it), and that as long as the
last one is empty a period in slot `s` is at most the shortest one and `s` tenths
of the longest (`Ceiling`). So no period is refused before every slot has one.
This needs that the bounds are far apart: `RingAssumption`,
`10 * MinPeriod + (Slots - 1) * MaxPeriod <= 10 * MaxPeriod`, which the code gives
with room to spare (`CHRONOS_UPDATE_PERIOD_RELAXATION_BOUND` 2 and
`CHRONOS_SAMPLING_SPACE` 5 make it `18 * MinPeriod <= 20 * MinPeriod`). With a
ring of seven slots it would not hold; with one of nine or more the property
itself fails, and an update thread uses a period of zero.

### A server process

`ServerLifeProofs` proves, for every set of data files with at least the lines a
cache takes, every set of command lines, and any number of processes one after
the other (`CacheAssumption`, `ServerLifeAssumption`):

| Theorem | States |
| --- | --- |
| `ServerTypes` | `ServerSpec => []ServerTypeOK` |
| `LoadWhole` | `ServerSpec => []LoadIsWhole`: past its load a server has every line |
| `LoadedByOne` | `ServerSpec => OneLoader`: only the process that made the tables adds to them |
| `ReleasedInOrder` | `ServerSpec => []ReleasedLast`: nothing is freed twice or under a thread |
| `UpdatesWithinItems` | `ServerSpec => []SlicesFit`: update threads have items of their own, which exist |
| `ItemsForSymbols` | `ServerSpec => []CountedItem`: every symbol id has an item, the right one in a sorted file |

* `TypesInv` adds to the type invariant that tables are finite, which makes
  `szDataItemsArray` a number.
* `LoadInv` is about the load in the middle: nothing is in the tables before the
  last of them is made; at the file of table `t` the tables before `t` are
  whole, `t` has the lines read so far, those after it are empty (`Loading`);
  and the process that reads is the one that made the tables. The last is what
  `DB_EXCL` gives: `Create` goes on only if the table it is at does not exist,
  so a process gets past the first table only if it made it. `LoadIsWhole` alone
  is not inductive, since it says nothing before the load ends. All but three
  steps leave the tables alone and follow from `LoadFrame`.
* `ItemsInv` is about `dataItemsArray`: the stocks are lines of the file, and as
  many as were read, since a key that is there is refused; while the array
  exists `main` is where the tables are not touched, so its size stays the number
  of stocks. As many stocks as lines are all the lines (`AllLines`), and the item
  before which there are as many keys as lines before line `j` is that of line
  `j` if the file is sorted (`KeysBefore`, by a bijection). The slices are
  arithmetic (`SlicesWithin`).
* `ReleaseInv` follows `main` down its joins: while nothing failed after threads
  were there, a thread kind is gone once `main` is behind its join, and the ways
  into `failXit` start where no thread is.

### A client process, and both programs

`ProgramsProofs` proves, for every number of threads, users, stocks and
portfolios (`CacheAssumption`, `ClientLifeAssumption`): `ClientTypes`
(`ClientTypeOK`);
`ClientEnvAlive` (`EnvAlive`) from `CInv == ClientTypeOK /\ MainInv`, which ties
the threads that exist to the number main has made and the ways into `failXit`
to a number that is too small; and `ClientOwnAccounts` (`OwnAccounts`) from the
arithmetic theorem `UsersAreDisjoint`: the users of thread `c` are an interval
that starts where that of thread `c - 1` ends, and the modulus does not bite
when there are users enough.

`MCPrograms` runs steps of one or of the other. The same module proves that this
composition adds nothing to either: every behaviour of it is one of the server
(`ServerPart`, `Spec => ServerSpec`) and one of the client (`ClientPart`,
`Spec => ClientSpec`), because a step of one leaves the variables of the other
alone and is a stutter to it. `ProgramsTypes` (`Spec => []TypeOK`) and
`ProgramsSafe`, all the other properties of the `programs` run in one theorem,
follow from the theorems about each program.

### Trade transactions

`TradeTxnsProofs` proves, for any transactions with any orders, any accounts,
symbols, portfolios that were loaded, prices and ids (`TradeAssumption`,
`PlansAssumption`: every transaction has an order, as each packet has; orders are
for any accounts and symbols, which need not exist):

| Theorem | States |
| --- | --- |
| `TradeInvariant` | `Spec => []IInv` |
| `TradeTypes` | `Spec => []TypeOK`, with its clause that a page that is written has no other reader |
| `PricesHold` | `Spec => []OrdersAtGoodPrice`: what commits is at prices that still suit it |
| `HoldingsAreTraded` | `Spec => []HoldingsMatchLedger`: no update is lost, none is left by an abort |
| `TradesImplementBook` | `Spec => BookSpec`: each transaction is one step of `TradeBook` |
| `LocksGivenBack` | `Spec => []NothingKept`: a transaction that has not begun or is over holds no lock |
| `NobodyWaitsForGood` | `Spec => []NoStandstill`, for finitely many transactions and symbols |

    IInv == /\ Types /\ Exclusive
            /\ \A t \in Txns : /\ AtOrder(t) /\ Locked(t) /\ RowStays(t)
                              /\ PriceHolds(t) /\ Balanced(t)
            /\ HoldingsMatchLedger

The argument goes from the locks to the books:

* `Exclusive` and `Locked`: which locks a transaction has at each place. The
  lemmas `Elsewhere` and `LocksElsewhere` say once what a step of another
  transaction cannot change.
* `RowStays`: the row that a transaction is at has the key of its order, and
  would have it if the transaction that is writing were undone. `held` is what is
  in the row between the read and the write; this is where an update would be
  lost, and it rests on the lock of the index and of the table.
* `PriceHolds`: the quotes of the orders compared so far are read-locked, so no
  refresh has come in between, for as long as the transaction may commit.
* `Balanced`: the table that is being written differs from the one an abort would
  restore by exactly the orders applied, key by key. With it `Commit`, which adds
  all orders to the ledger, and `Abort`, which restores the table, both preserve
  `HoldingsMatchLedger`.

The sums over rows and orders are folds, for which the library has no theorem that
can be used here. The lemmas `SumUnfolds` to `SumOfOnes` prove what is needed of
them: a sum exists, is a number, depends on the values only, loses what an
element adds when it is taken out, and counts when every value is one. They go by
least counterexample (`LeastNumber`, `LeastSet`), which the well-foundedness of
the naturals and of the strict subsets gives, where induction would need an
operator as a parameter.

*Refinement.* `BookStep` goes through the actions. `CommitTrades` is the one that
takes effect for purchases and sales: `HoldingsMatchLedger` before and after the
step says what the book is, so the difference is what the ledger gains, the sum
of the orders (`BookSum`); `PricesHold` gives the prices, and `OnceInv` what
`IInv` does not say: a transaction ends once, keeps to its kind, and has found
the accounts, symbols and quotes of the orders it has compared, and the quote that it
shows or replaces. `Abort` restores the table that the
book is read from (`BookStays`), and a step in the middle changes only the table
that an abort would undo. `PutRefreshes` is the step of a refresh.

*Waiting.* `NoStandstill` takes any set of transactions that no wait leads out of,
for instance all that one waits for, directly or through others: if one of them
is under way, then one that is under way has the locks its next step needs, or is
in a ring of waiting ones with the fewest write locks, so that the deadlock
detector fails its call. It is what `TxnsEnd` needs besides fairness. That the one
who is waited for is under way is `NothingKept`; that in a finite set where
everybody waits for somebody there is a ring is found as the smallest subset
with that property (`RingWithin`), and the one with the fewest write locks as a
least number (`RingHasVictim`). Where the model bounds the ids (`MaxIds`), a
transaction with its locks may be unable to draw one; that is a bound of the
model and not of the code.

Two assumptions came out of the proof of the invariant: prices start at 1, so `MaxPrice` is not 0
(`TypeOK` would be false at the start); and the name that stands for the account
of no record, `"none"`, is no account.

### What stays with TLC

The liveness properties (`AcceptedIsDelivered`, `CallsEnd`, `ShutdownCompletes`,
`RequestsAreRun`, `AdmissionLifts`, `ServerStops`, `ReceiveEnds`, `ClientsStop`,
`TxnsEnd`, `ColdIsRelaxed`, `OverloadForgotten`) need fairness and `ENABLED`, out
of reach of the prover. For those of the ready queue and of the transactions the
safety half is proved: that there is always somebody whose step is possible
(`QueueMoves`, `NobodyWaitsForGood`); for the processing threads of the queue server it
is `NotAllBlocked`. That this somebody takes the step, and that it brings the
others nearer to their end, is what TLC checks. `OrdersAtGoodPrice` is proved
(`PricesHold`) and not listed with the run, since `BookSpec` says more.
What violates a property (`ReplyCarriesOutcome`, `OnePortfolio` and the other
findings) is a counterexample and nothing to prove.

## What is not modelled

* Reading and writing sockets in pieces; a request or a response is one message.
  A client that closes half of its connection.
* Prices, amounts and the symbols of a trade in a request, outside of
  `TradeTxns`, where orders come from small sets; the distribution of random
  choices.
* The parsing of options: a command line is a record of what it asks for.
  Trace files, printing, and `show_*`, which dump the tables: they change no
  state.
* Code that no program calls: the transactions without `2` in their names,
  orders that are saved for later (`force_apply` 0), `benchmark_end`, and what is under `#if 0` (`populate_portfolios.c`).
* BerkeleyDB's recovery and page splits; tables with more than one page.
* A server and a client process in one state space with their start and end:
  the messages are in `ChronosServer` and `QueueServer`, which have the threads
  made, and `MCPrograms` follows one program. Two servers at the same time.
* More than one update thread next to a queue, and more than one processing
  thread next to the sampling: the statistics are per thread, and the sum over
  threads is left out. `num_txn_to_wait` is a small number in `QueueServer` and
  computed in `Sampling`.
* The branch for hot items of `handler_sampling`, which is unreachable.
* `util/` and `test/`.

## Plan

The order follows the importance of the behaviour for the system.

1. `TxnQueue`, `TxnFifo`, the invariants of the ring, the wake-ups and the
   refinement, with proofs. *Done.*
2. `QueueServer` on top of the FIFO, with proofs. *Done.*
3. `ChronosServer` with its clients, with proofs. *Done.*
4. `TradeTxns`, with proofs. *Done.*
5. `Sampling` and `ChronosTime`, with proofs. *Done.*
6. `ServerLife`, `ClientLife` and `MCPrograms`, with proofs. *Done.*
7. `TradeBook` and the refinement by `TradeTxns`; the composition in `MCPrograms`;
   where the ready queue and the transactions can stand still. *Done.*
8. Left: an abstract specification of the queue server as its clients see it, and
   tables of more than one page in `TradeTxns`.
