----------------------------- MODULE QueueServer -----------------------------
(***************************************************************************)
(* The server of startup_server_2.c: the listener accepts one connection   *)
(* per client and starts a detached handler thread for it; a handler reads *)
(* requests and puts them on the user queue with the addresses of two      *)
(* cells of its stack, txn_done and txn_rc; processing threads take them   *)
(* off, run them and write the cells; the handler spins on txn_done and    *)
(* replies.  An update thread feeds the system queue, a timer samples the  *)
(* load, main joins the threads it can join.                               *)
(*                                                                         *)
(* A queue is the linearizable FIFO that TxnQueue is shown to implement;   *)
(* what a call that has waited does first is kept: it asks for             *)
(* time_to_die.                                                            *)
(***************************************************************************)
EXTENDS Integers, Sequences, FiniteSets

CONSTANTS Clients,       (* connections, each with its handler thread      *)
          Procs,         (* processing threads (numServerThreads)          *)
          NumClients,    (* numClientsThreads, handlers to wait for        *)
          Size,          (* CHRONOS_READY_QUEUE_SIZE                       *)
          NumItems,      (* data items of the update thread                *)
          Starts,        (* how the server is built and started: options   *)
                         (* ("sampling" for CHRONOS_SAMPLING_ENABLED,      *)
                         (* "updates" for                                  *)
                         (* CHRONOS_UPDATE_TRANSACTIONS_ENABLED), threads, *)
                         (* and requests of each of its clients            *)
          MaxRequests,   (* bound of the model: requests a client sends    *)
          Codes,         (* what a transaction may return: CHRONOS_SUCCESS *)
                         (* ("ok", 0) and CHRONOS_FAIL                     *)
          NoJob          (* a processing thread without a user transaction *)

ASSUME ServerAssumption == /\ IsFiniteSet(Clients)
                           /\ NumClients \in 1 .. Cardinality(Clients)
                           /\ Size \in Nat \ {0}
                           /\ NumItems \in Nat \ {0}
                           /\ Starts \subseteq
                                [options : SUBSET {"sampling", "updates"},
                                 threads : (SUBSET Procs) \ {{}},
                                 requests : 0 .. MaxRequests]
                           /\ MaxRequests \in Nat
                           /\ NoJob \notin Clients
                           /\ "ok" \in Codes

VARIABLES timeToDie,     (* time_to_die                                    *)
          client,        (* what each client process is doing              *)
          left,          (* requests it is still going to send             *)
          conn,          (* its connection as the server's kernel sees it  *)
          request,       (* a request waits in the server's socket         *)
          reply,         (* a response waits in the client's socket        *)
          handler,       (* where each daHandler is                        *)
          taken,         (* requests a handler has read                    *)
          txnDone,       (* the cell txn_done of dispatchTableFn           *)
          txnRc,         (* the cell txn_rc of dispatchTableFn             *)
          answer,        (* txn_rc of daHandler, sent as resPacket.rc      *)
          numClients,    (* currentNumClients                              *)
          listener,      (* where daListener is                            *)
          doneCreating,  (* its done_creating                              *)
          sampler,       (* the sampling timer: not built, "off" or "on"   *)
          userQueue,     (* userTxnQueue: whose request, oldest first      *)
          sysQueue,      (* sysTxnQueue: how many updates                  *)
          proc,          (* where each processThread is                    *)
          job,           (* whose transaction it has, NoJob for an update  *)
          outcome,       (* the transaction's txn_rc                       *)
          loaded,        (* num_txn_to_wait as read for its decrement      *)
          numTxnToWait,  (* num_txn_to_wait                                *)
          updater,       (* where updateThread is                          *)
          item,          (* the data item it looks at                      *)
          main,          (* the join main is at                            *)
          ran,           (* history: transactions run for each client      *)
          truth          (* history: the outcome of the last one           *)

clientVars == <<client, left, conn, request, reply>>
handlerVars == <<handler, taken, txnDone, txnRc, answer, numClients>>
listenerVars == <<listener, doneCreating, sampler>>
queueVars == <<userQueue, sysQueue>>
procVars == <<proc, job, outcome, loaded, numTxnToWait, ran, truth>>
updaterVars == <<updater, item>>
vars == <<timeToDie, clientVars, handlerVars, listenerVars, queueVars,
          procVars, updaterVars, main>>

HandlerLabels == {"none", "barrier", "asleep", "read", "admit", "dispatch",
                  "full", "await", "fetch", "reply", "cleanup", "gone"}
ProcLabels == {"none", "loop", "sysTest", "sysDequeue", "sysWait", "refresh",
               "userTest", "userDequeue", "userWait", "run", "notify",
               "setRc", "control", "load", "store", "exit"}

HandlerAt(c, label) == handler' = [handler EXCEPT ![c] = label]
ProcAt(p, label) == proc' = [proc EXCEPT ![p] = label]

(* What the steps of one kind of thread leave alone.                       *)
NoClientStep == UNCHANGED <<timeToDie, handlerVars, listenerVars, queueVars,
                            procVars, updaterVars, main>>
NoListenerStep == UNCHANGED <<clientVars, taken, txnDone, txnRc, answer,
                              queueVars, procVars, updaterVars, main>>
NoHandlerStep == UNCHANGED <<client, left, listenerVars, sysQueue, procVars,
                             updaterVars, main>>
NoProcStep == UNCHANGED <<timeToDie, clientVars, handler, taken, answer,
                          numClients, listenerVars, updaterVars, main>>
NoUpdaterStep == UNCHANGED <<clientVars, handlerVars, listenerVars, procVars,
                             timeToDie, userQueue, main>>

(* What most steps of a handler, of a processing thread leave alone.       *)
socket == <<conn, request, reply>>
cells == <<txnDone, txnRc>>
ProcKeeps == UNCHANGED <<cells, queueVars, job, outcome, loaded,
                         numTxnToWait, ran, truth>>
-----------------------------------------------------------------------------
(* Faulty variants.  Each is a plausible bug in the definition it is named *)
(* after; the model uses none of them, the properties below are tried      *)
(* against them.                                                           *)

(* The queue takes a transaction without looking for room.                 *)
DispatchUnbounded(c) ==
    /\ handler[c] = "dispatch"
    /\ txnDone' = [txnDone EXCEPT ![c] = FALSE]
    /\ txnRc' = [txnRc EXCEPT ![c] = "ok"]
    /\ userQueue' = Append(userQueue, c)
    /\ HandlerAt(c, "await")
    /\ UNCHANGED <<timeToDie, socket, taken, answer, numClients>>

(* txn_done keeps its value from the request before.                       *)
DispatchKeepsDone(c) ==
    /\ handler[c] = "dispatch"
    /\ Len(userQueue) < Size
    /\ userQueue' = Append(userQueue, c)
    /\ HandlerAt(c, "await")
    /\ UNCHANGED <<timeToDie, socket, taken, cells, answer, numClients>>

(* The handler gives its request up when the server is asked to die.       *)
AwaitOrDie(c) ==
    /\ handler[c] = "await"
    /\ txnDone[c] \/ timeToDie
    /\ HandlerAt(c, "fetch")
    /\ UNCHANGED <<timeToDie, socket, taken, cells, answer, numClients,
                   userQueue>>

(* `if' for `while' at the start barrier.                                  *)
WakeSpuriouslyNoRetest(c) ==
    /\ handler[c] = "asleep"
    /\ HandlerAt(c, "read")
    /\ UNCHANGED <<timeToDie, socket, taken, cells, answer, numClients,
                   userQueue>>

(* The last handler is not noticed.                                        *)
CleanupNoEnd(c) ==
    /\ handler[c] = "cleanup"
    /\ numClients' = numClients - 1
    /\ HandlerAt(c, "gone")
    /\ UNCHANGED <<timeToDie, socket, taken, cells, answer, userQueue>>

(* The transaction that is taken stays in the queue.                       *)
UserDequeueKeeps(p) ==
    /\ proc[p] = "userDequeue" /\ userQueue # << >>
    /\ job' = [job EXCEPT ![p] = Head(userQueue)]
    /\ ProcAt(p, "run")
    /\ UNCHANGED <<cells, queueVars, outcome, loaded, numTxnToWait, ran,
                   truth>>

(* The user queue is not looked at before the call that waits for it.      *)
UserTestNot(p) == /\ proc[p] = "userTest"
                  /\ ProcAt(p, "userDequeue")
                  /\ ProcKeeps

(* Updates instead of user transactions, not before them.                  *)
RefreshInstead(p) == /\ proc[p] = "refresh"
                     /\ ProcAt(p, "loop")
                     /\ ProcKeeps

(* The update thread waits for room whatever happens to the server.        *)
UpdateAfterWaitPatient == /\ updater = "full"
                          /\ sysQueue < Size
                          /\ sysQueue' = sysQueue + 1
                          /\ item' = item + 1
                          /\ updater' = "pass"

(* num_txn_to_wait is set under overload and not reset afterwards.         *)
SampleNoReset ==
    /\ sampler = "on"
    /\ numTxnToWait' \in 1 .. 2 * (Len(userQueue) + sysQueue)
    /\ UNCHANGED <<timeToDie, clientVars, handlerVars, listenerVars,
                   queueVars, proc, job, outcome, loaded, ran, truth,
                   updaterVars, main>>
-----------------------------------------------------------------------------

Init == /\ timeToDie = FALSE
        /\ client = [c \in Clients |-> "start"]
        /\ conn = [c \in Clients |-> "none"]
        /\ request = [c \in Clients |-> FALSE]
        /\ reply = [c \in Clients |-> FALSE]
        /\ handler = [c \in Clients |-> "none"]
        /\ taken = [c \in Clients |-> 0]
        /\ txnDone = [c \in Clients |-> FALSE]
        /\ txnRc = [c \in Clients |-> "ok"]
        /\ answer = [c \in Clients |-> "ok"]
        /\ numClients = 0
        /\ listener = "poll"
        /\ doneCreating = FALSE
        /\ \E start \in Starts :
              /\ left = [c \in Clients |-> start.requests]
              /\ sampler = IF "sampling" \in start.options THEN "off"
                                                          ELSE "none"
              /\ updater = IF "updates" \in start.options THEN "pass"
                                                         ELSE "exit"
              /\ proc = [p \in Procs |-> IF p \in start.threads THEN "loop"
                                                               ELSE "none"]
        /\ userQueue = << >>
        /\ sysQueue = 0
        /\ job = [p \in Procs |-> NoJob]
        /\ outcome = [p \in Procs |-> "ok"]
        /\ loaded = [p \in Procs |-> 0]
        /\ numTxnToWait = 0
        /\ item = 1
        /\ main = "listener"
        /\ ran = [c \in Clients |-> 0]
        /\ truth = [c \in Clients |-> "ok"]
-----------------------------------------------------------------------------
(* A client process: connect once, then send a request and wait for its    *)
(* response; it may close its connection at any time.  Closing with a      *)
(* response unread resets the connection.                                  *)
ClientConnect(c) == /\ client[c] = "start"
                    /\ client' = [client EXCEPT ![c] = "ready"]
                    /\ conn' = [conn EXCEPT ![c] = "open"]
                    /\ UNCHANGED <<left, request, reply>>

ClientSend(c) == /\ client[c] = "ready"
                 /\ left[c] > 0
                 /\ left' = [left EXCEPT ![c] = @ - 1]
                 /\ client' = [client EXCEPT ![c] = "waiting"]
                 /\ request' = [request EXCEPT ![c] = TRUE]
                 /\ UNCHANGED <<conn, reply>>

ClientReceive(c) == /\ client[c] = "waiting"
                    /\ reply[c]
                    /\ reply' = [reply EXCEPT ![c] = FALSE]
                    /\ client' = [client EXCEPT ![c] = "ready"]
                    /\ UNCHANGED <<left, conn, request>>

ClientClose(c) ==
    /\ client[c] \in {"ready", "waiting"}
    /\ client' = [client EXCEPT ![c] = "closed"]
    /\ conn' = [conn EXCEPT ![c] = IF reply[c] THEN "reset" ELSE "fin"]
    /\ reply' = [reply EXCEPT ![c] = FALSE]
    /\ UNCHANGED <<left, request>>

ClientStep(c) == /\ \/ ClientConnect(c) \/ ClientSend(c) \/ ClientReceive(c)
                    \/ ClientClose(c)
                 /\ NoClientStep
-----------------------------------------------------------------------------
(* daListener.  In every outer round it polls for a connection, unless it  *)
(* has made all handlers or is asked to die, and then accepts all that are *)
(* pending.                                                                *)
Pending(c) == conn[c] # "none" /\ handler[c] = "none"

Poll == /\ listener = "poll"
        /\ ~doneCreating /\ ~timeToDie
        /\ \E c \in Clients : Pending(c)
        /\ listener' = "accept"
        /\ UNCHANGED <<timeToDie, handler, numClients, doneCreating, sampler>>

(* A handler thread is created first and counted afterwards.               *)
CreateHandler == /\ listener = "accept"
                 /\ \E c \in Clients : Pending(c) /\ HandlerAt(c, "barrier")
                 /\ listener' = "count"
                 /\ UNCHANGED <<timeToDie, numClients, doneCreating, sampler>>

(* Handlers blocked on startThreadsWait test their condition again.        *)
Broadcast == handler' = [c \in Clients |-> IF handler[c] = "asleep"
                                           THEN "barrier" ELSE handler[c]]

CountHandler == /\ listener = "count"
                /\ numClients' = numClients + 1
                /\ doneCreating' = (doneCreating \/ numClients' = NumClients)
                /\ Broadcast
                /\ listener' = "accept"
                /\ UNCHANGED <<timeToDie, sampler>>

AcceptNoMore == /\ listener = "accept"
                /\ ~ \E c \in Clients : Pending(c)
                /\ listener' = "poll"
                /\ UNCHANGED <<timeToDie, handler, numClients, doneCreating,
                               sampler>>

(* Both loops of daListener end; in between it starts the sampling timer.  *)
StartExperiment == /\ listener = "poll"
                   /\ doneCreating \/ timeToDie
                   /\ listener' = IF timeToDie THEN "exit" ELSE "run"
                   /\ sampler' = IF sampler = "off" /\ ~timeToDie THEN "on"
                                                               ELSE sampler
                   /\ UNCHANGED <<timeToDie, handler, numClients,
                                  doneCreating>>

(* The duration of the experiment is over.                                 *)
ExperimentFinish == /\ listener = "run"
                    /\ ~timeToDie
                    /\ timeToDie' = TRUE
                    /\ UNCHANGED <<listener, handler, numClients,
                                   doneCreating, sampler>>

ListenerExit == /\ listener = "run"
                /\ timeToDie
                /\ listener' = "exit"
                /\ UNCHANGED <<timeToDie, handler, numClients, doneCreating,
                               sampler>>

(* The exits by `goto cleanup' for a call that fails: poll() or what        *)
(* prepares it; accept(), or calloc() or pthread_create() for a connection, *)
(* which then stays without a handler; startSamplingTimer(), in a server    *)
(* that is built with it.  None of them sets time_to_die.                   *)
ListenerFails == /\ \/ listener = "poll" /\ ~doneCreating /\ ~timeToDie
                    \/ listener = "accept"
                    \/ /\ listener = "poll" /\ doneCreating /\ ~timeToDie
                       /\ sampler = "off"
                 /\ listener' = "exit"
                 /\ UNCHANGED <<timeToDie, handler, numClients, doneCreating,
                                sampler>>

ListenerAdvance == /\ \/ Poll \/ CreateHandler \/ CountHandler
                      \/ AcceptNoMore \/ StartExperiment \/ ListenerExit
                   /\ NoListenerStep
ListenerStep == \/ ListenerAdvance
                \/ (ExperimentFinish \/ ListenerFails) /\ NoListenerStep
-----------------------------------------------------------------------------
(* daHandler.                                                              *)
(* The start barrier: one pass of its loop under startThreadsMutex.        *)
Barrier(c) ==
    /\ handler[c] = "barrier"
    /\ \/ /\ numClients < NumClients /\ ~timeToDie
          /\ HandlerAt(c, "asleep")
       \/ /\ numClients >= NumClients \/ timeToDie
          /\ handler' = [d \in Clients |->
                            CASE d = c -> "read"
                              [] d # c /\ handler[d] = "asleep" -> "barrier"
                              [] OTHER -> handler[d]]
    /\ UNCHANGED <<timeToDie, socket, taken, cells, answer, numClients,
                   userQueue>>

(* pthread_cond_wait may return without a broadcast.                       *)
WakeSpuriously(c) ==
    /\ handler[c] = "asleep"
    /\ HandlerAt(c, "barrier")
    /\ UNCHANGED <<timeToDie, socket, taken, cells, answer, numClients,
                   userQueue>>

(* A request is read.  At the end of the stream read() returns 0 for ever  *)
(* and the handler stays in its loop.                                      *)
ReadRequest(c) ==
    /\ handler[c] = "read"
    /\ conn[c] # "reset"
    /\ request[c]
    /\ request' = [request EXCEPT ![c] = FALSE]
    /\ taken' = [taken EXCEPT ![c] = @ + 1]
    /\ HandlerAt(c, "admit")
    /\ UNCHANGED <<timeToDie, conn, reply, cells, answer, numClients,
                   userQueue>>

ReadFails(c) ==
    /\ handler[c] = "read"
    /\ conn[c] = "reset"
    /\ HandlerAt(c, "cleanup")
    /\ UNCHANGED <<timeToDie, socket, taken, cells, answer, numClients,
                   userQueue>>

(* Admission control: wait until num_txn_to_wait transactions are through. *)
Admit(c) ==
    /\ handler[c] = "admit"
    /\ \/ numTxnToWait <= 0 /\ HandlerAt(c, "dispatch")
       \/ numTxnToWait > 0 /\ timeToDie /\ HandlerAt(c, "cleanup")
    /\ UNCHANGED <<timeToDie, socket, taken, cells, answer, numClients,
                   userQueue>>

(* dispatchTableFn clears its cells and enqueues the transaction; the      *)
(* return code of the enqueue is not looked at.                            *)
Dispatch(c) ==
    /\ handler[c] = "dispatch"
    /\ txnDone' = [txnDone EXCEPT ![c] = FALSE]
    /\ txnRc' = [txnRc EXCEPT ![c] = "ok"]
    /\ \/ /\ Len(userQueue) < Size
          /\ userQueue' = Append(userQueue, c)
          /\ HandlerAt(c, "await")
       \/ /\ Len(userQueue) >= Size
          /\ HandlerAt(c, "full")
          /\ UNCHANGED userQueue
    /\ UNCHANGED <<timeToDie, socket, taken, answer, numClients>>

DispatchAfterWait(c) ==
    /\ handler[c] = "full"
    /\ \/ timeToDie /\ UNCHANGED userQueue
       \/ /\ ~timeToDie /\ Len(userQueue) < Size
          /\ userQueue' = Append(userQueue, c)
    /\ HandlerAt(c, "await")
    /\ UNCHANGED <<timeToDie, socket, taken, cells, answer, numClients>>

(* while (!txn_done), and then, separately, *txn_rc_ret = txn_rc.          *)
Await(c) ==
    /\ handler[c] = "await"
    /\ txnDone[c]
    /\ HandlerAt(c, "fetch")
    /\ UNCHANGED <<timeToDie, socket, taken, cells, answer, numClients,
                   userQueue>>

FetchRc(c) ==
    /\ handler[c] = "fetch"
    /\ answer' = [answer EXCEPT ![c] = txnRc[c]]
    /\ HandlerAt(c, "reply")
    /\ UNCHANGED <<timeToDie, socket, taken, cells, numClients, userQueue>>

(* The response is written; on a connection the client has closed that     *)
(* resets it.                                                              *)
Reply(c) ==
    /\ handler[c] = "reply"
    /\ reply' = [reply EXCEPT ![c] = (conn[c] = "open")]
    /\ conn' = [conn EXCEPT ![c] = IF @ = "open" THEN @ ELSE "reset"]
    /\ HandlerAt(c, IF timeToDie THEN "cleanup" ELSE "read")
    /\ UNCHANGED <<timeToDie, request, taken, cells, answer, numClients,
                   userQueue>>

(* The last handler to leave ends the experiment.                          *)
Cleanup(c) ==
    /\ handler[c] = "cleanup"
    /\ numClients' = numClients - 1
    /\ timeToDie' = (timeToDie \/ numClients' = 0)
    /\ HandlerAt(c, "gone")
    /\ UNCHANGED <<socket, taken, cells, answer, userQueue>>

HandlerAdvance(c) == /\ \/ Barrier(c) \/ ReadRequest(c) \/ ReadFails(c)
                        \/ Admit(c) \/ Dispatch(c) \/ DispatchAfterWait(c)
                        \/ Await(c) \/ FetchRc(c) \/ Reply(c) \/ Cleanup(c)
                     /\ NoHandlerStep
HandlerStep(c) == \/ HandlerAdvance(c)
                  \/ WakeSpuriously(c) /\ NoHandlerStep
-----------------------------------------------------------------------------
(* processThread.  The occupied fields are read without the mutex.         *)
ProcLoop(p) == /\ proc[p] = "loop"
               /\ ProcAt(p, IF timeToDie THEN "exit" ELSE "sysTest")
               /\ ProcKeeps

SysTest(p) == /\ proc[p] = "sysTest"
              /\ ProcAt(p, IF sysQueue > 0 THEN "sysDequeue"
                                                      ELSE "userTest")
              /\ ProcKeeps

(* chronos_dequeue_system_transaction: the queue may be empty again; after *)
(* a wait time_to_die counts first.                                        *)
SysDequeue(p) ==
    /\ \/ /\ proc[p] \in {"sysDequeue", "sysWait"}
          /\ proc[p] = "sysWait" => ~timeToDie
          /\ sysQueue > 0
          /\ sysQueue' = sysQueue - 1
          /\ job' = [job EXCEPT ![p] = NoJob]
          /\ ProcAt(p, "refresh")
       \/ /\ proc[p] = "sysDequeue" /\ sysQueue = 0
          /\ ProcAt(p, "sysWait")
          /\ UNCHANGED <<sysQueue, job>>
       \/ /\ proc[p] = "sysWait" /\ timeToDie
          /\ ProcAt(p, "userTest")
          /\ UNCHANGED <<sysQueue, job>>
    /\ UNCHANGED <<cells, userQueue, outcome, loaded, numTxnToWait, ran,
                   truth>>

(* benchmark_refresh_quotes2 succeeds or fails.                            *)
Refresh(p) == /\ proc[p] = "refresh"
              /\ ProcAt(p, "control") \/ ProcAt(p, "userTest")
              /\ ProcKeeps

(* The two tests of processThread and processUserTransaction in a row.     *)
UserTest(p) == /\ proc[p] = "userTest"
               /\ ProcAt(p, IF userQueue # << >> THEN "userDequeue"
                                                 ELSE "loop")
               /\ ProcKeeps

UserDequeue(p) ==
    /\ \/ /\ proc[p] \in {"userDequeue", "userWait"}
          /\ proc[p] = "userWait" => ~timeToDie
          /\ userQueue # << >>
          /\ userQueue' = Tail(userQueue)
          /\ job' = [job EXCEPT ![p] = Head(userQueue)]
          /\ ProcAt(p, "run")
       \/ /\ proc[p] = "userDequeue" /\ userQueue = << >>
          /\ ProcAt(p, "userWait")
          /\ UNCHANGED <<userQueue, job>>
       \/ /\ proc[p] = "userWait" /\ timeToDie
          /\ ProcAt(p, "loop")
          /\ UNCHANGED <<userQueue, job>>
    /\ UNCHANGED <<cells, sysQueue, outcome, loaded, numTxnToWait, ran,
                   truth>>

(* The transaction runs and succeeds or fails.                             *)
Run(p) == /\ proc[p] = "run"
          /\ \E code \in Codes :
                /\ outcome' = [outcome EXCEPT ![p] = code]
                /\ truth' = [truth EXCEPT ![job[p]] = code]
          /\ ran' = [ran EXCEPT ![job[p]] = @ + 1]
          /\ ProcAt(p, "notify")
          /\ UNCHANGED <<cells, queueVars, job, loaded, numTxnToWait>>

(* *txn_done = 1, and then *txn_rcP = txn_rc.                              *)
Notify(p) == /\ proc[p] = "notify"
             /\ txnDone' = [txnDone EXCEPT ![job[p]] = TRUE]
             /\ ProcAt(p, "setRc")
             /\ UNCHANGED <<txnRc, queueVars, job, outcome, loaded,
                            numTxnToWait, ran, truth>>

SetRc(p) == /\ proc[p] = "setRc"
            /\ txnRc' = [txnRc EXCEPT ![job[p]] = outcome[p]]
            /\ ProcAt(p, "control")
            /\ UNCHANGED <<txnDone, queueVars, job, outcome, loaded,
                           numTxnToWait, ran, truth>>

(* if (num_txn_to_wait > 0) num_txn_to_wait --, without any lock.  Lost     *)
(* decrements and samples in between can take it below zero, ever further; *)
(* as every test is `> 0', -1 stands for all negative values.              *)
Return(p) == /\ ProcAt(p, IF job[p] = NoJob THEN "userTest" ELSE "loop")
             /\ job' = [job EXCEPT ![p] = NoJob]
             /\ outcome' = [outcome EXCEPT ![p] = "ok"]
             /\ loaded' = [loaded EXCEPT ![p] = 0]

Control(p) == /\ proc[p] = "control"
              /\ \/ /\ numTxnToWait > 0
                    /\ ProcAt(p, "load")
                    /\ UNCHANGED <<job, outcome, loaded>>
                 \/ numTxnToWait <= 0 /\ Return(p)
              /\ UNCHANGED <<cells, queueVars, numTxnToWait, ran, truth>>

Load(p) == /\ proc[p] = "load"
           /\ loaded' = [loaded EXCEPT ![p] = numTxnToWait]
           /\ ProcAt(p, "store")
           /\ UNCHANGED <<cells, queueVars, job, outcome, numTxnToWait, ran,
                          truth>>

Store(p) == /\ proc[p] = "store"
            /\ numTxnToWait' = IF loaded[p] >= 0 THEN loaded[p] - 1 ELSE -1
            /\ Return(p)
            /\ UNCHANGED <<cells, queueVars, ran, truth>>

ProcStep(p) == /\ \/ ProcLoop(p) \/ SysTest(p) \/ SysDequeue(p) \/ Refresh(p)
                  \/ UserTest(p) \/ UserDequeue(p) \/ Run(p) \/ Notify(p)
                  \/ SetRc(p) \/ Control(p) \/ Load(p) \/ Store(p)
               /\ NoProcStep
-----------------------------------------------------------------------------
(* updateThread: a pass over its data items enqueues an update for each    *)
(* one that is due, not looking at the return code; then it sleeps.        *)
UpdateItem == /\ updater = "pass"
              /\ item <= NumItems
              /\ \/ item' = item + 1 /\ UNCHANGED <<updater, sysQueue>>
                 \/ /\ sysQueue < Size
                    /\ sysQueue' = sysQueue + 1
                    /\ item' = item + 1
                    /\ UNCHANGED updater
                 \/ /\ sysQueue >= Size
                    /\ updater' = "full"
                    /\ UNCHANGED <<sysQueue, item>>

(* The enqueue that waits for room.                                        *)
UpdateAfterWait == /\ updater = "full"
                   /\ \/ timeToDie /\ UNCHANGED sysQueue
                      \/ /\ ~timeToDie /\ sysQueue < Size
                         /\ sysQueue' = sysQueue + 1
                   /\ item' = item + 1
                   /\ updater' = "pass"

UpdatePassEnds == /\ updater = "pass"
                  /\ item > NumItems
                  /\ item' = 1
                  /\ updater' = IF timeToDie THEN "exit" ELSE "pass"
                  /\ UNCHANGED sysQueue

UpdaterStep == /\ UpdateItem \/ UpdateAfterWait \/ UpdatePassEnds
               /\ NoUpdaterStep
-----------------------------------------------------------------------------
(* handler_sampling: num_txn_to_wait becomes a multiple of what is         *)
(* enqueued, from none to more than all of it with the measured delay.     *)
Sample == /\ sampler = "on"
          /\ numTxnToWait' \in 0 .. 2 * (Len(userQueue) + sysQueue)
          /\ UNCHANGED <<timeToDie, clientVars, handlerVars, listenerVars,
                         queueVars, proc, job, outcome, loaded, ran, truth,
                         updaterVars, main>>

(* handler_sigint.                                                         *)
Sigint == /\ ~timeToDie
          /\ timeToDie' = TRUE
          /\ UNCHANGED <<clientVars, handlerVars, listenerVars, queueVars,
                         procVars, updaterVars, main>>

(* main joins the listener, the update threads and the processing threads, *)
(* cleans up and returns, which ends the process; handlers are detached.   *)
Join == /\ \/ /\ main = "listener" /\ listener = "exit"
              /\ main' = "updater"
           \/ /\ main = "updater" /\ updater = "exit"
              /\ main' = "procs"
           \/ /\ main = "procs" /\ \A p \in Procs : proc[p] \in {"none", "exit"}
              /\ main' = "exit"
        /\ UNCHANGED <<timeToDie, clientVars, handlerVars, listenerVars,
                       queueVars, procVars, updaterVars>>

Step == \/ \E c \in Clients : ClientStep(c) \/ HandlerStep(c)
        \/ \E p \in Procs : ProcStep(p)
        \/ ListenerStep \/ UpdaterStep \/ Sample \/ Sigint \/ Join

Next == \/ main # "exit" /\ Step
        \/ main = "exit" /\ UNCHANGED vars

Spec == Init /\ [][Next]_vars

(* Every thread of the process runs when it can and the sampling timer is  *)
(* periodic.  Nothing is assumed of clients and signals, nor that the      *)
(* duration of the experiment is ever over.                                *)
Fairness == /\ \A c \in Clients : WF_vars(main # "exit" /\ HandlerAdvance(c))
            /\ \A p \in Procs : WF_vars(main # "exit" /\ ProcStep(p))
            /\ WF_vars(main # "exit" /\ ListenerAdvance)
            /\ WF_vars(main # "exit" /\ UpdaterStep)
            /\ WF_vars(main # "exit" /\ Sample)
            /\ WF_vars(main # "exit" /\ Join)

FairSpec == Spec /\ Fairness
-----------------------------------------------------------------------------
(* Every variable has its type.                                            *)
TypeOK ==
    /\ timeToDie \in BOOLEAN
    /\ client \in [Clients -> {"start", "ready", "waiting", "closed"}]
    /\ left \in [Clients -> 0 .. MaxRequests]
    /\ conn \in [Clients -> {"none", "open", "fin", "reset"}]
    /\ request \in [Clients -> BOOLEAN] /\ reply \in [Clients -> BOOLEAN]
    /\ handler \in [Clients -> HandlerLabels]
    /\ taken \in [Clients -> 0 .. MaxRequests]
    /\ txnDone \in [Clients -> BOOLEAN] /\ txnRc \in [Clients -> Codes]
    /\ answer \in [Clients -> Codes]
    /\ numClients \in - Cardinality(Clients) .. Cardinality(Clients)
    /\ listener \in {"poll", "accept", "count", "run", "exit"}
    /\ doneCreating \in BOOLEAN /\ sampler \in {"none", "off", "on"}
    /\ userQueue \in Seq(Clients) /\ Len(userQueue) <= Size
    /\ sysQueue \in 0 .. Size
    /\ proc \in [Procs -> ProcLabels]
    /\ job \in [Procs -> Clients \cup {NoJob}]
    /\ outcome \in [Procs -> Codes] /\ loaded \in [Procs -> Nat \cup {-1}]
    /\ numTxnToWait \in Nat \cup {-1}
    /\ updater \in {"pass", "full", "exit"} /\ item \in 1 .. NumItems + 1
    /\ main \in {"listener", "updater", "procs", "exit"}
    /\ ran \in [Clients -> 0 .. MaxRequests] /\ truth \in [Clients -> Codes]

(* Where the request of client c is until txn_done is written: places of   *)
(* the queue, threads that have it and have not notified yet.              *)
Queued(c) == {i \in DOMAIN userQueue : userQueue[i] = c}
Unnotified(c) == {p \in Procs : job[p] = c /\ proc[p] \in {"run", "notify"}}

(* txn_done is on the stack of dispatchTableFn: as long as a queue entry   *)
(* or a processing thread is going to write it, the handler is in its loop *)
(* there, and one request has one entry.  A full queue, the shutdown and   *)
(* the end of a client must not break this.  This is about txn_done only.  *)
(* Nothing like it holds of txn_rc, which a thread writes after it has     *)
(* notified (SetRc): by then the handler may have left dispatchTableFn, be *)
(* in it for its next request, or have ended.                              *)
DoneCellLive == \A c \in Clients :
    /\ Cardinality(Queued(c)) + Cardinality(Unnotified(c)) <= 1
    /\ Queued(c) # {} \/ Unnotified(c) # {} =>
          handler[c] = "await" /\ ~txnDone[c]

(* Every reply stands for exactly one run of the transaction it answers:   *)
(* none is answered before it ran, or runs twice.                          *)
RepliedAfterOneRun == \A c \in Clients :
    /\ handler[c] \in {"fetch", "reply"} => ran[c] = taken[c]
    /\ ran[c] <= taken[c]

(* No transaction is requested from the queue before all the clients of    *)
(* the experiment have connected, unless the server is asked to die: the   *)
(* listener has counted them all before the first handler goes on.         *)
StartTogether == \A c \in Clients :
    handler[c] \notin {"none", "barrier", "asleep"} =>
        doneCreating \/ timeToDie

(* When the last handler has left, the experiment is over.                 *)
LastHandlerEnds ==
    /\ \A c \in Clients : handler[c] \in {"none", "gone"}
    /\ \E c \in Clients : handler[c] = "gone"
    => timeToDie

(* The processing threads read `occupied' without the mutex and may find   *)
(* the queue empty when they call it, so a thread can block on one queue   *)
(* while the other fills up; but they never all do.                        *)
SomeProcRuns ==
    \E p \in Procs : proc[p] \notin {"none", "sysWait", "userWait"}

(* A reply carries the return code of the transaction, which is what the   *)
(* handler waits for.                                                      *)
ReplyCarriesOutcome ==
    \A c \in Clients : handler[c] = "reply" => answer[c] = truth[c]

(* Whatever the handlers and clients do, main gets through its joins once  *)
(* the server is asked to die.                                             *)
ShutdownCompletes == timeToDie ~> main = "exit"

(* A request that is in the user queue is answered, however many updates   *)
(* come with higher priority, unless the server is asked to die first.     *)
RequestsAreRun == \A c \in Clients :
    handler[c] = "await" ~> (handler[c] # "await" \/ timeToDie)

(* Admission control lets every request through in the end: the clients    *)
(* cannot all be held back by a num_txn_to_wait that only transactions     *)
(* they would have to send could bring down.                               *)
AdmissionLifts == \A c \in Clients :
    handler[c] = "admit" ~> (handler[c] # "admit" \/ main = "exit")
=============================================================================
