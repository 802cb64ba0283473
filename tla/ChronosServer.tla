--------------------------- MODULE ChronosServer ---------------------------
(***************************************************************************)
(* The server the Makefile builds, startup_server.c, with its clients,     *)
(* startup_client.c and chronos_client.c.  A client thread makes a         *)
(* connection for every request; daListener makes a detached thread        *)
(* (daHandler) for every connection, which reads one request, runs it as a *)
(* transaction on the benchmark handle all threads share, replies and      *)
(* closes.  main waits for the listener only, frees the handle and         *)
(* returns, which ends the process with whatever handlers are left.        *)
(*                                                                         *)
(* Not built, and left out: the update threads, the sampling timer and,    *)
(* since only the timer sets num_txn_to_wait, the admission loop, which    *)
(* never waits.                                                            *)
(***************************************************************************)
EXTENDS Integers

CONSTANTS Clients,       (* the client threads of the client program       *)
          MaxRequests,   (* bound of the model: connections of a thread    *)
          NoReply        (* nothing to read on a connection                *)

ASSUME ServerAssumption == /\ MaxRequests \in [Clients -> Nat]
                           /\ NoReply \notin {"ok", "fail"}

(* The k-th connection of each client thread.                              *)
Conns == UNION {{c} \X (1 .. MaxRequests[c]) : c \in Clients}

VARIABLES timeToDie,   (* time_to_die of the server                        *)
          elapsed,     (* time(NULL) has reached the end of the experiment *)
          listening,   (* the kernel accepts connections to the port       *)
          listener,    (* where daListener is                              *)
          main,        (* where main is, from its join on                  *)
          handle,      (* benchmarkCtxtP                                   *)
          handler,     (* where a connection and its daHandler are         *)
          txnRc,       (* txn_rc of the handler                            *)
          request,     (* connections with a request to read               *)
          reply,       (* the response that waits for the client           *)
          closed,      (* connections the client has closed                *)
          clientDie,   (* time_to_die of the client program                *)
          client,      (* where each client thread is                      *)
          conns,       (* the connections each client thread has made      *)
          succeeded,   (* the requests cnt_success counts                  *)
          failed,      (* the requests cnt_fail counts                     *)
          committed    (* history: the requests whose transaction committed *)

serverVars == <<timeToDie, listening, listener, main, handle>>
handlerVars == <<handler, txnRc, request, reply, committed>>
clientVars == <<closed, client, conns, succeeded, failed>>
vars == <<serverVars, elapsed, handlerVars, clientDie, clientVars>>

Outcomes == {"ok", "fail"}
HandlerLabels == {"none", "backlog", "leaked", "read", "run", "txn", "reply",
                  "gone"}

Alive == main # "exited"
Backlog == {x \in Conns : handler[x] = "backlog"}
Cur(c) == <<c, conns[c]>>
HandlerAt(x, label) == handler' = [handler EXCEPT ![x] = label]
ClientAt(c, label) == client' = [client EXCEPT ![c] = label]
ProcessEnds == main' = "exited" /\ listening' = FALSE
ServerOpen(x) == Alive /\ handler[x] # "gone"
-----------------------------------------------------------------------------
(* Faulty variants.  Each is a plausible bug in the definition it is named *)
(* after; the model uses none of them, the properties below are tried      *)
(* against them.                                                           *)

(* A poll without a timeout.                                               *)
PollForEver == /\ listener = "poll"
               /\ Backlog # {}
               /\ listener' = "accept"
               /\ UNCHANGED <<timeToDie, listening, main, handle, handler>>

(* The listener goes on after a thread could not be created.               *)
SpawnFailsGoOn ==
    /\ listener = "accept"
    /\ \E x \in Backlog : HandlerAt(x, "leaked")
    /\ UNCHANGED <<timeToDie, listening, listener, main, handle>>

(* The response keeps the 0 of its memset.                                 *)
ReplyZero(x) == /\ handler[x] = "reply"
                /\ reply' = IF x \in closed THEN reply
                                            ELSE [reply EXCEPT ![x] = "ok"]
                /\ HandlerAt(x, "gone")
                /\ UNCHANGED <<serverVars, txnRc, request, committed>>

(* The client gives a request up when poll() times out.                    *)
ReceiveOrTimeOut(c) ==
    /\ client[c] = "receive"
    /\ closed' = closed \cup {Cur(c)}
    /\ succeeded' = IF reply[Cur(c)] = "ok" THEN succeeded \cup {Cur(c)}
                                            ELSE succeeded
    /\ failed' = IF reply[Cur(c)] = "fail" THEN failed \cup {Cur(c)}
                                           ELSE failed
    /\ ClientAt(c, "think")
    /\ UNCHANGED <<handler, request, conns>>

(* The client does not look at time_to_die between requests.               *)
ThinkOn(c) == /\ client[c] = "think"
              /\ conns[c] < MaxRequests[c] \/ ~listening
              /\ ClientAt(c, "connect")
              /\ UNCHANGED <<handler, request, closed, conns, succeeded,
                             failed>>

(* The return code of the transaction is not stored.                       *)
FinishTxnNoRc(x) == /\ handler[x] = "txn"
                    /\ txnRc' = [txnRc EXCEPT ![x] = NoReply]
                    /\ HandlerAt(x, "reply")
                    /\ UNCHANGED <<serverVars, request, reply, committed>>
-----------------------------------------------------------------------------
Init == /\ timeToDie = FALSE
        /\ elapsed = FALSE
        /\ listening = FALSE
        /\ listener = "start"
        /\ main = "join"
        /\ handle = "open"
        /\ handler = [x \in Conns |-> "none"]
        /\ txnRc = [x \in Conns |-> "ok"]
        /\ request = {}
        /\ reply = [x \in Conns |-> NoReply]
        /\ closed = {}
        /\ clientDie = FALSE
        /\ client = [c \in Clients |-> "connect"]
        /\ conns = [c \in Clients |-> 0]
        /\ succeeded = {}
        /\ failed = {}
        /\ committed = {}
-----------------------------------------------------------------------------
(* userTransactionThread.                                                  *)
Connect(c) == /\ client[c] = "connect"
              /\ listening
              /\ conns[c] < MaxRequests[c]
              /\ conns' = [conns EXCEPT ![c] = @ + 1]
              /\ HandlerAt(<<c, conns[c] + 1>>, "backlog")
              /\ ClientAt(c, "send")
              /\ UNCHANGED <<request, closed, succeeded, failed>>

Refused(c) == /\ client[c] = "connect"
              /\ ~listening
              /\ ClientAt(c, "done")
              /\ UNCHANGED <<handler, request, closed, conns, succeeded,
                             failed>>

Send(c) == /\ client[c] = "send"
           /\ Alive
           /\ request' = request \cup {Cur(c)}
           /\ ClientAt(c, "receive")
           /\ UNCHANGED <<handler, closed, conns, succeeded, failed>>

(* The cleanup of the thread: it closes its connection and exits.          *)
Leave(c) == /\ closed' = closed \cup {Cur(c)}
            /\ ClientAt(c, "done")
            /\ UNCHANGED <<handler, request, conns, succeeded, failed>>

(* The request could not be created, or not be written.                    *)
SendFails(c) == /\ client[c] = "send"
                /\ Leave(c)

(* chronosClientReceiveResponse: it polls until there is a response, ...   *)
Receive(c) ==
    /\ client[c] = "receive"
    /\ reply[Cur(c)] # NoReply
    /\ succeeded' = IF reply[Cur(c)] = "ok" THEN succeeded \cup {Cur(c)}
                                            ELSE succeeded
    /\ failed' = IF reply[Cur(c)] = "fail" THEN failed \cup {Cur(c)}
                                           ELSE failed
    /\ closed' = closed \cup {Cur(c)}
    /\ ClientAt(c, "think")
    /\ UNCHANGED <<handler, request, conns>>

(* ... the socket is closed or the client program is asked to die.         *)
ReceiveFails(c) == /\ client[c] = "receive"
                   /\ \/ clientDie
                      \/ reply[Cur(c)] = NoReply /\ ~ServerOpen(Cur(c))
                   /\ Leave(c)

(* The think time, and the test of time_to_die behind it.                  *)
Think(c) == /\ client[c] = "think"
            /\ \/ /\ clientDie
                  /\ ClientAt(c, "done")
               \/ /\ ~clientDie
                  /\ conns[c] < MaxRequests[c] \/ ~listening
                  /\ ClientAt(c, "connect")
            /\ UNCHANGED <<handler, request, closed, conns, succeeded, failed>>

ClientStep(c) ==
    /\ \/ Connect(c) \/ Refused(c) \/ Send(c) \/ SendFails(c)
       \/ Receive(c) \/ ReceiveFails(c) \/ Think(c)
    /\ UNCHANGED <<serverVars, elapsed, txnRc, reply, clientDie, committed>>

(* sigintHandler of the client program.                                    *)
ClientSigint == /\ ~clientDie
                /\ clientDie' = TRUE
                /\ UNCHANGED <<serverVars, elapsed, handlerVars, clientVars>>
-----------------------------------------------------------------------------
(* daListener.                                                             *)
Listen == /\ listener = "start"
          /\ listening' = TRUE
          /\ listener' = "poll"
          /\ UNCHANGED <<timeToDie, main, handle, handler>>

(* A connection is there.  (poll() that times out starts the loop again.)  *)
Poll == /\ listener = "poll"
        /\ ~timeToDie
        /\ Backlog # {}
        /\ listener' = "accept"
        /\ UNCHANGED <<timeToDie, listening, main, handle, handler>>

PollDies == /\ listener = "poll"
            /\ timeToDie
            /\ listener' = "done"
            /\ UNCHANGED <<timeToDie, listening, main, handle, handler>>

Accept == /\ listener = "accept"
          /\ \E x \in Backlog : HandlerAt(x, "read")
          /\ UNCHANGED <<timeToDie, listening, listener, main, handle>>

(* No memory, or no thread, for an accepted connection, which stays open.  *)
SpawnFails == /\ listener = "accept"
              /\ \E x \in Backlog : HandlerAt(x, "leaked")
              /\ listener' = "done"
              /\ UNCHANGED <<timeToDie, listening, main, handle>>

(* The backlog is empty: has the experiment lasted long enough?            *)
CheckDuration == /\ listener = "accept"
                 /\ Backlog = {}
                 /\ timeToDie' = (timeToDie \/ elapsed)
                 /\ listener' = "poll"
                 /\ UNCHANGED <<listening, main, handle, handler>>

(* The socket could not be set up, or poll() or accept() failed.           *)
ListenerFails == /\ listener \in {"start", "poll", "accept"}
                 /\ listener' = "done"
                 /\ UNCHANGED <<timeToDie, listening, main, handle, handler>>

NoListenerStep == UNCHANGED <<elapsed, txnRc, request, reply, committed,
                              clientDie, clientVars>>
ListenerAdvance == /\ Alive
                   /\ \/ Listen \/ Poll \/ PollDies \/ Accept
                      \/ CheckDuration
                   /\ NoListenerStep
ListenerStep == \/ ListenerAdvance
                \/ Alive /\ (SpawnFails \/ ListenerFails) /\ NoListenerStep

DurationElapses == /\ ~elapsed
                   /\ elapsed' = TRUE
                   /\ UNCHANGED <<serverVars, handlerVars, clientDie,
                                  clientVars>>

(* handler_sigint.                                                         *)
ServerSigint == /\ Alive /\ ~timeToDie
                /\ timeToDie' = TRUE
                /\ UNCHANGED <<elapsed, listening, listener, main, handle,
                               handlerVars, clientDie, clientVars>>
-----------------------------------------------------------------------------
(* daHandler.  A client that closes without a request leaves the handler   *)
(* in its loop: read() returns 0, which is no error and no progress.       *)
ReadRequest(x) == /\ handler[x] = "read"
                  /\ x \in request
                  /\ request' = request \ {x}
                  /\ HandlerAt(x, "run")
                  /\ UNCHANGED <<serverVars, txnRc, reply, committed>>

(* processUserTransaction calls benchmark_*2, which first asserts that the *)
(* magic number of the handle is right.                                    *)
StartTxn(x) == /\ handler[x] = "run"
               /\ \/ /\ handle = "open"
                     /\ HandlerAt(x, "txn")
                     /\ UNCHANGED serverVars
                  \/ /\ handle = "freed"
                     /\ ProcessEnds
                     /\ UNCHANGED <<timeToDie, listener, handle, handler>>
               /\ UNCHANGED <<txnRc, request, reply, committed>>

(* The transaction commits or aborts.  With the databases closed under it, *)
(* it fails or brings the process down.                                    *)
FinishTxn(x) ==
    /\ handler[x] = "txn"
    /\ \/ \E rc \in IF handle = "open" THEN Outcomes ELSE {"fail"} :
             /\ txnRc' = [txnRc EXCEPT ![x] = rc]
             /\ committed' = IF rc = "ok" THEN committed \cup {x}
                                          ELSE committed
             /\ HandlerAt(x, "reply")
             /\ UNCHANGED serverVars
       \/ /\ handle = "freed"
          /\ ProcessEnds
          /\ UNCHANGED <<timeToDie, listener, handle, handler, txnRc,
                         committed>>
    /\ UNCHANGED <<request, reply>>

(* The response is written to a client that is still there, and the thread *)
(* closes its end and exits.                                               *)
Reply(x) == /\ handler[x] = "reply"
            /\ reply' = IF x \in closed THEN reply
                                        ELSE [reply EXCEPT ![x] = txnRc[x]]
            /\ HandlerAt(x, "gone")
            /\ UNCHANGED <<serverVars, txnRc, request, committed>>

HandlerStep(x) == /\ Alive
                  /\ \/ ReadRequest(x) \/ StartTxn(x) \/ FinishTxn(x)
                     \/ Reply(x)
                  /\ UNCHANGED <<elapsed, clientDie, clientVars>>
-----------------------------------------------------------------------------
(* main, from pthread_join(listener) to the end of the process.            *)
Join == /\ main = "join"
        /\ listener = "done"
        /\ main' = "free"
        /\ UNCHANGED <<listening, handle>>

FreeHandle == /\ main = "free"
              /\ handle' = "freed"
              /\ main' = "exit"
              /\ UNCHANGED listening

(* Closing fails under a running transaction; main then goes back to       *)
(* failXit and through its cleanup a second time, where it frees           *)
(* dataItemsArray again, which may end the process.                        *)
FreeHandleFails == /\ main = "free"
                   /\ \E x \in Conns : handler[x] = "txn"
                   /\ ProcessEnds
                   /\ UNCHANGED handle

Exit == /\ main = "exit"
        /\ ProcessEnds
        /\ UNCHANGED handle

MainStep == /\ Join \/ FreeHandle \/ FreeHandleFails \/ Exit
            /\ UNCHANGED <<timeToDie, listener, elapsed, handlerVars,
                           clientDie, clientVars>>
-----------------------------------------------------------------------------
Next == \/ \E c \in Clients : ClientStep(c)
        \/ \E x \in Conns : HandlerStep(x)
        \/ ListenerStep \/ MainStep
        \/ DurationElapses \/ ServerSigint \/ ClientSigint

Spec == Init /\ [][Next]_vars

(* The scheduler runs every thread that can run, and the clock goes on.    *)
(* Nobody has to press Ctrl-C, and no call of the listener has to fail.    *)
Fairness == /\ \A c \in Clients : WF_vars(ClientStep(c))
            /\ \A x \in Conns : WF_vars(HandlerStep(x))
            /\ WF_vars(ListenerAdvance)
            /\ WF_vars(MainStep)
            /\ WF_vars(DurationElapses)

FairSpec == Spec /\ Fairness
-----------------------------------------------------------------------------
(* Every variable of the server and its clients has its type.              *)
TypeOK == /\ timeToDie \in BOOLEAN
          /\ elapsed \in BOOLEAN
          /\ listening \in BOOLEAN
          /\ listener \in {"start", "poll", "accept", "done"}
          /\ main \in {"join", "free", "exit", "exited"}
          /\ handle \in {"open", "freed"}
          /\ handler \in [Conns -> HandlerLabels]
          /\ txnRc \in [Conns -> Outcomes]
          /\ request \subseteq Conns
          /\ reply \in [Conns -> Outcomes \cup {NoReply}]
          /\ closed \subseteq Conns
          /\ clientDie \in BOOLEAN
          /\ client \in [Clients -> {"connect", "send", "receive", "think",
                                     "done"}]
          /\ conns \in [Clients -> Nat]
          /\ \A c \in Clients : conns[c] <= MaxRequests[c]
          /\ succeeded \subseteq Conns
          /\ failed \subseteq Conns
          /\ committed \subseteq Conns

(* What a client prints is what the database did: the requests it counts   *)
(* as successes committed, those it counts as failures did not.            *)
CountsAreTrue == succeeded \subseteq committed /\ failed \cap committed = {}

(* Whatever is lost when a connection breaks, the server shuts down or a   *)
(* client gives up, a client misses no outcome but that of its last        *)
(* request: an earlier transaction that committed has been counted.        *)
OnlyLastIsLost == \A c \in Clients : \A k \in 1 .. conns[c] - 1 :
                     <<c, k>> \in committed => <<c, k>> \in succeeded

(* The transactions of one client thread never overlap, although a handler *)
(* may outlive the connection of its client: a thread sends its next       *)
(* request only when it has the response to the one before.                *)
OneTxnPerClient == \A c \in Clients : \A j, k \in 1 .. MaxRequests[c] :
                      (/\ handler[<<c, j>>] \in {"run", "txn", "reply"}
                       /\ handler[<<c, k>>] \in {"run", "txn", "reply"})
                         => j = k

(* A server that was asked to die does: neither handlers that wait for a   *)
(* request, nor a listener in poll() hold it.                              *)
ServerStops == timeToDie ~> ~Alive

(* No client waits for a response for ever: it is answered, or the server  *)
(* ends and the connection with it, also when the listener fails and       *)
(* leaves connections in its backlog.                                      *)
ReceiveEnds == \A c \in Clients :
                  (client[c] = "receive") ~> (client[c] # "receive")

(* A client program that is interrupted, or whose server has gone, ends.   *)
ClientsStop == (clientDie \/ ~Alive)
                  ~> \A c \in Clients : client[c] = "done"

(* "-r duration of the experiment": when it is over the server finishes.   *)
(* The code compares the clock only after it has accepted a connection.    *)
DurationEnds == elapsed ~> ~Alive

(* BENCHMARK_CHECK_MAGIC: the handle a transaction runs on is not freed.   *)
HandleAlive == \A x \in Conns : handler[x] = "txn" => handle = "open"
=============================================================================
