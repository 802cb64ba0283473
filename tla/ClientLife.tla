----------------------------- MODULE ClientLife -----------------------------
(***************************************************************************)
(* A client process: main of startup_client.c and startup_client_2.c, the  *)
(* environment of chronos_environment.c with the cache of chronos_cache.c  *)
(* in it, the portfolios each thread takes from that cache and the         *)
(* requests chronos_packets.c makes of them.  What becomes of a request is *)
(* in ChronosServer and QueueServer; here a thread sends it or leaves.     *)
(*                                                                         *)
(* The symbols of a portfolio and the items of a request are drawn with    *)
(* rand().  The three items of a request are drawn alike and one stands    *)
(* for them; a portfolio may hold any symbol of the cache.                 *)
(***************************************************************************)
EXTENDS ClientCache

CONSTANTS LoadIterations, (* CHRONOS_CLIENT_LOAD_ITERATIONS                *)
          NoRequest       (* requestH is NULL                              *)

ASSUME ClientLifeAssumption == LoadIterations \in Nat \ {0}

VARIABLES cmain,      (* where main is                                     *)
          spawned,    (* threads main has made                             *)
          env,        (* chronosEnvH and what it points to                 *)
          clientDie,  (* time_to_die of the client                         *)
          client,     (* where each thread is                              *)
          program,    (* which of the two programs it is                   *)
          iterations, (* loadIterations, up to LoadIterations              *)
          request     (* requestH                                          *)

clientVars == <<cmain, spawned, env, clientDie, client, program, iterations,
                request>>

TxnTypes == {"view_stock", "view_portfolio", "purchase", "sale"}
(* Threads that hold the environment.                                      *)
Holding == {"cache", "connect", "create", "send", "receive", "think"}
(* Places where a thread looks into it.                                    *)
Reading == {"cache", "create", "leave"}
-----------------------------------------------------------------------------
(* Faulty variants.  Each is a plausible bug in the definition it is named *)
(* after; the model uses none of them, the properties below are tried      *)
(* against them.                                                           *)

(* main frees the environment when its threads are up.                     *)
SpawnedAndFree == /\ cmain = "spawn"
                  /\ spawned = NumClients
                  /\ cmain' = "failXit"
                  /\ UNCHANGED <<spawned, env, client>>
-----------------------------------------------------------------------------
ClientInit == /\ cmain = "alloc"
              /\ spawned = 0
              /\ env = "null"
              /\ clientDie = FALSE
              /\ client = [c \in Clients |-> "none"]
              /\ program \in {"startup_client", "startup_client_2"}
              /\ iterations = [c \in Clients |-> 0]
              /\ request = [c \in Clients |-> NoRequest]

ClientAt(c, label) == client' = [client EXCEPT ![c] = label]

(* main: the arguments, the signal and the environment.                    *)
AllocEnv == /\ cmain = "alloc"
            /\ \/ env' = "alive" /\ cmain' = "spawn"
               \/ UNCHANGED env /\ cmain' = "failXit"
            /\ UNCHANGED <<spawned, client>>

SpawnClient == /\ cmain = "spawn"
               /\ spawned < NumClients
               /\ spawned' = spawned + 1
               /\ ClientAt(spawned + 1, "start")
               /\ UNCHANGED <<cmain, env>>

SpawnClientFails == /\ cmain = "spawn"
                    /\ spawned < NumClients
                    /\ cmain' = "failXit"
                    /\ UNCHANGED <<spawned, env, client>>

AllSpawned == /\ cmain = "spawn"
              /\ spawned = NumClients
              /\ cmain' = "wait"
              /\ UNCHANGED <<spawned, env, client>>

WaitClients == /\ cmain = "wait"
               /\ \A c \in Clients : client[c] = "gone"
               /\ cmain' = "gone"
               /\ UNCHANGED <<spawned, env, client>>

(* failXit: the environment is freed first, the pointer to it cleared then.*)
FreeEnv == /\ cmain = "failXit"
           /\ IF env = "null" THEN UNCHANGED env /\ cmain' = "gone"
                              ELSE env' = "freed" /\ cmain' = "clear"
           /\ UNCHANGED <<spawned, client>>

ClearEnv == /\ cmain = "clear"
            /\ env' = "null"
            /\ cmain' = "gone"
            /\ UNCHANGED <<spawned, client>>

ClientMain == /\ \/ AllocEnv \/ SpawnClient \/ SpawnClientFails
                 \/ AllSpawned \/ WaitClients \/ FreeEnv \/ ClearEnv
              /\ UNCHANGED <<clientDie, program, iterations, request>>

(* userTransactionThread takes the handle main has, allocates a connection *)
(* and makes its portfolios.                                               *)
TakeEnv(c) == /\ client[c] = "start"
              /\ env # "null"
              /\ ClientAt(c, "cache")
              /\ UNCHANGED <<iterations, request>>

MakePortfolios(c) == /\ client[c] = "cache"
                     /\ ClientAt(c, "connect")
                     /\ UNCHANGED <<iterations, request>>

ConnectClient(c) == /\ client[c] = "connect"
                    /\ ClientAt(c, "create")
                    /\ UNCHANGED <<iterations, request>>

(* The first requests are purchases, later ones what pickTransactionType   *)
(* draws.                                                                  *)
Types(c) == IF iterations[c] + 1 < LoadIterations THEN {"purchase"}
                                                 ELSE TxnTypes

(* What chronosRequestCreate can make of the portfolios of a thread.  The  *)
(* symbols of a trade are data here, and a view of stocks names no user: 0 *)
(* stands for what is left out.                                            *)
RequestsOf(c) ==
    [type : {"view_stock"}, user : {0}, symbolId : Symbols]
    \cup [type : TxnTypes \ {"view_stock"},
          user : {UserOf(c, i) : i \in Portfolios}, symbolId : {0}]

CreateRequest(c) ==
    /\ client[c] = "create"
    /\ \E r \in RequestsOf(c) : /\ r.type \in Types(c)
                                /\ request' = [request EXCEPT ![c] = r]
    /\ iterations' = [iterations EXCEPT ![c] = Smaller(@ + 1, LoadIterations)]
    /\ ClientAt(c, "send")

SendRequest(c) == /\ client[c] = "send"
                  /\ ClientAt(c, "receive")
                  /\ UNCHANGED <<iterations, request>>

ReceiveResponse(c) == /\ client[c] = "receive"
                      /\ request' = [request EXCEPT ![c] = NoRequest]
                      /\ ClientAt(c, "think")
                      /\ UNCHANGED iterations

(* startup_client.c makes a connection for each request, the other program *)
(* keeps the one it has.                                                   *)
NextIteration(c) == /\ client[c] = "think"
                    /\ ~clientDie
                    /\ ClientAt(c, IF program = "startup_client"
                                  THEN "connect" ELSE "create")
                    /\ UNCHANGED <<iterations, request>>

(* goto cleanup from wherever a call fails, or at the end.                 *)
LeaveLoop(c) == /\ client[c] \in Holding \cup {"start"}
                /\ client[c] = "think" => clientDie
                /\ ClientAt(c, IF client[c] = "start" THEN "gone" ELSE "leave")
                /\ request' = [request EXCEPT ![c] = NoRequest]
                /\ iterations' = [iterations EXCEPT ![c] = 0]

(* chronosConnHandleFree checks the environment of the connection.         *)
FreeConnection(c) == /\ client[c] = "leave"
                     /\ ClientAt(c, "gone")
                     /\ UNCHANGED <<iterations, request>>

ClientThread(c) == /\ cmain # "gone"
                   /\ \/ TakeEnv(c) \/ MakePortfolios(c) \/ ConnectClient(c)
                      \/ CreateRequest(c) \/ SendRequest(c)
                      \/ ReceiveResponse(c) \/ NextIteration(c) \/ LeaveLoop(c)
                      \/ FreeConnection(c)
                   /\ UNCHANGED <<cmain, spawned, env, clientDie, program>>

ClientSigint == /\ cmain # "gone"
                /\ clientDie' = TRUE
                /\ UNCHANGED <<cmain, spawned, env, client, program,
                               iterations, request>>

ClientNext == \/ ClientMain
              \/ ClientSigint
              \/ \E c \in Clients : ClientThread(c)

ClientSpec == ClientInit /\ [][ClientNext]_clientVars
-----------------------------------------------------------------------------
(* Every variable has a value of its kind.                                 *)
ClientTypeOK ==
    /\ cmain \in {"alloc", "spawn", "wait", "failXit", "clear", "gone"}
    /\ spawned \in 0 .. NumClients
    /\ env \in {"null", "alive", "freed"}
    /\ clientDie \in BOOLEAN
    /\ client \in [Clients -> Holding \cup {"none", "start", "leave", "gone"}]
    /\ program \in {"startup_client", "startup_client_2"}
    /\ iterations \in [Clients -> 0 .. LoadIterations]
    /\ DOMAIN request = Clients
    /\ \A c \in Clients : request[c] \in RequestsOf(c) \cup {NoRequest}

(* A thread that looks into the environment finds it there, until main has *)
(* given up because it could not make one of the threads.                  *)
EnvAlive == \A c \in Clients : client[c] \in Reading =>
                \/ env = "alive"
                \/ spawned < NumClients /\ cmain \in {"clear", "gone"}

(* When there are portfolios of different users for all threads, two       *)
(* requests that are on their way never trade for the same user.           *)
Trading(c) == /\ request[c] # NoRequest
              /\ request[c].type # "view_stock"
OwnAccounts == NumClients * NumPortfolios <= NumUsers =>
                   \A c, d \in Clients :
                       c # d /\ Trading(c) /\ Trading(d)
                           => request[c].user # request[d].user
=============================================================================
