--------------------------- MODULE ProgramsProofs ---------------------------
(***************************************************************************)
(* The programs, for every number of threads, users and portfolios: first  *)
(* the environment and the users of a client process, then the two         *)
(* programs side by side, each of which takes its own steps only, so that  *)
(* what holds of one by itself holds of the two.                           *)
(***************************************************************************)
EXTENDS MCPrograms, ServerLifeProofs

(* Division, as arithmetic sees it.                                        *)
LEMMA Division ==
  ASSUME NEW n \in Nat, NEW d \in Nat \ {0}
  PROVE  /\ n \div d \in Nat
         /\ n % d \in 0 .. d - 1
         /\ n < d => n % d = n
  OBVIOUS

(* Every thread has portfolios, and at most as many as its array takes.    *)
LEMMA NumPortfoliosIsNat ==
  /\ NumPortfolios \in Nat \ {0}
  /\ NumPortfolios <= MaxPortfolios
<1> DEFINE share == NumUsers \div NumClients
<1>1. share \in Nat
  BY CacheAssumption, Division
<1> HIDE DEF share
<1>2. NumPortfolios = Larger(Smaller(share, MaxPortfolios), MinPortfolios)
  BY DEF NumPortfolios, share
<1>3. QED
  BY <1>1, <1>2, CacheAssumption DEF Larger, Smaller

(* A multiple is not less than what it is a multiple of.                   *)
LEMMA Multiples ==
  ASSUME NEW p \in Nat, NEW k \in Nat
  PROVE  /\ p * k \in Nat
         /\ k >= 1 => p * k >= p
  OBVIOUS

(* The portfolios of the threads before it, and its own, are no more than  *)
(* all of them.                                                            *)
LEMMA Placed ==
  ASSUME NEW c \in Clients, NEW d \in Clients, c < d
  PROVE  /\ NumPortfolios * (c - 1) \in Nat
         /\ NumPortfolios * (d - 1) \in Nat
         /\ NumPortfolios * (c - 1) + NumPortfolios <= NumPortfolios * (d - 1)
         /\ NumPortfolios * (d - 1) + NumPortfolios
               <= NumClients * NumPortfolios
<1>1. NumPortfolios \in Nat
  BY NumPortfoliosIsNat
<1>2. c \in Nat /\ d \in Nat /\ 1 <= c /\ d <= NumClients /\ NumClients \in Nat
  BY CacheAssumption DEF Clients
<1> DEFINE p == NumPortfolios
<1> HIDE DEF p
<1>3. p \in Nat
  BY <1>1 DEF p
<1>4. p * (c - 1) \in Nat /\ p * (d - 1) \in Nat
  BY <1>2, <1>3, Multiples
<1>5. p * (c - 1) + p <= p * (d - 1)
  <2>1. p * (d - c) >= p
    BY <1>2, <1>3, Multiples
  <2>2. p * (d - 1) = p * (c - 1) + p * (d - c)
    BY <1>2, <1>3
  <2>3. QED
    BY <2>1, <2>2, <1>2, <1>3, <1>4
<1>6. p * (d - 1) + p <= NumClients * p
  <2>1. p * (NumClients - d) \in Nat
    BY <1>2, <1>3, Multiples
  <2>2. NumClients * p = p * (d - 1) + p + p * (NumClients - d)
    BY <1>2, <1>3
  <2>3. QED
    BY <2>1, <2>2, <1>2, <1>3, <1>4
<1>7. QED
  BY <1>4, <1>5, <1>6 DEF p

(* When there are enough users, those of different threads differ: this is *)
(* all createPortfolios does to keep the threads out of the way of each    *)
(* other.                                                                  *)
THEOREM UsersAreDisjoint ==
  ASSUME NumClients * NumPortfolios <= NumUsers,
         NEW c \in Clients, NEW d \in Clients, c # d,
         NEW i \in Portfolios, NEW j \in Portfolios
  PROVE  UserOf(c, i) # UserOf(d, j)
<1>1. SUFFICES ASSUME NEW a \in Clients, NEW b \in Clients, a < b,
                      NEW k \in Portfolios, NEW l \in Portfolios
               PROVE  UserOf(a, k) # UserOf(b, l)
  <2>1. c < d \/ d < c
    BY CacheAssumption DEF Clients
  <2>2. QED
    BY <1>1, <2>1
<1> DEFINE m == NumPortfolios * (a - 1)
           n == NumPortfolios * (b - 1)
<1>2. /\ m \in Nat /\ n \in Nat
      /\ m + NumPortfolios <= n
      /\ n + NumPortfolios <= NumUsers
  <2>1. NumClients * NumPortfolios \in Nat
    BY NumPortfoliosIsNat, CacheAssumption, Multiples
  <2>2. QED
    BY <2>1, Placed, <1>1, NumPortfoliosIsNat, CacheAssumption
<1>3. UserOf(a, k) = (k + m) % NumUsers /\ UserOf(b, l) = (l + n) % NumUsers
  BY DEF UserOf
<1> HIDE DEF m, n
<1>4. /\ k \in Nat /\ k < NumPortfolios
      /\ l \in Nat /\ l < NumPortfolios
      /\ NumUsers \in Nat \ {0} /\ NumPortfolios \in Nat
  BY NumPortfoliosIsNat, CacheAssumption DEF Portfolios
<1>5. (k + m) % NumUsers = k + m /\ (l + n) % NumUsers = l + n
  <2>1. k + m \in Nat /\ k + m < NumUsers
    BY <1>2, <1>4
  <2>2. l + n \in Nat /\ l + n < NumUsers
    BY <1>2, <1>4
  <2>3. QED
    BY <2>1, <2>2, <1>4, Division
<1>6. QED
  BY <1>2, <1>3, <1>4, <1>5
-----------------------------------------------------------------------------
(* What a thread asks for is made of its own portfolios.                   *)
LEMMA RequestUsers ==
  ASSUME NEW c \in Clients, NEW r \in RequestsOf(c), r.type # "view_stock"
  PROVE  \E i \in Portfolios : r.user = UserOf(c, i)
  BY DEF RequestsOf

(* Where main is tells which threads there are, and that the environment   *)
(* is there as long as all of them can be made.                            *)
MainInv ==
    /\ \A c \in Clients : client[c] # "none" <=> c <= spawned
    /\ cmain = "alloc" => spawned = 0
    /\ cmain \in {"spawn", "wait"} => env = "alive"
    /\ cmain \in {"alloc", "failXit", "clear"} => spawned < NumClients
    /\ cmain = "failXit" => spawned = 0 \/ env = "alive"
    /\ cmain = "gone" => env = "alive" \/ spawned < NumClients

CInv == ClientTypeOK /\ MainInv

(* A step of main.                                                         *)
LEMMA MainStep ==
  ASSUME CInv, ClientMain
  PROVE  CInv'
<1> USE CacheAssumption, ClientLifeAssumption DEF CInv, MainInv, ClientMain
<1>1. CASE AllocEnv
  BY <1>1 DEF AllocEnv, ClientTypeOK, RequestsOf, Clients
<1>2. CASE SpawnClient
  <2>1. spawned + 1 \in Clients /\ spawned' = spawned + 1
    BY <1>2 DEF SpawnClient, ClientTypeOK, Clients
  <2>2. client' = [client EXCEPT ![spawned + 1] = "start"]
    BY <1>2 DEF SpawnClient, ClientAt
  <2>3. ClientTypeOK'
    BY <1>2, <2>1, <2>2
       DEF SpawnClient, ClientTypeOK, RequestsOf, Clients, Holding
  <2>4. \A c \in Clients : client'[c] # "none" <=> c <= spawned'
    BY <2>1, <2>2 DEF ClientTypeOK, Clients
  <2>5. QED
    BY <1>2, <2>1, <2>3, <2>4 DEF SpawnClient, ClientTypeOK
<1>3. CASE SpawnClientFails
  BY <1>3 DEF SpawnClientFails, ClientTypeOK, RequestsOf, Clients
<1>4. CASE AllSpawned
  BY <1>4 DEF AllSpawned, ClientTypeOK, RequestsOf, Clients
<1>5. CASE WaitClients
  BY <1>5 DEF WaitClients, ClientTypeOK, RequestsOf, Clients
<1>6. CASE FreeEnv
  BY <1>6 DEF FreeEnv, ClientTypeOK, RequestsOf, Clients
<1>7. CASE ClearEnv
  BY <1>7 DEF ClearEnv, ClientTypeOK, RequestsOf, Clients
<1>8. QED
  BY <1>1, <1>2, <1>3, <1>4, <1>5, <1>6, <1>7

(* A step of a thread: it is one that main has made, and stays one.        *)
LEMMA ThreadStep ==
  ASSUME CInv, NEW c \in Clients, ClientThread(c)
  PROVE  CInv'
<1>1. /\ client[c] # "none"
      /\ \E l \in Holding \cup {"leave", "gone"} :
            client' = [client EXCEPT ![c] = l]
  BY DEF ClientThread, TakeEnv, MakePortfolios, ConnectClient, CreateRequest,
         SendRequest, ReceiveResponse, NextIteration, LeaveLoop,
         FreeConnection, ClientAt, Holding
<1>2. PICK l \in Holding \cup {"leave", "gone"} :
         client' = [client EXCEPT ![c] = l]
  BY <1>1
<1>3. iterations' \in [Clients -> 0 .. LoadIterations]
  <2>1. iterations \in [Clients -> 0 .. LoadIterations]
    BY DEF CInv, ClientTypeOK
  <2>2. \/ iterations' = iterations
        \/ iterations' = [iterations EXCEPT ![c] = 0]
        \/ iterations' = [iterations EXCEPT
                              ![c] = Smaller(@ + 1, LoadIterations)]
    BY DEF ClientThread, TakeEnv, MakePortfolios, ConnectClient, CreateRequest,
           SendRequest, ReceiveResponse, NextIteration, LeaveLoop,
           FreeConnection
  <2>3. Smaller(iterations[c] + 1, LoadIterations) \in 0 .. LoadIterations
    BY <2>1, ClientLifeAssumption DEF Smaller
  <2>4. QED
    BY <2>1, <2>2, <2>3, ClientLifeAssumption
<1>4. /\ DOMAIN request' = Clients
      /\ \A d \in Clients : request'[d] \in RequestsOf(d) \cup {NoRequest}
  <2>1. /\ DOMAIN request = Clients
        /\ \A d \in Clients : request[d] \in RequestsOf(d) \cup {NoRequest}
    BY DEF CInv, ClientTypeOK
  <2>2. \/ request' = request
        \/ \E r \in RequestsOf(c) \cup {NoRequest} :
              request' = [request EXCEPT ![c] = r]
    BY DEF ClientThread, TakeEnv, MakePortfolios, ConnectClient, CreateRequest,
           SendRequest, ReceiveResponse, NextIteration, LeaveLoop,
           FreeConnection
  <2>3. QED
    BY <2>1, <2>2
<1>5. UNCHANGED <<cmain, spawned, env, clientDie, program>>
  BY DEF ClientThread
<1>6. \A d \in Clients : RequestsOf(d)' = RequestsOf(d)
  BY DEF RequestsOf
<1>7. ClientTypeOK'
  BY <1>2, <1>3, <1>4, <1>5, <1>6 DEF CInv, ClientTypeOK, Holding
<1>8. \A d \in Clients : client'[d] # "none" <=> client[d] # "none"
  BY <1>1, <1>2 DEF CInv, ClientTypeOK, Holding
<1>9. QED
  BY <1>5, <1>7, <1>8 DEF CInv, MainInv

(* The invariant.                                                          *)
LEMMA ClientInvariant == ClientSpec => []CInv
<1>1. ClientInit => CInv
  <2> SUFFICES ASSUME ClientInit PROVE CInv
    OBVIOUS
  <2>1. ClientTypeOK
    <3>1. spawned \in 0 .. NumClients
      BY CacheAssumption DEF ClientInit
    <3>2. iterations \in [Clients -> 0 .. LoadIterations]
      BY ClientLifeAssumption DEF ClientInit
    <3>3. clientDie \in BOOLEAN
      BY DEF ClientInit
    <3>4. QED
      BY <3>1, <3>2, <3>3 DEF ClientInit, ClientTypeOK
  <2>2. MainInv
    BY CacheAssumption DEF ClientInit, MainInv, Clients
  <2>3. QED
    BY <2>1, <2>2 DEF CInv
<1>2. CInv /\ [ClientNext]_clientVars => CInv'
  <2> SUFFICES ASSUME CInv, [ClientNext]_clientVars
               PROVE  CInv'
    OBVIOUS
  <2>1. CASE ClientMain
    BY <2>1, MainStep
  <2>2. CASE ClientSigint
    BY <2>2 DEF ClientSigint, CInv, ClientTypeOK, MainInv, RequestsOf
  <2>3. ASSUME NEW c \in Clients, ClientThread(c) PROVE CInv'
    BY <2>3, ThreadStep
  <2>4. CASE UNCHANGED clientVars
    BY <2>4 DEF clientVars, CInv, ClientTypeOK, MainInv, RequestsOf
  <2>5. QED
    BY <2>1, <2>2, <2>3, <2>4 DEF ClientNext
<1>3. QED
  BY <1>1, <1>2, PTL DEF ClientSpec

(* Type correctness of the client.                                         *)
THEOREM ClientTypes == ClientSpec => []ClientTypeOK
<1>1. CInv => ClientTypeOK
  BY DEF CInv
<1>2. QED
  BY <1>1, ClientInvariant, PTL

(* chronosEnvFree never runs under a thread that looks into the            *)
(* environment, except when pthread_create has failed before.              *)
THEOREM ClientEnvAlive == ClientSpec => []EnvAlive
<1>1. CInv => EnvAlive
  BY CacheAssumption
     DEF CInv, MainInv, ClientTypeOK, EnvAlive, Reading, Clients
<1>2. QED
  BY <1>1, ClientInvariant, PTL

(* With enough users, the server never gets two requests at a time that    *)
(* trade for the same one.                                                 *)
THEOREM ClientOwnAccounts == ClientSpec => []OwnAccounts
<1>1. CInv => OwnAccounts
  <2> SUFFICES ASSUME CInv, NumClients * NumPortfolios <= NumUsers,
                      NEW c \in Clients, NEW d \in Clients, c # d,
                      Trading(c), Trading(d)
               PROVE  request[c].user # request[d].user
    BY DEF OwnAccounts
  <2>1. request[c] \in RequestsOf(c) /\ request[d] \in RequestsOf(d)
    BY DEF CInv, ClientTypeOK, Trading
  <2>2. PICK i \in Portfolios : request[c].user = UserOf(c, i)
    BY <2>1, RequestUsers DEF Trading
  <2>3. PICK j \in Portfolios : request[d].user = UserOf(d, j)
    BY <2>1, RequestUsers DEF Trading
  <2>4. QED
    BY <2>2, <2>3, UsersAreDisjoint
<1>2. QED
  BY <1>1, ClientInvariant, PTL
-----------------------------------------------------------------------------
(* A step of the two programs is one of the server, with the client where  *)
(* it was, or the other way round.                                         *)
THEOREM ServerPart == Spec => ServerSpec
<1>1. Init => ServerInit
  BY DEF Init
<1>2. [Next]_vars => [ServerNext]_serverVars
  <2> SUFFICES ASSUME [Next]_vars PROVE [ServerNext]_serverVars
    OBVIOUS
  <2>1. CASE subject = "server" /\ ServerNext
    BY <2>1
  <2>2. CASE UNCHANGED serverVars
    BY <2>2
  <2>3. CASE UNCHANGED vars
    BY <2>3 DEF vars
  <2>4. QED
    BY <2>1, <2>2, <2>3 DEF Next
<1>3. QED
  BY <1>1, <1>2, PTL DEF Spec, ServerSpec

(* The same for the client.                                                *)
THEOREM ClientPart == Spec => ClientSpec
<1>1. Init => ClientInit
  BY DEF Init
<1>2. [Next]_vars => [ClientNext]_clientVars
  <2> SUFFICES ASSUME [Next]_vars PROVE [ClientNext]_clientVars
    OBVIOUS
  <2>1. CASE subject = "client" /\ ClientNext
    BY <2>1
  <2>2. CASE UNCHANGED clientVars
    BY <2>2
  <2>3. CASE UNCHANGED vars
    BY <2>3 DEF vars
  <2>4. QED
    BY <2>1, <2>2, <2>3 DEF Next
<1>3. QED
  BY <1>1, <1>2, PTL DEF Spec, ClientSpec

(* Type correctness of the programs.                                       *)
THEOREM ProgramsTypes == Spec => []TypeOK
<1>1. ServerTypeOK /\ ClientTypeOK => TypeOK
  BY DEF TypeOK
<1>2. QED
  BY <1>1, ServerPart, ClientPart, ServerTypes, ClientTypes, PTL

(* What the tables, dataItemsArray and the handle of a server go through,  *)
(* and the environment and the requests of a client, when either program   *)
(* is followed: every safety property of the two, of their composition.    *)
THEOREM ProgramsSafe ==
  Spec => /\ [](LoadIsWhole /\ ReleasedLast /\ SlicesFit /\ CountedItem)
          /\ OneLoader
          /\ [](EnvAlive /\ OwnAccounts)
<1>1. Spec => [](LoadIsWhole /\ ReleasedLast /\ SlicesFit /\ CountedItem)
  BY ServerPart, LoadWhole, ReleasedInOrder, UpdatesWithinItems,
     ItemsForSymbols, PTL
<1>2. Spec => OneLoader
  BY ServerPart, LoadedByOne, PTL
<1>3. Spec => [](EnvAlive /\ OwnAccounts)
  BY ClientPart, ClientEnvAlive, ClientOwnAccounts, PTL
<1>4. QED
  BY <1>1, <1>2, <1>3, PTL
=============================================================================
