-------------------------- MODULE QueueServerProofs --------------------------
(***************************************************************************)
(* Safety of the queue server for every number of clients, processing      *)
(* threads and requests, every size of the queues and every way to start   *)
(* it: all the invariants of QueueServer that hold.                        *)
(***************************************************************************)
EXTENDS QueueServer, FiniteSetTheorems, TLAPS

(***************************************************************************)
(* The inductive invariant.                                                *)
(***************************************************************************)

(* The types, kind of thread by kind of thread.  The bounds that TypeOK    *)
(* puts on counters are not a matter of types: they follow from Population *)
(* and Requests below.                                                     *)
ClientTypes ==
    /\ client \in [Clients -> {"start", "ready", "waiting", "closed"}]
    /\ left \in [Clients -> Nat]
    /\ conn \in [Clients -> {"none", "open", "fin", "reset"}]
    /\ request \in [Clients -> BOOLEAN] /\ reply \in [Clients -> BOOLEAN]
HandlerTypes ==
    /\ handler \in [Clients -> HandlerLabels]
    /\ taken \in [Clients -> Nat]
    /\ txnDone \in [Clients -> BOOLEAN]
    /\ txnRc \in [Clients -> Codes] /\ answer \in [Clients -> Codes]
    /\ numClients \in Int
ListenerTypes ==
    /\ timeToDie \in BOOLEAN
    /\ listener \in {"poll", "accept", "count", "run", "exit"}
    /\ doneCreating \in BOOLEAN /\ sampler \in {"none", "off", "on"}
    /\ main \in {"listener", "updater", "procs", "exit"}
QueueTypes ==
    /\ userQueue \in Seq(Clients) /\ Len(userQueue) <= Size
    /\ sysQueue \in 0 .. Size
    /\ updater \in {"pass", "full", "exit"} /\ item \in 1 .. NumItems + 1
    /\ updater = "full" => item <= NumItems
ProcTypes ==
    /\ proc \in [Procs -> ProcLabels]
    /\ job \in [Procs -> Clients \cup {NoJob}]
    /\ outcome \in [Procs -> Codes]
    /\ loaded \in [Procs -> Nat \cup {-1}]
    /\ numTxnToWait \in Nat \cup {-1}
    /\ ran \in [Clients -> Nat] /\ truth \in [Clients -> Codes]
    /\ \A p \in Procs : proc[p] \in {"run", "notify", "setRc"} =>
                           job[p] \in Clients
Types == ClientTypes /\ HandlerTypes /\ ListenerTypes /\ QueueTypes
         /\ ProcTypes

(* The handlers that have been made and have not left.                     *)
Alive == {c \in Clients : handler[c] \notin {"none", "gone"}}

(* currentNumClients counts them, but for the one just made.               *)
Population ==
    numClients = Cardinality(Alive) - (IF listener = "count" THEN 1 ELSE 0)

(* The listener notices when the last client of the experiment has come,   *)
(* and until a handler has brought the count down to zero it is positive   *)
(* from the moment the first handler has passed the barrier.               *)
Started(c) == handler[c] \notin {"none", "barrier", "asleep"}
Complete == numClients >= NumClients => doneCreating
Together == \A c \in Clients : Started(c) => doneCreating \/ timeToDie
Inhabited == \A c \in Clients : Started(c) => timeToDie \/ numClients >= 1

(* A client does not send more requests than it has, and a handler reads a *)
(* request once.                                                           *)
Requests == \A c \in Clients :
    taken[c] + left[c] + (IF request[c] THEN 1 ELSE 0) <= MaxRequests

(* The request of a client is in one place of the queue or in the hands of *)
(* one thread, and while it is its handler is in the loop on txn_done.     *)
Busy(p, c) == job[p] = c /\ proc[p] \in {"run", "notify"}
QueuedOnce == \A i, j \in DOMAIN userQueue :
    userQueue[i] = userQueue[j] => i = j
BusyOnce == \A p \in Procs, c \in Clients : Busy(p, c) =>
    /\ \A q \in Procs : Busy(q, c) => q = p
    /\ \A i \in DOMAIN userQueue : userQueue[i] # c
Awaited == \A c \in Clients :
    \/ \E i \in DOMAIN userQueue : userQueue[i] = c
    \/ \E p \in Procs : Busy(p, c)
    => handler[c] = "await" /\ ~txnDone[c]

(* Where a handler stands tells whether the last request it has read ran.  *)
HasRun(c) == txnDone[c] \/ \E p \in Procs : job[p] = c /\ proc[p] = "notify"
RunCount(c) ==
    CASE handler[c] \in {"none", "barrier", "asleep", "read", "fetch",
                         "reply"} -> ran[c] = taken[c]
      [] handler[c] \in {"admit", "dispatch"} -> ran[c] + 1 = taken[c]
      [] handler[c] = "full" -> ran[c] + 1 = taken[c] /\ ~txnDone[c]
      [] handler[c] = "await" ->
            IF HasRun(c) THEN ran[c] = taken[c] ELSE ran[c] + 1 = taken[c]
      [] OTHER -> ran[c] <= taken[c]
RunCounts == \A c \in Clients : RunCount(c)

(* Some thread runs and will find what it has seen in a queue: the one     *)
(* that took the last transaction, or any one as long as none was taken.   *)
SurelyRuns(p) == /\ proc[p] \notin {"none", "sysWait", "userWait"}
                 /\ (proc[p] = "sysDequeue" => sysQueue > 0)
                 /\ (proc[p] = "userDequeue" => userQueue # << >>)
Provident == \E p \in Procs : SurelyRuns(p)

OneRequest == QueuedOnce /\ BusyOnce /\ Awaited /\ RunCounts
Starting == Population /\ Complete /\ Together /\ Inhabited
IInv == Types /\ Starting /\ Requests /\ OneRequest /\ Provident

USE DEF clientVars, handlerVars, listenerVars, queueVars, procVars,
        updaterVars, socket, cells, HandlerAt, ProcAt,
        NoClientStep, NoListenerStep, NoHandlerStep, NoProcStep,
        NoUpdaterStep, ProcKeeps

(***************************************************************************)
(* Types.                                                                  *)
(***************************************************************************)

LEMMA InitTypes == Init => Types
<1> SUFFICES ASSUME Init PROVE Types
  OBVIOUS
<1>1. PICK start \in Starts :
        /\ left = [c \in Clients |-> start.requests]
        /\ sampler = IF "sampling" \in start.options THEN "off" ELSE "none"
        /\ updater = IF "updates" \in start.options THEN "pass" ELSE "exit"
        /\ proc = [p \in Procs |-> IF p \in start.threads THEN "loop"
                                                        ELSE "none"]
  BY DEF Init
<1>2. start.requests \in Nat
  BY ServerAssumption
<1>3. ClientTypes
  BY <1>1, <1>2 DEF Init, ClientTypes
<1>4. HandlerTypes
  BY ServerAssumption DEF Init, HandlerTypes, HandlerLabels
<1>5. ListenerTypes
  BY <1>1 DEF Init, ListenerTypes
<1>6. QueueTypes
  BY <1>1, ServerAssumption DEF Init, QueueTypes
<1>7. ProcTypes
  BY <1>1, ServerAssumption DEF Init, ProcTypes, ProcLabels
<1>8. QED
  BY <1>3, <1>4, <1>5, <1>6, <1>7 DEF Types

LEMMA ClientTypesStep ==
  ASSUME Types, Step
  PROVE  ClientTypes'
<1> USE DEF Types, ClientTypes
<1>1. ASSUME NEW c \in Clients, ClientStep(c) PROVE ClientTypes'
  <2>1. CASE ClientConnect(c)
    BY <1>1, <2>1 DEF ClientConnect
  <2>2. CASE ClientSend(c)
    BY <1>1, <2>2 DEF ClientSend
  <2>3. CASE ClientReceive(c)
    BY <1>1, <2>3 DEF ClientReceive
  <2>4. CASE ClientClose(c)
    BY <1>1, <2>4 DEF ClientClose
  <2>5. QED
    BY <1>1, <2>1, <2>2, <2>3, <2>4 DEF ClientStep
<1>2. ASSUME NEW c \in Clients, HandlerStep(c) PROVE ClientTypes'
  <2>1. CASE ReadRequest(c)
    BY <1>2, <2>1 DEF ReadRequest, HandlerStep, HandlerAdvance
  <2>2. CASE Reply(c)
    BY <1>2, <2>2 DEF Reply, HandlerStep, HandlerAdvance
  <2>3. CASE ~ (ReadRequest(c) \/ Reply(c))
    BY <1>2, <2>3 DEF HandlerStep, HandlerAdvance, Barrier, WakeSpuriously,
          ReadFails, Admit, Dispatch, DispatchAfterWait, Await, FetchRc,
          Cleanup
  <2>4. QED
    BY <2>1, <2>2, <2>3
<1>3. ASSUME NEW p \in Procs, ProcStep(p) PROVE ClientTypes'
  BY <1>3 DEF ProcStep
<1>4. CASE ListenerStep
  BY <1>4 DEF ListenerStep, ListenerAdvance
<1>5. CASE UpdaterStep \/ Sample \/ Sigint \/ Join
  BY <1>5 DEF UpdaterStep, Sample, Sigint, Join
<1>6. QED
  BY <1>1, <1>2, <1>3, <1>4, <1>5 DEF Step

LEMMA HandlerTypesStep ==
  ASSUME Types, Step
  PROVE  HandlerTypes'
<1> USE DEF Types, HandlerTypes, HandlerLabels
<1>1. ASSUME NEW c \in Clients, ClientStep(c) PROVE HandlerTypes'
  BY <1>1 DEF ClientStep
<1>2. ASSUME NEW c \in Clients, HandlerStep(c) PROVE HandlerTypes'
  <2>1. CASE Barrier(c)
    BY <1>2, <2>1 DEF Barrier, HandlerStep, HandlerAdvance
  <2>2. CASE ReadRequest(c) \/ ReadFails(c) \/ Await(c) \/ Reply(c)
    BY <1>2, <2>2 DEF ReadRequest, ReadFails, Await, Reply
  <2>3. CASE Admit(c) \/ DispatchAfterWait(c) \/ WakeSpuriously(c)
    BY <1>2, <2>3 DEF Admit, DispatchAfterWait, WakeSpuriously
  <2>4. CASE Dispatch(c)
    BY <2>4, ServerAssumption DEF Dispatch
  <2>5. CASE FetchRc(c)
    BY <2>5 DEF FetchRc
  <2>6. CASE Cleanup(c)
    BY <2>6 DEF Cleanup
  <2>7. QED
    BY <1>2, <2>1, <2>2, <2>3, <2>4, <2>5, <2>6
       DEF HandlerStep, HandlerAdvance
<1>3. ASSUME NEW p \in Procs, ProcStep(p) PROVE HandlerTypes'
  <2>1. CASE Notify(p)
    BY <1>3, <2>1 DEF Notify, ProcStep, ProcTypes
  <2>2. CASE SetRc(p)
    BY <1>3, <2>2 DEF SetRc, ProcStep, ProcTypes
  <2>3. CASE ~ (Notify(p) \/ SetRc(p))
    BY <1>3, <2>3 DEF ProcStep, ProcLoop, SysTest, SysDequeue, Refresh,
          UserTest, UserDequeue, Run, Control, Load, Store
  <2>4. QED
    BY <2>1, <2>2, <2>3
<1>4. CASE ListenerStep
  BY <1>4 DEF ListenerStep, ListenerAdvance, Poll, CreateHandler,
        CountHandler, Broadcast, AcceptNoMore, StartExperiment, ListenerExit,
        ExperimentFinish, ListenerFails
<1>5. CASE UpdaterStep \/ Sample \/ Sigint \/ Join
  BY <1>5 DEF UpdaterStep, Sample, Sigint, Join
<1>6. QED
  BY <1>1, <1>2, <1>3, <1>4, <1>5 DEF Step

LEMMA ListenerTypesStep ==
  ASSUME Types, Step
  PROVE  ListenerTypes'
<1> USE DEF Types, ListenerTypes
<1>1. ASSUME NEW c \in Clients, ClientStep(c) PROVE ListenerTypes'
  BY <1>1 DEF ClientStep
<1>2. ASSUME NEW c \in Clients, HandlerStep(c) PROVE ListenerTypes'
  BY <1>2 DEF HandlerStep, HandlerAdvance, Barrier, WakeSpuriously,
        ReadRequest, ReadFails, Admit, Dispatch, DispatchAfterWait, Await,
        FetchRc, Reply, Cleanup
<1>3. ASSUME NEW p \in Procs, ProcStep(p) PROVE ListenerTypes'
  BY <1>3 DEF ProcStep
<1>4. CASE ListenerStep
  BY <1>4 DEF ListenerStep, ListenerAdvance, Poll, CreateHandler,
        CountHandler, AcceptNoMore, StartExperiment, ListenerExit,
        ExperimentFinish, ListenerFails
<1>5. CASE UpdaterStep \/ Sample \/ Sigint \/ Join
  BY <1>5 DEF UpdaterStep, Sample, Sigint, Join
<1>6. QED
  BY <1>1, <1>2, <1>3, <1>4, <1>5 DEF Step

(* What a call does to the user queue.                                     *)
LEMMA AppendLemma ==
  ASSUME NEW s \in Seq(Clients), NEW c \in Clients, Len(s) < Size
  PROVE  Append(s, c) \in Seq(Clients) /\ Len(Append(s, c)) <= Size
BY ServerAssumption

LEMMA TailLemma ==
  ASSUME NEW s \in Seq(Clients), s # << >>
  PROVE  /\ Tail(s) \in Seq(Clients) /\ Len(Tail(s)) = Len(s) - 1
         /\ Head(s) \in Clients /\ Len(s) \in Nat /\ Len(s) >= 1
OBVIOUS

LEMMA QueueTypesStep ==
  ASSUME Types, Step
  PROVE  QueueTypes'
<1> USE ServerAssumption DEF Types, QueueTypes
<1>1. ASSUME NEW c \in Clients, ClientStep(c) PROVE QueueTypes'
  BY <1>1 DEF ClientStep
<1>2. ASSUME NEW c \in Clients, HandlerStep(c) PROVE QueueTypes'
  <2>1. CASE Dispatch(c)
    <3>1. UNCHANGED <<sysQueue, updaterVars>>
      BY <1>2, <2>1 DEF Dispatch, HandlerStep, HandlerAdvance, WakeSpuriously
    <3>2. userQueue' \in Seq(Clients) /\ Len(userQueue') <= Size
      BY <2>1, AppendLemma DEF Dispatch
    <3>3. QED
      BY <3>1, <3>2
  <2>2. CASE DispatchAfterWait(c)
    <3>1. UNCHANGED <<sysQueue, updaterVars>>
      BY <1>2, <2>2 DEF DispatchAfterWait, HandlerStep, HandlerAdvance,
                        WakeSpuriously
    <3>2. userQueue' \in Seq(Clients) /\ Len(userQueue') <= Size
      BY <2>2, AppendLemma DEF DispatchAfterWait
    <3>3. QED
      BY <3>1, <3>2
  <2>3. CASE ~ (Dispatch(c) \/ DispatchAfterWait(c))
    BY <1>2, <2>3 DEF HandlerStep, HandlerAdvance, Barrier, WakeSpuriously,
          ReadRequest, ReadFails, Admit, Await, FetchRc, Reply, Cleanup
  <2>4. QED
    BY <2>1, <2>2, <2>3
<1>3. ASSUME NEW p \in Procs, ProcStep(p) PROVE QueueTypes'
  <2>1. CASE SysDequeue(p)
    BY <1>3, <2>1 DEF SysDequeue, ProcStep
  <2>2. CASE UserDequeue(p)
    BY <1>3, <2>2 DEF UserDequeue, ProcStep
  <2>3. CASE ~ (SysDequeue(p) \/ UserDequeue(p))
    BY <1>3, <2>3 DEF ProcStep, ProcLoop, SysTest, Refresh, UserTest, Run,
          Notify, SetRc, Control, Load, Store
  <2>4. QED
    BY <2>1, <2>2, <2>3
<1>4. CASE ListenerStep
  BY <1>4 DEF ListenerStep, ListenerAdvance
<1>5. CASE UpdaterStep
  <2>1. UNCHANGED userQueue /\ sysQueue \in Int /\ Size \in Int /\ item \in Int
    BY <1>5 DEF UpdaterStep
  <2>2. CASE UpdateItem
    BY <2>1, <2>2 DEF UpdateItem
  <2>3. CASE UpdateAfterWait
    BY <2>1, <2>3 DEF UpdateAfterWait
  <2>4. CASE UpdatePassEnds
    BY <2>1, <2>4 DEF UpdatePassEnds
  <2>5. QED
    BY <1>5, <2>2, <2>3, <2>4 DEF UpdaterStep
<1>6. CASE Sample \/ Sigint \/ Join
  BY <1>6 DEF Sample, Sigint, Join
<1>7. QED
  BY <1>1, <1>2, <1>3, <1>4, <1>5, <1>6 DEF Step

LEMMA ProcTypesStep ==
  ASSUME Types, Step
  PROVE  ProcTypes'
<1> USE ServerAssumption DEF Types, ProcTypes, ProcLabels
<1>1. ASSUME NEW c \in Clients, ClientStep(c) PROVE ProcTypes'
  BY <1>1 DEF ClientStep
<1>2. ASSUME NEW c \in Clients, HandlerStep(c) PROVE ProcTypes'
  BY <1>2 DEF HandlerStep, HandlerAdvance
<1>3. ASSUME NEW p \in Procs, ProcStep(p) PROVE ProcTypes'
  <2>1. CASE ProcLoop(p) \/ SysTest(p) \/ Refresh(p) \/ UserTest(p)
    BY <1>3, <2>1 DEF ProcLoop, SysTest, Refresh, UserTest
  <2>2. CASE SysDequeue(p)
    BY <1>3, <2>2 DEF SysDequeue
  <2>3. CASE UserDequeue(p)
    <3>1. userQueue # << >> => Head(userQueue) \in Clients
      BY TailLemma DEF QueueTypes
    <3>2. QED
      BY <1>3, <2>3, <3>1 DEF UserDequeue
  <2>4. CASE Run(p)
    BY <1>3, <2>4 DEF Run
  <2>5. CASE Notify(p) \/ SetRc(p)
    BY <1>3, <2>5 DEF Notify, SetRc
  <2>6. CASE Control(p)
    BY <1>3, <2>6 DEF Control, Return
  <2>7. CASE Load(p)
    BY <1>3, <2>7 DEF Load
  <2>8. CASE Store(p)
    BY <1>3, <2>8 DEF Store, Return
  <2>9. QED
    BY <1>3, <2>1, <2>2, <2>3, <2>4, <2>5, <2>6, <2>7, <2>8 DEF ProcStep
<1>4. CASE ListenerStep
  BY <1>4 DEF ListenerStep, ListenerAdvance
<1>5. CASE UpdaterStep \/ Sigint \/ Join
  BY <1>5 DEF UpdaterStep, Sigint, Join
<1>6. CASE Sample
  BY <1>6 DEF Sample, QueueTypes
<1>7. QED
  BY <1>1, <1>2, <1>3, <1>4, <1>5, <1>6 DEF Step

LEMMA TypesStep ==
  ASSUME Types, [Next]_vars
  PROVE  Types'
<1>1. CASE Step
  BY <1>1, ClientTypesStep, HandlerTypesStep, ListenerTypesStep,
     QueueTypesStep, ProcTypesStep DEF Types
<1>2. CASE UNCHANGED vars
  BY <1>2 DEF vars, Types, ClientTypes, HandlerTypes, ListenerTypes,
              QueueTypes, ProcTypes
<1>3. QED
  BY <1>1, <1>2 DEF Next

(***************************************************************************)
(* Start and end of the experiment: who is counted.                        *)
(***************************************************************************)

(* The steps of the other threads do not move handlers or the listener.    *)
LEMMA OthersKeepCount ==
  ASSUME \/ \E c \in Clients : ClientStep(c)
         \/ \E p \in Procs : ProcStep(p)
         \/ UpdaterStep \/ Sample \/ Join
  PROVE  UNCHANGED <<handler, numClients, listener, doneCreating, timeToDie>>
BY DEF ClientStep, ProcStep, UpdaterStep, Sample, Join

(* How a step of a handler moves it: never back to before its creation,    *)
(* past the barrier only with everybody there, and out only by cleaning    *)
(* up.                                                                     *)
LEMMA HandlerMoves ==
  ASSUME Types, NEW c \in Clients, HandlerStep(c)
  PROVE  /\ UNCHANGED <<listener, doneCreating>>
         /\ ~ Cleanup(c) => UNCHANGED <<numClients, timeToDie>>
         /\ handler[c] \notin {"none", "gone"}
         /\ handler'[c] # "none"
         /\ handler'[c] = "gone" <=> Cleanup(c)
         /\ \A d \in Clients : d # c =>
               \/ handler'[d] = handler[d]
               \/ handler[d] = "asleep" /\ handler'[d] = "barrier"
         /\ ~ Started(c) /\ Started(c)' => numClients >= NumClients \/ timeToDie
<1> USE DEF Types, HandlerTypes, HandlerLabels, Started
<1>1. UNCHANGED <<listener, doneCreating>>
  BY DEF HandlerStep, HandlerAdvance
<1>2. CASE Barrier(c)
  BY <1>1, <1>2 DEF Barrier, Cleanup
<1>3. CASE WakeSpuriously(c) \/ ReadRequest(c) \/ ReadFails(c) \/ Admit(c)
  BY <1>1, <1>3 DEF WakeSpuriously, ReadRequest, ReadFails, Admit, Cleanup
<1>4. CASE Dispatch(c) \/ DispatchAfterWait(c) \/ Await(c) \/ FetchRc(c)
  BY <1>1, <1>4 DEF Dispatch, DispatchAfterWait, Await, FetchRc, Cleanup
<1>5. CASE Reply(c) \/ Cleanup(c)
  BY <1>1, <1>5 DEF Reply, Cleanup
<1>6. QED
  BY <1>2, <1>3, <1>4, <1>5 DEF HandlerStep, HandlerAdvance

LEMMA AliveFinite ==
  /\ IsFiniteSet(Alive) /\ Cardinality(Alive) \in 0 .. Cardinality(Clients)
  /\ Cardinality(Clients) \in Nat
BY ServerAssumption, FS_CardinalityType, FS_Subset DEF Alive

LEMMA InitStarting == Init => Starting
<1> SUFFICES ASSUME Init PROVE Starting
  OBVIOUS
<1> USE DEF Init
<1>1. Alive = {}
  BY DEF Alive
<1>2. Population
  BY <1>1, FS_EmptySet DEF Population
<1>3. Complete
  <2>1. Cardinality(Clients) \in Nat
    BY AliveFinite
  <2>2. NumClients \in Nat /\ NumClients >= 1
    BY <2>1, ServerAssumption
  <2>3. QED
    BY <2>2 DEF Complete
<1>4. Together /\ Inhabited
  BY DEF Together, Inhabited, Started
<1>5. QED
  BY <1>2, <1>3, <1>4 DEF Starting

LEMMA PopulationStep ==
  ASSUME Types, Population, Step
  PROVE  Population'
<1> USE DEF Types, Population, HandlerTypes, ListenerTypes
<1>0. Cardinality(Alive) \in Int /\ IsFiniteSet(Alive)
  BY AliveFinite
<1>1. ASSUME NEW c \in Clients, HandlerStep(c), ~ Cleanup(c)
      PROVE  Population'
  <2>1. Alive' = Alive
    BY <1>1, HandlerMoves DEF Alive
  <2>2. QED
    BY <1>1, <2>1, HandlerMoves
<1>2. ASSUME NEW c \in Clients, HandlerStep(c), Cleanup(c)
      PROVE  Population'
  <2>1. Alive' = Alive \ {c} /\ c \in Alive
    BY <1>2, HandlerMoves DEF Alive
  <2>2. Cardinality(Alive') = Cardinality(Alive) - 1
    BY <1>0, <2>1, FS_RemoveElement
  <2>3. numClients' = numClients - 1 /\ listener' = listener
    BY <1>2, HandlerMoves DEF Cleanup
  <2>4. QED
    BY <1>0, <2>2, <2>3
<1>3. CASE ListenerStep
  <2>1. CASE CreateHandler
    <3>1. PICK c \in Clients : Pending(c) /\ HandlerAt(c, "barrier")
      BY <2>1 DEF CreateHandler
    <3>2. Alive' = Alive \cup {c} /\ c \notin Alive
      BY <3>1 DEF Alive, Pending
    <3>3. Cardinality(Alive') = Cardinality(Alive) + 1
      BY <1>0, <3>2, FS_AddElement
    <3>4. listener = "accept" /\ listener' = "count" /\ numClients' = numClients
      BY <2>1 DEF CreateHandler
    <3>5. QED
      BY <1>0, <3>3, <3>4
  <2>2. CASE CountHandler
    <3>1. Alive' = Alive
      BY <2>2 DEF CountHandler, Broadcast, Alive
    <3>2. QED
      BY <1>0, <2>2, <3>1 DEF CountHandler
  <2>3. CASE ~ (CreateHandler \/ CountHandler)
    <3>1. UNCHANGED <<handler, numClients>> /\ listener # "count"
          /\ listener' # "count"
      BY <1>3, <2>3 DEF ListenerStep, ListenerAdvance, Poll, AcceptNoMore,
            StartExperiment, ListenerExit, ExperimentFinish,
            ListenerFails
    <3>2. Alive' = Alive
      BY <3>1 DEF Alive
    <3>3. QED
      BY <3>1, <3>2
  <2>4. QED
    BY <2>1, <2>2, <2>3
<1>4. ASSUME UNCHANGED <<handler, numClients, listener>>
      PROVE  Population'
  BY <1>4 DEF Alive
<1>5. CASE Sigint
  BY <1>4, <1>5 DEF Sigint
<1>6. QED
  BY <1>1, <1>2, <1>3, <1>4, <1>5, OthersKeepCount DEF Step

(* The count reaches NumClients in a step of the listener, which notices.  *)
LEMMA BarrierStep ==
  ASSUME Types, Complete, Together, Inhabited, Step
  PROVE  Complete' /\ Together' /\ Inhabited'
<1> DEFINE Inv == Complete /\ Together /\ Inhabited
<1> USE DEF Complete, Together, Inhabited
<1>0. /\ NumClients \in Nat /\ NumClients >= 1 /\ numClients \in Int
      /\ timeToDie \in BOOLEAN /\ doneCreating \in BOOLEAN
  BY AliveFinite, ServerAssumption DEF Types, HandlerTypes, ListenerTypes
<1>1. ASSUME NEW c \in Clients, HandlerStep(c) PROVE Inv'
  <2>1. \A d \in Clients : d # c /\ Started(d)' => Started(d)
    BY <1>1, HandlerMoves DEF Started
  <2>2. CASE ~ Cleanup(c)
    <3>1. UNCHANGED <<numClients, timeToDie, doneCreating>>
      BY <1>1, <2>2, HandlerMoves
    <3>2. Started(c)' => Started(c) \/ numClients >= NumClients \/ timeToDie
      BY <1>1, HandlerMoves
    <3>3. QED
      BY <1>0, <2>1, <3>1, <3>2
  <2>3. CASE Cleanup(c)
    <3>1. Started(c)
      BY <2>3 DEF Started, Cleanup
    <3>2. /\ numClients' = numClients - 1 /\ doneCreating' = doneCreating
          /\ timeToDie' = (timeToDie \/ numClients' = 0)
      BY <1>1, <2>3, HandlerMoves DEF Cleanup
    <3>3. timeToDie \/ numClients >= 1
      BY <3>1
    <3>4. doneCreating \/ timeToDie
      BY <3>1
    <3>5. Complete'
      BY <1>0, <3>2
    <3>6. Together'
      BY <2>1, <3>2, <3>4
    <3>7. timeToDie' \/ numClients' >= 1
      <4>1. timeToDie \/ numClients' = 0 \/ numClients' >= 1
        BY <1>0, <3>2, <3>3
      <4>2. timeToDie \/ numClients' = 0 => timeToDie'
        BY <3>2
      <4>3. QED
        BY <4>1, <4>2
    <3>8. QED
      BY <3>5, <3>6, <3>7
  <2>4. QED
    BY <2>2, <2>3
<1>2. CASE ListenerStep
  <2>1. CASE CreateHandler
    <3>1. PICK c \in Clients : Pending(c) /\ HandlerAt(c, "barrier")
      BY <2>1 DEF CreateHandler
    <3>2. \A d \in Clients : Started(d)' => Started(d)
      BY <3>1 DEF Started, Types, HandlerTypes
    <3>3. UNCHANGED <<numClients, timeToDie, doneCreating>>
      BY <2>1 DEF CreateHandler
    <3>4. QED
      BY <3>2, <3>3
  <2>2. CASE CountHandler
    <3>1. \A d \in Clients : Started(d)' => Started(d)
      BY <2>2 DEF CountHandler, Broadcast, Started
    <3>2. /\ numClients' = numClients + 1 /\ timeToDie' = timeToDie
          /\ doneCreating' = (doneCreating \/ numClients' = NumClients)
      BY <2>2 DEF CountHandler
    <3>3. Complete'
      <4>1. numClients' >= NumClients =>
               numClients >= NumClients \/ numClients' = NumClients
        BY <1>0, <3>2
      <4>2. doneCreating \/ numClients' = NumClients => doneCreating'
        BY <3>2
      <4>3. QED
        BY <4>1, <4>2
    <3>4. Together' /\ Inhabited'
      BY <1>0, <3>1, <3>2
    <3>5. QED
      BY <3>3, <3>4
  <2>3. CASE ~ (CreateHandler \/ CountHandler)
    <3>1. UNCHANGED <<handler, numClients, doneCreating>>
          /\ (timeToDie => timeToDie')
      BY <1>2, <2>3 DEF ListenerStep, ListenerAdvance, Poll, AcceptNoMore,
            StartExperiment, ListenerExit, ExperimentFinish,
            ListenerFails
    <3>2. QED
      BY <3>1 DEF Started
  <2>4. QED
    BY <2>1, <2>2, <2>3
<1>3. ASSUME UNCHANGED <<handler, numClients, doneCreating>>,
             timeToDie => timeToDie'
      PROVE  Inv'
  BY <1>3 DEF Started
<1>4. CASE Sigint
  BY <1>3, <1>4 DEF Sigint
<1>5. QED
  BY <1>1, <1>2, <1>3, <1>4, OthersKeepCount DEF Step

LEMMA StartingStep ==
  ASSUME Types, Starting, [Next]_vars
  PROVE  Starting'
<1>1. CASE Step
  BY <1>1, PopulationStep, BarrierStep DEF Starting
<1>2. CASE UNCHANGED vars
  BY <1>2 DEF vars, Starting, Population, Alive, Complete, Together,
              Inhabited, Started
<1>3. QED
  BY <1>1, <1>2 DEF Next

(***************************************************************************)
(* No client sends too much.                                               *)
(***************************************************************************)

LEMMA InitRequests == Init => Requests
<1> SUFFICES ASSUME Init PROVE Requests
  OBVIOUS
<1>1. PICK start \in Starts : left = [c \in Clients |-> start.requests]
  BY DEF Init
<1>2. start.requests \in 0 .. MaxRequests
  BY ServerAssumption
<1>3. QED
  BY <1>1, <1>2, ServerAssumption DEF Init, Requests

LEMMA RequestsStep ==
  ASSUME Types, Requests, [Next]_vars
  PROVE  Requests'
<1> USE ServerAssumption DEF Types, ClientTypes, HandlerTypes, Requests
<1>1. ASSUME NEW c \in Clients, ClientStep(c) PROVE Requests'
  <2>1. CASE ClientConnect(c) \/ ClientReceive(c) \/ ClientClose(c)
    BY <1>1, <2>1 DEF ClientStep, ClientConnect, ClientReceive, ClientClose
  <2>2. CASE ClientSend(c)
    BY <1>1, <2>2 DEF ClientStep, ClientSend
  <2>3. QED
    BY <1>1, <2>1, <2>2 DEF ClientStep
<1>2. ASSUME NEW c \in Clients, HandlerStep(c) PROVE Requests'
  <2>1. CASE ReadRequest(c)
    BY <1>2, <2>1 DEF HandlerStep, HandlerAdvance, ReadRequest
  <2>2. CASE ~ ReadRequest(c)
    BY <1>2, <2>2 DEF HandlerStep, HandlerAdvance, Barrier, WakeSpuriously,
          ReadFails, Admit, Dispatch, DispatchAfterWait, Await, FetchRc,
          Reply, Cleanup
  <2>3. QED
    BY <2>1, <2>2
<1>3. ASSUME NEW p \in Procs, ProcStep(p) PROVE Requests'
  BY <1>3 DEF ProcStep
<1>4. CASE ListenerStep \/ UpdaterStep
  BY <1>4 DEF ListenerStep, ListenerAdvance, UpdaterStep
<1>5. CASE Sample \/ Sigint \/ Join
  BY <1>5 DEF Sample, Sigint, Join
<1>6. CASE UNCHANGED vars
  BY <1>6 DEF vars
<1>7. QED
  BY <1>1, <1>2, <1>3, <1>4, <1>5, <1>6 DEF Next, Step

(***************************************************************************)
(* One run for each request.                                               *)
(***************************************************************************)

(* The cases of RunCount, without the CASE.                                *)
LEMMA RunCountCases ==
  ASSUME NEW c \in Clients
  PROVE  RunCount(c) <=>
           /\ handler[c] \in {"none", "barrier", "asleep", "read", "fetch",
                              "reply"} => ran[c] = taken[c]
           /\ handler[c] \in {"admit", "dispatch"} => ran[c] + 1 = taken[c]
           /\ handler[c] = "full" => ran[c] + 1 = taken[c] /\ ~txnDone[c]
           /\ handler[c] = "await" /\ HasRun(c) => ran[c] = taken[c]
           /\ handler[c] = "await" /\ ~HasRun(c) => ran[c] + 1 = taken[c]
           /\ handler[c] \notin {"none", "barrier", "asleep", "read", "fetch",
                  "reply", "admit", "dispatch", "full", "await"}
              => ran[c] <= taken[c]
BY DEF RunCount

LEMMA RunCountCasesNext ==
  ASSUME NEW c \in Clients
  PROVE  RunCount(c)' <=>
           /\ handler'[c] \in {"none", "barrier", "asleep", "read", "fetch",
                               "reply"} => ran'[c] = taken'[c]
           /\ handler'[c] \in {"admit", "dispatch"} => ran'[c] + 1 = taken'[c]
           /\ handler'[c] = "full" => ran'[c] + 1 = taken'[c] /\ ~txnDone'[c]
           /\ handler'[c] = "await" /\ HasRun(c)' => ran'[c] = taken'[c]
           /\ handler'[c] = "await" /\ ~HasRun(c)' => ran'[c] + 1 = taken'[c]
           /\ handler'[c] \notin {"none", "barrier", "asleep", "read", "fetch",
                  "reply", "admit", "dispatch", "full", "await"}
              => ran'[c] <= taken'[c]
BY DEF RunCount

LEMMA InitOneRequest == Init => OneRequest
<1> SUFFICES ASSUME Init PROVE OneRequest
  OBVIOUS
<1>1. \A p \in Procs, c \in Clients : ~ Busy(p, c)
  <2>1. PICK start \in Starts :
          proc = [p \in Procs |-> IF p \in start.threads THEN "loop"
                                                         ELSE "none"]
    BY DEF Init
  <2>2. QED
    BY <2>1 DEF Busy
<1>2. DOMAIN userQueue = {}
  BY DEF Init
<1>3. RunCounts
  BY RunCountCases DEF RunCounts, Init
<1>4. QED
  BY <1>1, <1>2, <1>3 DEF OneRequest, QueuedOnce, BusyOnce, Awaited

(* Threads that do not move the request of anybody.                        *)
LEMMA RequestsUnmoved ==
  ASSUME OneRequest, UNCHANGED <<userQueue, handler, txnDone, ran, taken>>,
         \A p \in Procs, c \in Clients : Busy(p, c)' <=> Busy(p, c),
         \A c \in Clients : HasRun(c)' <=> HasRun(c)
  PROVE  OneRequest'
<1>1. QueuedOnce' /\ BusyOnce' /\ Awaited'
  BY DEF OneRequest, QueuedOnce, BusyOnce, Awaited
<1>2. RunCounts'
  BY RunCountCases, RunCountCasesNext DEF OneRequest, RunCounts
<1>3. QED
  BY <1>1, <1>2 DEF OneRequest

(* Handlers that do not enter or leave dispatchTableFn.                    *)
LEMMA HandlersOnlyMove ==
  ASSUME Types, OneRequest, UNCHANGED <<userQueue, procVars>>,
         \A c \in Clients : handler[c] = "await" =>
             handler'[c] = "await" /\ txnDone'[c] = txnDone[c],
         \A c \in Clients : RunCount(c)'
  PROVE  OneRequest'
<1>1. QueuedOnce' /\ BusyOnce'
  BY DEF OneRequest, QueuedOnce, BusyOnce, Busy
<1>2. Awaited'
  BY DEF OneRequest, Awaited, Busy
<1>3. QED
  BY <1>1, <1>2 DEF OneRequest, RunCounts

LEMMA HandlerOneRequest ==
  ASSUME Types, OneRequest, NEW c \in Clients, HandlerStep(c)
  PROVE  OneRequest'
<1> USE DEF Types, HandlerTypes, HandlerLabels
<1>0. UNCHANGED procVars /\ \A d \in Clients : ran[d] \in Int /\ taken[d] \in Int
  BY DEF HandlerStep, HandlerAdvance, ProcTypes
<1>1. \A d \in Clients : RunCount(d)
  BY DEF OneRequest, RunCounts
<1>2. ASSUME UNCHANGED <<userQueue, txnDone>>, handler[c] # "await",
             ASSUME NEW d \in Clients, d # c
             PROVE  /\ taken'[d] = taken[d]
                    /\ \/ handler'[d] = handler[d]
                       \/ handler[d] = "asleep" /\ handler'[d] = "barrier",
             RunCount(c)'
      PROVE  OneRequest'
  <2>1. ASSUME NEW d \in Clients, d # c PROVE RunCount(d)'
    <3>1. HasRun(d)' <=> HasRun(d)
      BY <1>0, <1>2 DEF HasRun
    <3>2. QED
      BY <1>0, <1>1, <1>2, <2>1, <3>1, RunCountCases, RunCountCasesNext
  <2>2. QED
    BY <1>0, <1>2, <2>1, HandlersOnlyMove
<1>3. CASE Barrier(c) \/ WakeSpuriously(c) \/ ReadFails(c) \/ Admit(c)
  <2>1. UNCHANGED <<userQueue, txnDone, taken>> /\ handler[c] # "await"
    BY <1>3 DEF Barrier, WakeSpuriously, ReadFails, Admit
  <2>2. ASSUME NEW d \in Clients, d # c
        PROVE  \/ handler'[d] = handler[d]
               \/ handler[d] = "asleep" /\ handler'[d] = "barrier"
    BY <1>3, <2>2 DEF Barrier, WakeSpuriously, ReadFails, Admit
  <2>3. \/ /\ handler[c] \in {"barrier", "asleep", "read"}
           /\ handler'[c] \in {"barrier", "asleep", "read", "cleanup"}
        \/ handler[c] = "admit" /\ handler'[c] \in {"dispatch", "cleanup"}
    BY <1>3 DEF Barrier, WakeSpuriously, ReadFails, Admit
  <2>4. RunCount(c)'
    BY <1>0, <1>1, <2>1, <2>3, RunCountCases, RunCountCasesNext
  <2>5. QED
    BY <1>2, <2>1, <2>2, <2>4
<1>4. CASE ReadRequest(c)
  <2>1. /\ UNCHANGED <<userQueue, txnDone>>
        /\ handler[c] = "read" /\ handler'[c] = "admit"
        /\ taken'[c] = taken[c] + 1
    BY <1>4 DEF ReadRequest
  <2>2. ASSUME NEW d \in Clients, d # c
        PROVE  handler'[d] = handler[d] /\ taken'[d] = taken[d]
    BY <1>4, <2>2 DEF ReadRequest
  <2>3. RunCount(c)'
    BY <1>0, <1>1, <2>1, RunCountCases, RunCountCasesNext
  <2>4. QED
    BY <1>2, <2>1, <2>2, <2>3
<1>5. CASE FetchRc(c) \/ Reply(c) \/ Cleanup(c)
  <2>1. /\ UNCHANGED <<userQueue, txnDone, taken>>
        /\ handler[c] \in {"fetch", "reply", "cleanup"}
        /\ handler'[c] = "gone" \/
              /\ handler[c] \in {"fetch", "reply"}
              /\ handler'[c] \in {"reply", "read", "cleanup"}
    BY <1>5 DEF FetchRc, Reply, Cleanup
  <2>2. ASSUME NEW d \in Clients, d # c PROVE handler'[d] = handler[d]
    BY <1>5, <2>2 DEF FetchRc, Reply, Cleanup
  <2>3. RunCount(c)'
    BY <1>0, <1>1, <2>1, RunCountCases, RunCountCasesNext
  <2>4. QED
    BY <1>2, <2>1, <2>2, <2>3
<1>6. CASE Await(c)
  <2>1. /\ UNCHANGED <<userQueue, txnDone, taken>>
        /\ handler[c] = "await" /\ handler'[c] = "fetch" /\ txnDone[c]
    BY <1>6 DEF Await
  <2>2. ASSUME NEW d \in Clients, d # c PROVE handler'[d] = handler[d]
    BY <1>6, <2>2 DEF Await
  <2>3. ASSUME NEW d \in Clients PROVE HasRun(d)' <=> HasRun(d)
    BY <1>0, <2>1 DEF HasRun
  <2>4. RunCounts'
    <3>1. RunCount(c)'
      BY <1>0, <1>1, <2>1, RunCountCases, RunCountCasesNext DEF HasRun
    <3>2. ASSUME NEW d \in Clients, d # c PROVE RunCount(d)'
      BY <1>0, <1>1, <2>1, <2>2, <2>3, <3>2, RunCountCases, RunCountCasesNext
    <3>3. QED
      BY <3>1, <3>2 DEF RunCounts
  <2>5. QueuedOnce' /\ BusyOnce'
    BY <1>0, <2>1 DEF OneRequest, QueuedOnce, BusyOnce, Busy
  <2>6. Awaited'
    BY <1>0, <2>1, <2>2 DEF OneRequest, Awaited, Busy
  <2>7. QED
    BY <2>4, <2>5, <2>6 DEF OneRequest
<1>7. CASE Dispatch(c) \/ DispatchAfterWait(c)
  <2>1. /\ handler[c] \in {"dispatch", "full"} /\ UNCHANGED taken
        /\ \/ handler'[c] = "await"
           \/ handler'[c] = "full" /\ userQueue' = userQueue
    BY <1>7 DEF Dispatch, DispatchAfterWait
  <2>2. ~ txnDone'[c]
    <3>1. CASE Dispatch(c)
      BY <3>1 DEF Dispatch
    <3>2. CASE DispatchAfterWait(c)
      BY <1>1, <3>2, RunCountCases DEF DispatchAfterWait
    <3>3. QED
      BY <1>7, <3>1, <3>2
  <2>3. ASSUME NEW d \in Clients, d # c
        PROVE  handler'[d] = handler[d] /\ txnDone'[d] = txnDone[d]
    BY <1>7, <2>3 DEF Dispatch, DispatchAfterWait
  <2>4. /\ \A i \in DOMAIN userQueue : userQueue[i] # c
        /\ \A p \in Procs : ~ Busy(p, c) /\ ~ Busy(p, c)'
    BY <1>0, <2>1 DEF OneRequest, Awaited, Busy
  <2>5. ~ HasRun(c)'
    BY <2>2, <2>4 DEF HasRun, Busy
  <2>6. RunCounts'
    <3>1. RunCount(c)'
      BY <1>0, <1>1, <2>1, <2>2, <2>5, RunCountCases, RunCountCasesNext
    <3>2. ASSUME NEW d \in Clients, d # c PROVE RunCount(d)'
      <4>1. HasRun(d)' <=> HasRun(d)
        BY <1>0, <2>3, <3>2 DEF HasRun
      <4>2. QED
        BY <1>0, <1>1, <2>1, <2>3, <3>2, <4>1, RunCountCases,
           RunCountCasesNext
    <3>3. QED
      BY <3>1, <3>2 DEF RunCounts
  <2>7. CASE userQueue' = userQueue
    <3>1. QueuedOnce' /\ BusyOnce'
      BY <1>0, <2>7 DEF OneRequest, QueuedOnce, BusyOnce, Busy
    <3>2. Awaited'
      BY <1>0, <2>3, <2>4, <2>7 DEF OneRequest, Awaited, Busy
    <3>3. QED
      BY <2>6, <3>1, <3>2 DEF OneRequest
  <2>8. CASE userQueue' = Append(userQueue, c) /\ handler'[c] = "await"
    <3>1. /\ \A i \in DOMAIN userQueue' :
                \/ i \in DOMAIN userQueue /\ userQueue'[i] = userQueue[i]
                \/ i = Len(userQueue) + 1 /\ userQueue'[i] = c
          /\ Len(userQueue) + 1 \notin DOMAIN userQueue
      BY <2>8 DEF QueueTypes
    <3>2. QueuedOnce'
      BY <2>4, <3>1 DEF OneRequest, QueuedOnce
    <3>3. BusyOnce'
      BY <1>0, <2>4, <3>1 DEF OneRequest, BusyOnce, Busy
    <3>4. Awaited'
      BY <1>0, <2>2, <2>3, <2>4, <2>8, <3>1 DEF OneRequest, Awaited, Busy
    <3>5. QED
      BY <2>6, <3>2, <3>3, <3>4 DEF OneRequest
  <2>9. QED
    BY <1>7, <2>1, <2>7, <2>8 DEF Dispatch, DispatchAfterWait
<1>8. QED
  BY <1>3, <1>4, <1>5, <1>6, <1>7 DEF HandlerStep, HandlerAdvance

LEMMA ProcOneRequest ==
  ASSUME Types, OneRequest, NEW p \in Procs, ProcStep(p)
  PROVE  OneRequest'
<1> USE DEF Types, ProcTypes, ProcLabels
<1>0. UNCHANGED <<handler, taken>>
  BY DEF ProcStep
<1>1. ASSUME UNCHANGED <<userQueue, txnDone, ran>>, ~ Busy(p, job[p]),
             proc'[p] \notin {"run", "notify"},
             \A q \in Procs : q # p => proc'[q] = proc[q] /\ job'[q] = job[q]
      PROVE  OneRequest'
  <2>1. \A q \in Procs, c \in Clients : Busy(q, c)' <=> Busy(q, c)
    BY <1>1 DEF Busy
  <2>2. \A c \in Clients : HasRun(c)' <=> HasRun(c)
    BY <1>1 DEF HasRun, Busy
  <2>3. QED
    BY <1>0, <1>1, <2>1, <2>2, RequestsUnmoved
<1>2. CASE ProcLoop(p) \/ SysTest(p) \/ Refresh(p) \/ UserTest(p)
  BY <1>1, <1>2 DEF ProcLoop, SysTest, Refresh, UserTest, Busy
<1>3. CASE SysDequeue(p)
  BY <1>1, <1>3 DEF SysDequeue, Busy
<1>4. CASE SetRc(p) \/ Load(p)
  BY <1>1, <1>4 DEF SetRc, Load, Busy
<1>5. CASE Control(p) \/ Store(p)
  BY <1>1, <1>5 DEF Control, Store, Return, Busy
<1>6. CASE UserDequeue(p)
  <2>1. CASE userQueue' = userQueue
    BY <1>1, <1>6, <2>1 DEF UserDequeue, Busy
  <2>2. CASE userQueue # << >> /\ userQueue' = Tail(userQueue)
    <3>1. PICK c \in Clients : c = Head(userQueue)
      BY <2>2, TailLemma DEF QueueTypes
    <3>2. /\ proc[p] \notin {"run", "notify"} /\ proc'[p] = "run"
          /\ job'[p] = c
          /\ \A q \in Procs : q # p => proc'[q] = proc[q] /\ job'[q] = job[q]
          /\ UNCHANGED <<txnDone, ran>>
      BY <1>6, <2>2, <3>1 DEF UserDequeue
    <3>3. /\ 1 \in DOMAIN userQueue /\ userQueue[1] = c
          /\ \A i \in DOMAIN userQueue' :
                /\ i + 1 \in DOMAIN userQueue /\ i + 1 # 1
                /\ userQueue'[i] = userQueue[i + 1]
                /\ i \in Int
      BY <2>2, <3>1 DEF QueueTypes
    <3>4. \A i \in DOMAIN userQueue' : userQueue'[i] # c
      BY <3>3 DEF OneRequest, QueuedOnce
    <3>5. \A q \in Procs : ~ Busy(q, c)
      BY <3>3 DEF OneRequest, BusyOnce
    <3>6. \A q \in Procs, d \in Clients :
             Busy(q, d)' <=> Busy(q, d) \/ (q = p /\ d = c)
      BY <3>2 DEF Busy
    <3>7. \A d \in Clients : HasRun(d)' <=> HasRun(d)
      BY <3>2 DEF HasRun
    <3>8. QueuedOnce'
      <4> SUFFICES ASSUME NEW i \in DOMAIN userQueue',
                          NEW j \in DOMAIN userQueue',
                          userQueue'[i] = userQueue'[j]
                   PROVE  i = j
        BY DEF QueuedOnce
      <4>1. i + 1 = j + 1
        BY <3>3 DEF OneRequest, QueuedOnce
      <4>2. QED
        BY <3>3, <4>1
    <3>9. BusyOnce'
      BY <3>3, <3>4, <3>5, <3>6 DEF OneRequest, BusyOnce
    <3>10. Awaited'
      BY <1>0, <3>2, <3>3, <3>6 DEF OneRequest, Awaited
    <3>11. RunCounts'
      BY <1>0, <3>2, <3>7, RunCountCases, RunCountCasesNext
         DEF OneRequest, RunCounts
    <3>12. QED
      BY <3>8, <3>9, <3>10, <3>11 DEF OneRequest
  <2>3. QED
    BY <1>6, <2>1, <2>2 DEF UserDequeue
<1>7. CASE Run(p) \/ Notify(p)
  <2>1. PICK c \in Clients : c = job[p]
    BY <1>7 DEF Run, Notify
  <2>2. /\ UNCHANGED <<userQueue, job>>
        /\ \A q \in Procs : q # p => proc'[q] = proc[q]
        /\ proc'[p] \in {"notify", "setRc"}
        /\ \A d \in Clients : d # c => /\ ran'[d] = ran[d]
                                      /\ txnDone'[d] = txnDone[d]
    BY <1>7, <2>1, <1>0 DEF Run, Notify, HandlerTypes
  <2>3. /\ Busy(p, c)
        /\ \A q \in Procs : Busy(q, c) => q = p
        /\ \A i \in DOMAIN userQueue : userQueue[i] # c
        /\ handler[c] = "await" /\ ~txnDone[c]
    BY <1>7, <2>1 DEF Busy, Run, Notify, OneRequest, BusyOnce, Awaited
  <2>4. \A q \in Procs, d \in Clients : Busy(q, d)' => Busy(q, d)
    BY <1>7, <2>2 DEF Busy, Run, Notify
  <2>5. QueuedOnce' /\ BusyOnce'
    BY <2>2, <2>4 DEF OneRequest, QueuedOnce, BusyOnce
  <2>6. ASSUME NEW d \in Clients, d # c PROVE RunCount(d)'
    <3>1. HasRun(d)' <=> HasRun(d)
      BY <2>1, <2>2, <2>6 DEF HasRun
    <3>2. QED
      BY <1>0, <2>2, <2>6, <3>1, RunCountCases, RunCountCasesNext
         DEF OneRequest, RunCounts
  <2>7. ASSUME NEW d \in Clients, d # c,
               \/ \E i \in DOMAIN userQueue' : userQueue'[i] = d
               \/ \E q \in Procs : Busy(q, d)'
        PROVE  handler'[d] = "await" /\ ~txnDone'[d]
    BY <1>0, <2>2, <2>4, <2>7 DEF OneRequest, Awaited
  <2>8. CASE Run(p)
    <3>1. proc[p] = "run" /\ proc'[p] = "notify" /\ txnDone' = txnDone
          /\ ran'[c] = ran[c] + 1
      BY <2>1, <2>8 DEF Run
    <3>2. ~ HasRun(c)
      BY <2>3, <3>1 DEF HasRun, Busy
    <3>3. HasRun(c)'
      BY <2>1, <2>2, <3>1 DEF HasRun
    <3>4. RunCount(c)'
      BY <1>0, <2>3, <3>1, <3>2, <3>3, RunCountCases, RunCountCasesNext
         DEF OneRequest, RunCounts
    <3>5. Awaited'
      BY <1>0, <2>3, <2>7, <3>1 DEF Awaited
    <3>6. QED
      BY <2>5, <2>6, <3>4, <3>5 DEF OneRequest, RunCounts
  <2>9. CASE Notify(p)
    <3>1. proc[p] = "notify" /\ proc'[p] = "setRc" /\ txnDone'[c]
          /\ ran' = ran
      BY <2>1, <2>9 DEF Notify, HandlerTypes
    <3>2. HasRun(c) /\ HasRun(c)'
      BY <2>1, <3>1 DEF HasRun
    <3>3. RunCount(c)'
      BY <1>0, <2>3, <3>1, <3>2, RunCountCases, RunCountCasesNext
         DEF OneRequest, RunCounts
    <3>4. \A q \in Procs : ~ Busy(q, c)'
      BY <2>3, <2>4, <3>1 DEF Busy
    <3>5. Awaited'
      BY <2>2, <2>3, <2>7, <3>4 DEF Awaited
    <3>6. QED
      BY <2>5, <2>6, <3>3, <3>5 DEF OneRequest, RunCounts
  <2>10. QED
    BY <1>7, <2>8, <2>9
<1>8. QED
  BY <1>2, <1>3, <1>4, <1>5, <1>6, <1>7 DEF ProcStep

LEMMA OneRequestStep ==
  ASSUME Types, OneRequest, [Next]_vars
  PROVE  OneRequest'
<1>1. ASSUME NEW c \in Clients, HandlerStep(c) PROVE OneRequest'
  BY <1>1, HandlerOneRequest
<1>2. ASSUME NEW p \in Procs, ProcStep(p) PROVE OneRequest'
  BY <1>2, ProcOneRequest
<1>3. CASE ListenerStep
  <2>1. UNCHANGED <<userQueue, procVars, txnDone, taken>>
    BY <1>3 DEF ListenerStep, ListenerAdvance
  <2>2. ASSUME NEW c \in Clients
        PROVE  \/ handler'[c] = handler[c]
               \/ /\ handler[c] \in {"none", "asleep"}
                  /\ handler'[c] = "barrier"
    <3>1. CASE CreateHandler
      BY <3>1 DEF CreateHandler, Pending, Types, HandlerTypes
    <3>2. CASE CountHandler
      BY <3>2 DEF CountHandler, Broadcast
    <3>3. CASE ~ (CreateHandler \/ CountHandler)
      BY <1>3, <3>3 DEF ListenerStep, ListenerAdvance, Poll, AcceptNoMore,
            StartExperiment, ListenerExit, ExperimentFinish,
            ListenerFails
    <3>4. QED
      BY <3>1, <3>2, <3>3
  <2>3. ASSUME NEW c \in Clients PROVE RunCount(c)'
    <3>1. HasRun(c)' <=> HasRun(c)
      BY <2>1 DEF HasRun
    <3>2. QED
      BY <2>1, <2>2, <3>1, RunCountCases, RunCountCasesNext
         DEF OneRequest, RunCounts
  <2>4. QED
    BY <2>1, <2>2, <2>3, HandlersOnlyMove
<1>4. ASSUME UNCHANGED <<userQueue, handler, txnDone, ran, taken, job, proc>>
      PROVE  OneRequest'
  BY <1>4, RequestsUnmoved DEF Busy, HasRun
<1>5. ASSUME NEW c \in Clients, ClientStep(c) PROVE OneRequest'
  BY <1>4, <1>5 DEF ClientStep
<1>6. CASE UpdaterStep \/ Sample \/ Sigint \/ Join
  BY <1>4, <1>6 DEF UpdaterStep, Sample, Sigint, Join
<1>7. CASE UNCHANGED vars
  BY <1>4, <1>7 DEF vars
<1>8. QED
  BY <1>1, <1>2, <1>3, <1>5, <1>6, <1>7 DEF Next, Step

(***************************************************************************)
(* Not every processing thread is blocked.                                 *)
(***************************************************************************)

LEMMA InitProvident == Init => Provident
<1> SUFFICES ASSUME Init PROVE Provident
  OBVIOUS
<1>1. PICK start \in Starts :
        proc = [p \in Procs |-> IF p \in start.threads THEN "loop" ELSE "none"]
  BY DEF Init
<1>2. PICK p \in Procs : p \in start.threads
  BY ServerAssumption
<1>3. SurelyRuns(p)
  BY <1>1, <1>2 DEF SurelyRuns
<1>4. QED
  BY <1>3 DEF Provident

(* As long as no thread takes anything from a queue, what a thread has     *)
(* seen in it stays there.                                                 *)
LEMMA QueuesGrow ==
  ASSUME Types, NEW p \in Procs, SurelyRuns(p),
         sysQueue > 0 => sysQueue' > 0,
         userQueue # << >> => userQueue' # << >>, UNCHANGED proc
  PROVE  Provident'
BY DEF SurelyRuns, Provident

LEMMA ProvidentStep ==
  ASSUME Types, Provident, [Next]_vars
  PROVE  Provident'
<1> USE DEF Types
<1>0. PICK p \in Procs : SurelyRuns(p)
  BY DEF Provident
<1>1. ASSUME NEW q \in Procs, ProcStep(q) PROVE Provident'
  <2> USE DEF ProcTypes, ProcLabels
  <2>1. CASE SysDequeue(q)
    <3>1. CASE ProcAt(q, "refresh")
      <4>1. SurelyRuns(q)'
        BY <3>1 DEF SurelyRuns
      <4>2. QED
        BY <4>1 DEF Provident
    <3>2. CASE ~ ProcAt(q, "refresh")
      <4>1. UNCHANGED <<sysQueue, userQueue>>
        BY <2>1, <3>2 DEF SysDequeue
      <4>2. q # p
        BY <1>0, <2>1, <3>2, <4>1 DEF SurelyRuns, SysDequeue, QueueTypes
      <4>3. proc'[p] = proc[p]
        BY <2>1, <3>2, <4>2 DEF SysDequeue
      <4>4. QED
        BY <1>0, <4>1, <4>3 DEF SurelyRuns, Provident
    <3>3. QED
      BY <3>1, <3>2
  <2>2. CASE UserDequeue(q)
    <3>1. CASE ProcAt(q, "run")
      <4>1. SurelyRuns(q)'
        BY <3>1 DEF SurelyRuns
      <4>2. QED
        BY <4>1 DEF Provident
    <3>2. CASE ~ ProcAt(q, "run")
      <4>1. UNCHANGED <<sysQueue, userQueue>>
        BY <2>2, <3>2 DEF UserDequeue
      <4>2. q # p
        BY <1>0, <2>2, <3>2, <4>1 DEF SurelyRuns, UserDequeue
      <4>3. proc'[p] = proc[p]
        BY <2>2, <3>2, <4>2 DEF UserDequeue
      <4>4. QED
        BY <1>0, <4>1, <4>3 DEF SurelyRuns, Provident
    <3>3. QED
      BY <3>1, <3>2
  <2>3. CASE ~ (SysDequeue(q) \/ UserDequeue(q))
    <3>1. UNCHANGED <<sysQueue, userQueue>>
      BY <1>1, <2>3 DEF ProcStep, ProcLoop, SysTest, Refresh, UserTest, Run,
            Notify, SetRc, Control, Load, Store
    <3>2. /\ proc'[q] \notin {"none", "sysWait", "userWait"}
          /\ proc'[q] = "sysDequeue" => sysQueue > 0
          /\ proc'[q] = "userDequeue" => userQueue # << >>
      BY <1>1, <2>3 DEF ProcStep, ProcLoop, SysTest, Refresh, UserTest, Run,
            Notify, SetRc, Control, Return, Load, Store
    <3>3. QED
      BY <3>1, <3>2 DEF SurelyRuns, Provident
  <2>4. QED
    BY <2>1, <2>2, <2>3
<1>2. ASSUME NEW c \in Clients, HandlerStep(c) PROVE Provident'
  <2>1. UNCHANGED <<proc, sysQueue>>
    BY <1>2 DEF HandlerStep, HandlerAdvance
  <2>2. userQueue' = userQueue \/ userQueue' = Append(userQueue, c)
    BY <1>2 DEF HandlerStep, HandlerAdvance, Barrier, WakeSpuriously,
          ReadRequest, ReadFails, Admit, Dispatch, DispatchAfterWait, Await,
          FetchRc, Reply, Cleanup
  <2>3. userQueue # << >> => userQueue' # << >>
    BY <2>2 DEF QueueTypes
  <2>4. QED
    BY <1>0, <2>1, <2>3, QueuesGrow
<1>3. CASE UpdaterStep
  <2>1. UNCHANGED <<proc, userQueue>>
    BY <1>3 DEF UpdaterStep
  <2>2. sysQueue' = sysQueue \/ sysQueue' = sysQueue + 1
    BY <1>3 DEF UpdaterStep, UpdateItem, UpdateAfterWait, UpdatePassEnds
  <2>3. QED
    BY <1>0, <2>1, <2>2, QueuesGrow DEF QueueTypes
<1>4. ASSUME UNCHANGED <<proc, sysQueue, userQueue>> PROVE Provident'
  BY <1>0, <1>4, QueuesGrow
<1>5. ASSUME NEW c \in Clients, ClientStep(c) PROVE Provident'
  BY <1>4, <1>5 DEF ClientStep
<1>6. CASE ListenerStep \/ Sample \/ Sigint \/ Join
  BY <1>4, <1>6 DEF ListenerStep, ListenerAdvance, Sample, Sigint, Join
<1>7. CASE UNCHANGED vars
  BY <1>4, <1>7 DEF vars
<1>8. QED
  BY <1>1, <1>2, <1>3, <1>5, <1>6, <1>7 DEF Next, Step

(***************************************************************************)
(* The theorems.                                                           *)
(***************************************************************************)

(* The invariant holds from the start and through every step of every      *)
(* thread.                                                                 *)
THEOREM Inductive == Spec => []IInv
<1>1. Init => IInv
  BY InitTypes, InitStarting, InitRequests, InitOneRequest, InitProvident
     DEF IInv
<1>2. IInv /\ [Next]_vars => IInv'
  BY TypesStep, StartingStep, RequestsStep, OneRequestStep, ProvidentStep
     DEF IInv
<1>3. QED
  BY <1>1, <1>2, PTL DEF Spec

(* Every variable of the server keeps its type; in particular the counts   *)
(* of handlers and of transactions stay within what clients can cause.     *)
THEOREM TypeCorrect == Spec => []TypeOK
<1>1. IInv => TypeOK
  <2> SUFFICES ASSUME IInv PROVE TypeOK
    OBVIOUS
  <2> USE DEF IInv, Types
  <2>1. left \in [Clients -> 0 .. MaxRequests]
        /\ taken \in [Clients -> 0 .. MaxRequests]
    <3>1. \A c \in Clients : left[c] \in 0 .. MaxRequests
                             /\ taken[c] \in 0 .. MaxRequests
      BY ServerAssumption DEF ClientTypes, HandlerTypes, Requests
    <3>2. QED
      BY <3>1 DEF ClientTypes, HandlerTypes
  <2>2. ran \in [Clients -> 0 .. MaxRequests]
    <3>1. \A c \in Clients : ran[c] <= taken[c]
      BY RunCountCases DEF OneRequest, RunCounts, ProcTypes, HandlerTypes
    <3>2. \A c \in Clients : ran[c] \in 0 .. MaxRequests
      BY <2>1, <3>1, ServerAssumption DEF ProcTypes
    <3>3. QED
      BY <3>2 DEF ProcTypes
  <2>3. numClients \in - Cardinality(Clients) .. Cardinality(Clients)
    BY AliveFinite, ServerAssumption DEF Starting, Population
  <2>4. QED
    BY <2>1, <2>2, <2>3 DEF TypeOK, ClientTypes, HandlerTypes, ListenerTypes,
       QueueTypes, ProcTypes
<1>2. QED
  BY <1>1, Inductive, PTL

(* The write of txn_done always finds its cell: whoever is still going to  *)
(* do it, a queue entry or a thread before its notify, points to a handler *)
(* in its loop on that cell, and is the only one.  The write of txn_rc,    *)
(* after the notify, is not covered: it may come too late.                 *)
THEOREM TxnDoneLive == Spec => []DoneCellLive
<1>1. IInv => DoneCellLive
  <2> SUFFICES ASSUME IInv, NEW c \in Clients
               PROVE  /\ Cardinality(Queued(c)) + Cardinality(Unnotified(c)) <= 1
                      /\ Queued(c) # {} \/ Unnotified(c) # {} =>
                            handler[c] = "await" /\ ~txnDone[c]
    BY DEF DoneCellLive
  <2> USE DEF IInv, OneRequest
  <2>1. \A i, j \in Queued(c) : i = j
    BY DEF Queued, QueuedOnce
  <2>2. \A p, q \in Unnotified(c) : p = q
    BY DEF Unnotified, BusyOnce, Busy
  <2>3. Queued(c) = {} \/ Unnotified(c) = {}
    BY DEF Queued, Unnotified, BusyOnce, Busy
  <2>4. Queued(c) = {} \/ \E i : Queued(c) = {i}
    BY <2>1
  <2>5. Unnotified(c) = {} \/ \E p : Unnotified(c) = {p}
    BY <2>2
  <2>6. ASSUME NEW S, S = {} \/ \E x : S = {x}
        PROVE  /\ Cardinality(S) \in 0 .. 1
               /\ S = {} => Cardinality(S) = 0
    <3>1. CASE S = {}
      <4>1. Cardinality(S) = 0
        BY <3>1, FS_EmptySet, Zenon
      <4>2. QED
        BY <4>1
    <3>2. CASE S # {}
      <4>1. PICK x : S = {x}
        BY <2>6, <3>2
      <4>2. Cardinality(S) = 1
        BY <4>1, FS_Singleton, Zenon
      <4>3. QED
        BY <3>2, <4>2
    <3>3. QED
      BY <3>1, <3>2
  <2>7. Cardinality(Queued(c)) + Cardinality(Unnotified(c)) <= 1
    <3> DEFINE m == Cardinality(Queued(c))
               n == Cardinality(Unnotified(c))
    <3>1. m \in 0 .. 1 /\ n \in 0 .. 1
      BY <2>4, <2>5, <2>6
    <3>2. m = 0 \/ n = 0
      BY <2>3, <2>4, <2>5, <2>6
    <3> HIDE DEF m, n
    <3>3. m + n <= 1
      BY <3>1, <3>2
    <3>4. QED
      BY <3>3 DEF m, n
  <2>8. Queued(c) # {} \/ Unnotified(c) # {} =>
           handler[c] = "await" /\ ~txnDone[c]
    BY DEF Queued, Unnotified, Awaited, Busy
  <2>9. QED
    BY <2>7, <2>8
<1>2. QED
  BY <1>1, Inductive, PTL

(* A handler that goes on to its reply has had its transaction run, and    *)
(* run once.                                                               *)
THEOREM OneRunPerReply == Spec => []RepliedAfterOneRun
<1>1. IInv => RepliedAfterOneRun
  <2> SUFFICES ASSUME IInv, NEW c \in Clients
               PROVE  /\ handler[c] \in {"fetch", "reply"} => ran[c] = taken[c]
                      /\ ran[c] <= taken[c]
    BY DEF RepliedAfterOneRun
  <2>1. ran[c] \in Int /\ taken[c] \in Int
    BY DEF IInv, Types, ProcTypes, HandlerTypes
  <2>2. QED
    BY <2>1, RunCountCases DEF IInv, OneRequest, RunCounts
<1>2. QED
  BY <1>1, Inductive, PTL

(* No request is read before the listener has counted NumClients handlers  *)
(* or the server is asked to die.                                          *)
THEOREM AllStartTogether == Spec => []StartTogether
<1>1. IInv => StartTogether
  BY DEF IInv, Starting, Together, Started, StartTogether
<1>2. QED
  BY <1>1, Inductive, PTL

(* The last handler that leaves asks the server to die: the count cannot   *)
(* pass over zero, although a handler is counted after it is created.      *)
THEOREM ExperimentEnds == Spec => []LastHandlerEnds
<1>1. IInv => LastHandlerEnds
  <2> SUFFICES ASSUME IInv, \A c \in Clients : handler[c] \in {"none", "gone"},
                      NEW c \in Clients, handler[c] = "gone"
               PROVE  timeToDie
    BY DEF LastHandlerEnds
  <2>1. Cardinality(Alive) = 0
    <3>1. Alive = {}
      BY DEF Alive
    <3>2. QED
      BY <3>1, FS_EmptySet
  <2>2. ~ (numClients >= 1)
    BY <2>1 DEF IInv, Starting, Population
  <2>3. QED
    BY <2>2 DEF IInv, Starting, Inhabited, Started
<1>2. QED
  BY <1>1, Inductive, PTL

(* The processing threads never block all at once, whatever they find in   *)
(* the queues they tested without the mutex.                               *)
THEOREM NotAllBlocked == Spec => []SomeProcRuns
<1>1. IInv => SomeProcRuns
  BY DEF IInv, Provident, SurelyRuns, SomeProcRuns
<1>2. QED
  BY <1>1, Inductive, PTL
=============================================================================
