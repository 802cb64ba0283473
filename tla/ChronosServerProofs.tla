------------------------ MODULE ChronosServerProofs ------------------------
(***************************************************************************)
(* What the clients of startup_server.c count, for every number of client  *)
(* threads and of requests.                                                *)
(***************************************************************************)
EXTENDS ChronosServer, TLAPS

(* A response is written when the handler is through, and tells what the   *)
(* transaction came to.                                                    *)
ReplyInv == \A x \in Conns :
               /\ reply[x] # NoReply => handler[x] = "gone"
               /\ reply[x] = "ok" => x \in committed
               /\ reply[x] = "fail" => x \notin committed

(* Between the end of the transaction and the response, txn_rc tells it.   *)
OutcomeInv == \A x \in Conns :
                 /\ x \in committed => handler[x] \in {"reply", "gone"}
                 /\ handler[x] = "reply" => (x \in committed <=>
                                               txnRc[x] = "ok")

(* A client counts a request by the response it has read.                  *)
CountInv == /\ \A x \in succeeded : reply[x] = "ok"
            /\ \A x \in failed : reply[x] = "fail"

(* A connection that is not made yet has no handler.  The requests a       *)
(* thread has behind it are counted; those it has left otherwise were its  *)
(* last.                                                                   *)
ClientInv ==
    \A c \in Clients :
       /\ client[c] \in {"send", "receive", "think"} => conns[c] >= 1
       /\ \A k \in 1 .. MaxRequests[c] :
             /\ k > conns[c] => handler[<<c, k>>] = "none"
             /\ \/ k < conns[c]
                \/ k = conns[c] /\ client[c] \in {"think", "connect"}
                => <<c, k>> \in succeeded \cup failed

IInv == TypeOK /\ ReplyInv /\ OutcomeInv /\ CountInv /\ ClientInv

(* A connection is a client thread and a number.                           *)
LEMMA ConnsLemma ==
  /\ \A c \in Clients : \A k \in 1 .. MaxRequests[c] : <<c, k>> \in Conns
  /\ \A x \in Conns : \E c \in Clients : \E k \in 1 .. MaxRequests[c] :
        x = <<c, k>>
  BY DEF Conns

(* The connection a thread is at.                                          *)
LEMMA CurLemma ==
  ASSUME TypeOK, ClientInv, NEW c \in Clients,
         client[c] \in {"send", "receive", "think"}
  PROVE  Cur(c) \in Conns
<1>1. conns[c] \in 1 .. MaxRequests[c]
  BY ServerAssumption DEF TypeOK, ClientInv
<1>2. QED
  BY <1>1, ConnsLemma DEF Cur

(* A transaction that ends has an outcome, or takes the process with it.   *)
LEMMA FinishLemma ==
  ASSUME NEW x \in Conns, FinishTxn(x)
  PROVE  \/ /\ \E rc \in Outcomes :
                 /\ txnRc' = [txnRc EXCEPT ![x] = rc]
                 /\ committed' = IF rc = "ok" THEN committed \cup {x}
                                              ELSE committed
            /\ handler' = [handler EXCEPT ![x] = "reply"]
            /\ UNCHANGED <<serverVars, request, reply>>
         \/ /\ ProcessEnds
            /\ UNCHANGED <<timeToDie, listener, handle, handlerVars>>
  BY DEF FinishTxn, HandlerAt, Outcomes, handlerVars

(* The invariant holds before anybody has connected.                       *)
LEMMA InitIInv == Init => IInv
<1> SUFFICES ASSUME Init PROVE IInv
  OBVIOUS
<1> USE ServerAssumption DEF Init
<1>1. TypeOK
  <2>1. \A c \in Clients : conns[c] <= MaxRequests[c]
    <3> TAKE c \in Clients
    <3>1. conns[c] = 0 /\ MaxRequests[c] \in Nat
      OBVIOUS
    <3>2. QED
      BY <3>1
  <2>2. conns \in [Clients -> Nat] /\ client \in [Clients -> {"connect"}]
    OBVIOUS
  <2>3. /\ handler \in [Conns -> HandlerLabels]
        /\ txnRc \in [Conns -> Outcomes]
        /\ reply \in [Conns -> Outcomes \cup {NoReply}]
    BY DEF HandlerLabels, Outcomes
  <2>4. QED
    BY <2>1, <2>2, <2>3 DEF TypeOK
<1>2. ReplyInv /\ OutcomeInv /\ CountInv
  BY DEF ReplyInv, OutcomeInv, CountInv
<1>3. ClientInv
  <2>1. \A c \in Clients : client[c] = "connect" /\ conns[c] = 0
    OBVIOUS
  <2>2. ASSUME NEW c \in Clients, NEW k \in 1 .. MaxRequests[c]
        PROVE  handler[<<c, k>>] = "none" /\ ~(k < conns[c]) /\ k # conns[c]
    <3>1. <<c, k>> \in Conns
      BY ConnsLemma
    <3>2. MaxRequests[c] \in Nat
      OBVIOUS
    <3>3. k \in Nat \ {0}
      BY <3>2
    <3>4. QED
      BY <2>1, <3>1, <3>3
  <2>3. QED
    BY <2>1, <2>2 DEF ClientInv
<1>4. QED
  BY <1>1, <1>2, <1>3 DEF IInv

(* Every step keeps the types.                                             *)
LEMMA TypeStep == IInv /\ [Next]_vars => TypeOK'
<1> SUFFICES ASSUME IInv, [Next]_vars PROVE TypeOK'
  OBVIOUS
<1> USE DEF IInv, TypeOK, HandlerAt, ClientAt, HandlerLabels, Outcomes,
            serverVars, handlerVars, clientVars
<1>1. ASSUME NEW c \in Clients, ClientStep(c) PROVE TypeOK'
  <2> USE <1>1 DEF ClientStep
  <2>1. CASE Connect(c)
    <3>1. conns' \in [Clients -> Nat]
      BY <2>1 DEF Connect
    <3>2. \A d \in Clients : conns'[d] <= MaxRequests[d]
      <4> TAKE d \in Clients
      <4>1. /\ conns[d] \in Nat /\ MaxRequests[d] \in Nat
            /\ conns[d] <= MaxRequests[d]
        BY ServerAssumption
      <4>2. CASE d = c
        BY <2>1, <4>1, <4>2 DEF Connect
      <4>3. CASE d # c
        BY <2>1, <4>1, <4>3 DEF Connect
      <4>4. QED
        BY <4>2, <4>3
    <3>3. QED
      BY <2>1, <3>1, <3>2 DEF Connect
  <2>2. CASE Refused(c)
    BY <2>2 DEF Refused
  <2>3. CASE Send(c)
    BY <2>3, CurLemma DEF Send
  <2>4. CASE SendFails(c)
    BY <2>4, CurLemma DEF SendFails, Leave
  <2>5. CASE Receive(c)
    <3>1. Cur(c) \in Conns
      BY <2>5, CurLemma DEF Receive
    <3>2. QED
      BY <2>5, <3>1 DEF Receive
  <2>6. CASE ReceiveFails(c)
    BY <2>6, CurLemma DEF ReceiveFails, Leave
  <2>7. CASE Think(c)
    BY <2>7 DEF Think
  <2>8. QED
    BY <2>1, <2>2, <2>3, <2>4, <2>5, <2>6, <2>7
<1>2. ASSUME NEW x \in Conns, HandlerStep(x) PROVE TypeOK'
  <2> USE <1>2 DEF HandlerStep, ProcessEnds
  <2>1. CASE ReadRequest(x)
    BY <2>1 DEF ReadRequest
  <2>2. CASE StartTxn(x)
    <3>1. CASE handle = "open"
      BY <2>2, <3>1 DEF StartTxn
    <3>2. CASE handle = "freed"
      BY <2>2, <3>2 DEF StartTxn
    <3>3. QED
      BY <3>1, <3>2
  <2>3. CASE FinishTxn(x)
    <3>1. CASE UNCHANGED handlerVars
      BY <2>3, <3>1, FinishLemma
    <3>2. CASE ~ UNCHANGED handlerVars
      <4>1. PICK rc \in Outcomes :
               /\ txnRc' = [txnRc EXCEPT ![x] = rc]
               /\ committed' = IF rc = "ok" THEN committed \cup {x}
                                            ELSE committed
               /\ handler' = [handler EXCEPT ![x] = "reply"]
               /\ UNCHANGED <<serverVars, request, reply>>
        BY <2>3, <3>2, FinishLemma
      <4>2. QED
        BY <4>1
    <3>3. QED
      BY <3>1, <3>2
  <2>4. CASE Reply(x)
    BY <2>4 DEF Reply
  <2>5. QED
    BY <2>1, <2>2, <2>3, <2>4
<1>3. CASE ListenerStep
  BY <1>3 DEF ListenerStep, ListenerAdvance, NoListenerStep, Listen, Poll,
              PollDies, Accept, SpawnFails, CheckDuration, ListenerFails,
              Backlog
<1>4. CASE MainStep
  BY <1>4 DEF MainStep, Join, FreeHandle, FreeHandleFails, Exit, ProcessEnds
<1>5. CASE DurationElapses \/ ServerSigint \/ ClientSigint
  BY <1>5 DEF DurationElapses, ServerSigint, ClientSigint
<1>6. CASE UNCHANGED vars
  BY <1>6 DEF vars
<1>7. QED
  BY <1>1, <1>2, <1>3, <1>4, <1>5, <1>6 DEF Next

(* The connection a thread is about to make has no handler yet.            *)
LEMMA NewConnLemma ==
  ASSUME IInv, NEW c \in Clients, Connect(c)
  PROVE  /\ <<c, conns[c] + 1>> \in Conns
         /\ handler[<<c, conns[c] + 1>>] = "none"
<1>1. conns[c] \in Nat /\ MaxRequests[c] \in Nat
  BY ServerAssumption DEF IInv, TypeOK
<1>2. conns[c] + 1 \in 1 .. MaxRequests[c] /\ conns[c] + 1 > conns[c]
  BY <1>1 DEF Connect
<1>3. QED
  BY <1>2, ConnsLemma DEF IInv, ClientInv

(* A handler that neither reaches its response nor comes from there tells  *)
(* nobody anything.                                                        *)
LEMMA EarlyLemma ==
  ASSUME IInv, NEW x \in Conns, NEW label, HandlerAt(x, label),
         handler[x] \notin {"reply", "gone"},
         label \notin {"reply", "gone"},
         UNCHANGED <<txnRc, reply, committed>>
  PROVE  ReplyInv' /\ OutcomeInv'
<1> USE DEF IInv, TypeOK, HandlerAt
<1>1. ASSUME NEW y \in Conns
      PROVE  /\ handler'[y] = "gone" <=> handler[y] = "gone"
             /\ handler'[y] = "reply" <=> handler[y] = "reply"
  OBVIOUS
<1>2. QED
  BY <1>1 DEF ReplyInv, OutcomeInv

(* The response says what the transaction came to.                         *)
LEMMA OutcomeStep == IInv /\ [Next]_vars => ReplyInv' /\ OutcomeInv'
<1> SUFFICES ASSUME IInv, [Next]_vars PROVE ReplyInv' /\ OutcomeInv'
  OBVIOUS
<1> USE DEF handlerVars
<1>1. ASSUME UNCHANGED handlerVars PROVE ReplyInv' /\ OutcomeInv'
  BY <1>1 DEF IInv, ReplyInv, OutcomeInv
<1>2. ASSUME NEW c \in Clients, ClientStep(c) PROVE ReplyInv' /\ OutcomeInv'
  <2>1. CASE Connect(c)
    <3>1. /\ HandlerAt(<<c, conns[c] + 1>>, "backlog")
          /\ UNCHANGED <<txnRc, reply, committed>>
      BY <1>2, <2>1 DEF ClientStep, Connect
    <3>2. /\ <<c, conns[c] + 1>> \in Conns
          /\ handler[<<c, conns[c] + 1>>] = "none"
      BY <2>1, NewConnLemma
    <3>3. QED
      BY <3>1, <3>2, EarlyLemma
  <2>2. CASE ~Connect(c)
    <3>1. UNCHANGED <<handler, txnRc, reply, committed>>
      BY <1>2, <2>2 DEF ClientStep, Refused, Send, SendFails, Leave, Receive,
                        ReceiveFails, Think
    <3>2. QED
      BY <3>1 DEF IInv, ReplyInv, OutcomeInv
  <2>3. QED
    BY <2>1, <2>2
<1>3. ASSUME NEW x \in Conns, HandlerStep(x) PROVE ReplyInv' /\ OutcomeInv'
  <2>1. CASE ReadRequest(x)
    BY <2>1, EarlyLemma DEF ReadRequest
  <2>2. CASE StartTxn(x)
    <3>1. CASE handle = "open"
      BY <2>2, <3>1, EarlyLemma DEF StartTxn
    <3>2. CASE handle # "open"
      <4>1. UNCHANGED <<handler, txnRc, reply, committed>>
        BY <2>2, <3>2 DEF StartTxn
      <4>2. QED
        BY <4>1 DEF IInv, ReplyInv, OutcomeInv
    <3>3. QED
      BY <3>1, <3>2
  <2>3. CASE FinishTxn(x)
    <3>1. CASE ~ UNCHANGED handlerVars
      <4>1. PICK rc \in Outcomes :
               /\ txnRc' = [txnRc EXCEPT ![x] = rc]
               /\ committed' = IF rc = "ok" THEN committed \cup {x}
                                            ELSE committed
               /\ handler' = [handler EXCEPT ![x] = "reply"]
               /\ UNCHANGED <<serverVars, request, reply>>
        BY <2>3, <3>1, FinishLemma
      <4>2. handler[x] = "txn"
        BY <2>3 DEF FinishTxn
      <4>3. reply[x] = NoReply /\ x \notin committed
        BY <4>2 DEF IInv, ReplyInv, OutcomeInv
      <4>4. QED
        BY <4>1, <4>2, <4>3, ServerAssumption
           DEF IInv, TypeOK, ReplyInv, OutcomeInv, Outcomes
    <3>2. QED
      BY <1>1, <3>1
  <2>4. CASE Reply(x)
    <3>1. /\ handler[x] = "reply" /\ txnRc[x] \in {"ok", "fail"}
          /\ handler' = [handler EXCEPT ![x] = "gone"]
          /\ UNCHANGED <<txnRc, committed>>
      BY <2>4 DEF Reply, HandlerAt, IInv, TypeOK, Outcomes
    <3>2. reply' = reply \/ reply' = [reply EXCEPT ![x] = txnRc[x]]
      BY <2>4 DEF Reply
    <3>3. QED
      BY <3>1, <3>2 DEF IInv, TypeOK, ReplyInv, OutcomeInv
  <2>5. QED
    BY <1>3, <2>1, <2>2, <2>3, <2>4 DEF HandlerStep
<1>4. CASE ListenerStep
  <2>1. CASE \E x \in Backlog : HandlerAt(x, "read") \/ HandlerAt(x, "leaked")
    BY <1>4, <2>1, EarlyLemma
       DEF ListenerStep, ListenerAdvance, NoListenerStep, Backlog
  <2>2. CASE UNCHANGED handler
    BY <1>1, <1>4, <2>2 DEF ListenerStep, ListenerAdvance, NoListenerStep
  <2>3. QED
    BY <1>4, <2>1, <2>2
       DEF ListenerStep, ListenerAdvance, Listen, Poll, PollDies, Accept,
           SpawnFails, CheckDuration, ListenerFails
<1>5. CASE MainStep \/ DurationElapses \/ ServerSigint \/ ClientSigint
           \/ UNCHANGED vars
  BY <1>1, <1>5 DEF MainStep, DurationElapses, ServerSigint, ClientSigint,
                    vars
<1>6. QED
  BY <1>2, <1>3, <1>4, <1>5 DEF Next

(* A client counts what it has read, and no response changes later.        *)
LEMMA CountStep == IInv /\ [Next]_vars => CountInv'
<1> SUFFICES ASSUME IInv, [Next]_vars PROVE CountInv'
  OBVIOUS
<1>1. ASSUME UNCHANGED <<reply, succeeded, failed>> PROVE CountInv'
  BY <1>1 DEF IInv, CountInv
<1>2. ASSUME NEW c \in Clients, ClientStep(c) PROVE CountInv'
  <2>1. CASE Receive(c)
    <3>1. /\ \A x \in succeeded' : x \in succeeded \/ reply[x] = "ok"
          /\ \A x \in failed' : x \in failed \/ reply[x] = "fail"
      BY <2>1 DEF Receive
    <3>2. QED
      BY <1>2, <3>1 DEF ClientStep, IInv, CountInv
  <2>2. CASE ~Receive(c)
    <3>1. UNCHANGED <<reply, succeeded, failed>>
      BY <1>2, <2>2 DEF ClientStep, Connect, Refused, Send, SendFails, Leave,
                        ReceiveFails, Think
    <3>2. QED
      BY <1>1, <3>1
  <2>3. QED
    BY <2>1, <2>2
<1>3. ASSUME NEW x \in Conns, HandlerStep(x) PROVE CountInv'
  <2>1. CASE Reply(x)
    <3>1. /\ reply' = reply \/ reply' = [reply EXCEPT ![x] = txnRc[x]]
          /\ UNCHANGED <<succeeded, failed>>
      BY <1>3, <2>1 DEF Reply, HandlerStep, clientVars
    <3>2. reply[x] = NoReply
      BY <2>1 DEF Reply, IInv, ReplyInv
    <3>3. x \notin succeeded /\ x \notin failed
      BY <3>2, ServerAssumption DEF IInv, CountInv
    <3>4. QED
      BY <3>1, <3>3 DEF IInv, TypeOK, CountInv
  <2>2. CASE ~Reply(x)
    <3>1. UNCHANGED <<reply, succeeded, failed>>
      BY <1>3, <2>2 DEF HandlerStep, ReadRequest, StartTxn, FinishTxn,
                        clientVars
    <3>2. QED
      BY <1>1, <3>1
  <2>3. QED
    BY <2>1, <2>2
<1>4. CASE ListenerStep \/ MainStep
  BY <1>1, <1>4 DEF ListenerStep, ListenerAdvance, NoListenerStep, MainStep,
                    handlerVars, clientVars
<1>5. CASE \/ DurationElapses \/ ServerSigint \/ ClientSigint
           \/ UNCHANGED vars
  BY <1>1, <1>5 DEF DurationElapses, ServerSigint, ClientSigint, vars,
                    handlerVars, clientVars
<1>6. QED
  BY <1>2, <1>3, <1>4, <1>5 DEF Next

(* The steps of the server do not touch a connection that is not made.     *)
LEMMA ServerLemma ==
  ASSUME IInv, UNCHANGED clientVars,
         \A x \in Conns : handler[x] = "none" => handler'[x] = "none"
  PROVE  ClientInv'
<1>1. ASSUME NEW c \in Clients, NEW k \in 1 .. MaxRequests[c]
      PROVE  handler[<<c, k>>] = "none" => handler'[<<c, k>>] = "none"
  BY ConnsLemma
<1>2. QED
  BY <1>1 DEF IInv, ClientInv, clientVars

(* A client thread gets to its next request only by counting the last one. *)
LEMMA ClientInvStep == IInv /\ [Next]_vars => ClientInv'
<1> SUFFICES ASSUME IInv, [Next]_vars PROVE ClientInv'
  OBVIOUS
<1>1. ASSUME NEW x \in Conns, HandlerStep(x) PROVE ClientInv'
  <2>1. /\ handler[x] # "none"
        /\ \A y \in Conns : y # x => handler'[y] = handler[y]
    BY <1>1 DEF HandlerStep, ReadRequest, StartTxn, FinishTxn, Reply,
                HandlerAt, IInv, TypeOK
  <2>2. QED
    BY <1>1, <2>1, ServerLemma DEF HandlerStep
<1>2. CASE ListenerStep
  <2>1. \/ UNCHANGED handler
        \/ \E x \in Backlog : \E label : HandlerAt(x, label)
    BY <1>2 DEF ListenerStep, ListenerAdvance, Listen, Poll, PollDies, Accept,
                SpawnFails, CheckDuration, ListenerFails
  <2>2. \A y \in Conns : handler[y] = "none" => handler'[y] = "none"
    BY <2>1 DEF Backlog, HandlerAt, IInv, TypeOK
  <2>3. QED
    BY <1>2, <2>2, ServerLemma DEF ListenerStep, ListenerAdvance,
                                   NoListenerStep
<1>3. CASE MainStep \/ DurationElapses \/ ServerSigint \/ ClientSigint
           \/ UNCHANGED vars
  BY <1>3, ServerLemma DEF MainStep, DurationElapses, ServerSigint,
                           ClientSigint, vars, handlerVars, clientVars
<1>4. ASSUME NEW c \in Clients, ClientStep(c) PROVE ClientInv'
  <2>1. CASE Connect(c)
    <3>1. /\ conns' = [conns EXCEPT ![c] = conns[c] + 1]
          /\ client' = [client EXCEPT ![c] = "send"]
          /\ handler' = [handler EXCEPT ![<<c, conns[c] + 1>>] = "backlog"]
          /\ UNCHANGED <<succeeded, failed>>
      BY <2>1 DEF Connect, HandlerAt, ClientAt
    <3>2. ASSUME NEW d \in Clients, NEW k \in 1 .. MaxRequests[d],
                 <<d, k>> # <<c, conns[c] + 1>>
          PROVE  handler'[<<d, k>>] = handler[<<d, k>>]
      BY <3>1, <3>2, ConnsLemma DEF IInv, TypeOK
    <3>3. ASSUME NEW k \in 1 .. MaxRequests[c]
          PROVE  /\ k > conns'[c] => handler'[<<c, k>>] = "none"
                 /\ k < conns'[c] => <<c, k>> \in succeeded' \cup failed'
      <4>1. /\ MaxRequests[c] \in Nat /\ conns[c] \in Nat
            /\ conns'[c] = conns[c] + 1 /\ client[c] = "connect"
        BY <2>1, <3>1, ServerAssumption DEF IInv, TypeOK, Connect
      <4>2. k \in Nat
        BY <4>1
      <4>3. CASE k > conns[c] + 1
        BY <3>2, <4>1, <4>2, <4>3 DEF IInv, ClientInv
      <4>4. CASE k < conns[c] + 1
        <5>1. k < conns[c] \/ k = conns[c]
          BY <4>1, <4>2, <4>4
        <5>2. QED
          BY <3>1, <4>1, <4>2, <4>4, <5>1 DEF IInv, ClientInv
      <4>5. QED
        BY <4>1, <4>2, <4>3, <4>4
    <3>4. conns'[c] >= 1 /\ client'[c] = "send"
      BY <3>1 DEF IInv, TypeOK
    <3>5. ASSUME NEW d \in Clients, d # c
          PROVE  conns'[d] = conns[d] /\ client'[d] = client[d]
      BY <3>1, <3>5 DEF IInv, TypeOK
    <3>6. QED
      BY <3>1, <3>2, <3>3, <3>4, <3>5 DEF IInv, ClientInv
  <2>2. ASSUME NEW label, ClientAt(c, label), UNCHANGED <<handler, conns>>,
               succeeded \subseteq succeeded', failed \subseteq failed',
               label \in {"send", "receive", "think"} => conns[c] >= 1,
               label \in {"think", "connect"} /\ Cur(c) \in Conns
                  => Cur(c) \in succeeded' \cup failed'
        PROVE  ClientInv'
    <3>1. /\ client'[c] = label
          /\ \A d \in Clients : d # c => client'[d] = client[d]
      BY <2>2 DEF ClientAt, IInv, TypeOK
    <3>2. ASSUME NEW k \in 1 .. MaxRequests[c], k = conns[c]
          PROVE  <<c, k>> \in Conns /\ <<c, k>> = Cur(c)
      BY <3>2, ConnsLemma DEF Cur
    <3>3. QED
      BY <2>2, <3>1, <3>2 DEF IInv, ClientInv
  <2>3. CASE Send(c)
    BY <2>2, <2>3 DEF Send, IInv, ClientInv
  <2>4. CASE Refused(c) \/ SendFails(c) \/ ReceiveFails(c)
    BY <2>2, <2>4 DEF Refused, SendFails, ReceiveFails, Leave
  <2>5. CASE Receive(c)
    <3>1. Cur(c) \in Conns /\ reply[Cur(c)] \in {"ok", "fail"}
      BY <2>5, CurLemma DEF Receive, IInv, TypeOK, Outcomes
    <3>2. /\ Cur(c) \in succeeded' \cup failed'
          /\ succeeded \subseteq succeeded' /\ failed \subseteq failed'
      BY <2>5, <3>1 DEF Receive
    <3>3. conns[c] >= 1
      BY <2>5 DEF Receive, IInv, ClientInv
    <3>4. ClientAt(c, "think") /\ UNCHANGED <<handler, conns>>
      BY <2>5 DEF Receive
    <3>5. QED
      BY <2>2, <3>2, <3>3, <3>4
  <2>6. CASE Think(c)
    <3>1. conns[c] \in 1 .. MaxRequests[c] /\ client[c] = "think"
      BY <2>6, ServerAssumption DEF Think, IInv, TypeOK, ClientInv
    <3>2. Cur(c) \in succeeded \cup failed
      BY <3>1 DEF IInv, ClientInv, Cur
    <3>3. QED
      BY <2>2, <2>6, <3>2 DEF Think
  <2>7. QED
    BY <1>4, <2>1, <2>3, <2>4, <2>5, <2>6 DEF ClientStep
<1>5. QED
  BY <1>1, <1>2, <1>3, <1>4 DEF Next

(* The inductive invariant holds of every state the programs reach.        *)
THEOREM ServerInvariant == Spec => []IInv
<1>1. Init => IInv
  BY InitIInv
<1>2. IInv /\ [Next]_vars => IInv'
  BY TypeStep, OutcomeStep, CountStep, ClientInvStep DEF IInv
<1>3. QED
  BY <1>1, <1>2, PTL DEF Spec

(* The variables of server and clients keep their types.                   *)
THEOREM ServerTypes == Spec => []TypeOK
<1>1. IInv => TypeOK
  BY DEF IInv
<1>2. QED
  BY <1>1, ServerInvariant, PTL

(* The requests a client counts as successes committed, those it counts as *)
(* failures did not.                                                       *)
THEOREM ServerCounts == Spec => []CountsAreTrue
<1>1. IInv => CountsAreTrue
  <2> SUFFICES ASSUME IInv PROVE CountsAreTrue
    OBVIOUS
  <2>1. ASSUME NEW x \in succeeded PROVE x \in committed
    BY <2>1 DEF IInv, TypeOK, CountInv, ReplyInv
  <2>2. ASSUME NEW x \in failed PROVE x \notin committed
    BY <2>2 DEF IInv, TypeOK, CountInv, ReplyInv
  <2>3. QED
    BY <2>1, <2>2 DEF CountsAreTrue
<1>2. QED
  BY <1>1, ServerInvariant, PTL

(* Only the outcome of the last request of a client thread can be lost.    *)
THEOREM ServerLoses == Spec => []OnlyLastIsLost
<1>1. IInv => OnlyLastIsLost
  <2> SUFFICES ASSUME IInv, NEW c \in Clients, NEW k \in 1 .. conns[c] - 1,
                      <<c, k>> \in committed
               PROVE  <<c, k>> \in succeeded
    BY DEF OnlyLastIsLost
  <2>1. k \in 1 .. MaxRequests[c] /\ k < conns[c]
    <3>1. /\ conns[c] \in Nat /\ MaxRequests[c] \in Nat
          /\ conns[c] <= MaxRequests[c]
      BY ServerAssumption DEF IInv, TypeOK
    <3>2. QED
      BY <3>1
  <2>2. <<c, k>> \in succeeded \cup failed
    BY <2>1 DEF IInv, ClientInv
  <2>3. <<c, k>> \notin failed
    BY DEF IInv, TypeOK, CountInv, ReplyInv
  <2>4. QED
    BY <2>2, <2>3
<1>2. QED
  BY <1>1, ServerInvariant, PTL

(* The transactions of a client thread never overlap.                      *)
THEOREM ServerOneTxn == Spec => []OneTxnPerClient
<1>1. IInv => OneTxnPerClient
  <2> SUFFICES ASSUME IInv, NEW c \in Clients
               PROVE  \A k \in 1 .. MaxRequests[c] :
                         handler[<<c, k>>] \in {"run", "txn", "reply"}
                            => k = conns[c]
    BY DEF OneTxnPerClient
  <2> SUFFICES ASSUME NEW k \in 1 .. MaxRequests[c],
                      handler[<<c, k>>] \in {"run", "txn", "reply"}
               PROVE  k = conns[c]
    OBVIOUS
  <2>1. conns[c] \in Nat /\ k \in Nat
    BY ServerAssumption DEF IInv, TypeOK
  <2>2. ~(k > conns[c])
    BY DEF IInv, ClientInv
  <2>3. <<c, k>> \notin succeeded \cup failed
    <3>1. <<c, k>> \in Conns
      BY ConnsLemma
    <3>2. reply[<<c, k>>] = NoReply
      BY <3>1 DEF IInv, ReplyInv
    <3>3. QED
      BY <3>2, ServerAssumption DEF IInv, CountInv
  <2>4. ~(k < conns[c])
    BY <2>3 DEF IInv, ClientInv
  <2>5. QED
    BY <2>1, <2>2, <2>4
<1>2. QED
  BY <1>1, ServerInvariant, PTL
=============================================================================
