------------------------------ MODULE TxnQueue ------------------------------
(***************************************************************************)
(* The ready queue of chronos_queue.c: a ring of CHRONOS_READY_QUEUE_SIZE  *)
(* slots guarded by one mutex and two condition variables, `more' for the  *)
(* threads that dequeue and `less' for those that enqueue.  The server has *)
(* two of them, sysTxnQueue and userTxnQueue; one is modelled.  A thread   *)
(* runs one call of chronos_enqueue_transaction or                         *)
(* chronos_dequeue_transaction at a time, one action per step of it, and   *)
(* repeats.  The loops of processThread and daHandler test time_to_die     *)
(* before they make the next call; updateThread tests it at the end of a   *)
(* pass over its data items and goes on with its calls until then.         *)
(***************************************************************************)
EXTENDS Integers, FiniteSets, Sequences

CONSTANTS Producers,   (* threads that enqueue: updateThread, daHandler    *)
          Consumers,   (* threads that dequeue: processThread              *)
          Size,        (* CHRONOS_READY_QUEUE_SIZE                         *)
          MaxTxns,     (* bound of the model: enqueue calls ever made      *)
          NoThread     (* the owner of a free mutex                        *)

Threads == Producers \cup Consumers

ASSUME QueueAssumption == /\ IsFiniteSet(Producers) /\ IsFiniteSet(Consumers)
                          /\ Producers \cap Consumers = {}
                          /\ NoThread \notin Threads
                          /\ Size \in Nat \ {0}
                          /\ MaxTxns \in Nat

VARIABLES slots,       (* txnInfoArr                                       *)
          nextin,      (* the slot the next enqueue fills                  *)
          nextout,     (* the slot the next dequeue empties                *)
          occupied,    (* how many slots are in use                        *)
          ticketReq,   (* the last ticket handed out                       *)
          mutex,       (* the thread that holds the mutex                  *)
          more,        (* consumers blocked in pthread_cond_timedwait      *)
          less,        (* producers blocked in pthread_cond_timedwait      *)
          timeToDie,   (* what timeToDieFp returns                         *)
          pc,          (* where each thread is in its call                 *)
          rc,          (* the return code of the call                      *)
          arg,         (* the transaction a producer enqueues              *)
          result,      (* *txnInfoP of a consumer, *ticket_ret of a        *)
                       (* producer (with the transaction it is for)        *)
          submitted    (* enqueue calls made so far, names the next one    *)

ring == <<slots, nextin, nextout, occupied, ticketReq>>
conds == <<more, less>>
vars == <<slots, nextin, nextout, occupied, ticketReq, mutex, more, less,
          timeToDie, pc, rc, arg, result, submitted>>

Indices == 0 .. Size - 1
Entries == [txn : Nat, ticket : Nat]

(* A zeroed txn_info_t.                                                    *)
Nothing == [txn |-> 0, ticket |-> 0]

Labels == {"idle", "lock", "test", "wait", "check", "copy", "advance",
           "signal", "unlock", "return", "done"}

GoTo(t, label) == pc' = [pc EXCEPT ![t] = label]

-----------------------------------------------------------------------------
(* Faulty variants.  Each is a plausible bug in the definition it is named *)
(* after; the model uses none of them, the properties below are tried      *)
(* against them.                                                           *)

(* An index that wraps one slot late.                                      *)
SuccLate(i) == IF i = Size THEN 0 ELSE i + 1

(* An index that wraps one slot early.                                     *)
SuccEarly(i) == IF Size > 1 THEN (i + 1) % (Size - 1) ELSE 0

(* `if' for `while': the condition is not tested again after a wait.       *)
CheckTimeToDieNoRetest(t) ==
    /\ pc[t] = "check"
    /\ \/ /\ timeToDie
          /\ mutex' = NoThread
          /\ rc' = [rc EXCEPT ![t] = "fail"]
          /\ GoTo(t, "return")
       \/ /\ ~timeToDie
          /\ GoTo(t, "copy")
          /\ UNCHANGED <<mutex, rc>>
    /\ UNCHANGED <<ring, conds, timeToDie, arg, result, submitted>>

(* time_to_die is not looked at after a wait.                              *)
CheckTimeToDieNever(t) ==
    /\ pc[t] = "check"
    /\ GoTo(t, "test")
    /\ UNCHANGED <<ring, mutex, conds, timeToDie, rc, arg, result, submitted>>

(* `more' is signalled only when the ring was empty.                       *)
EnqueueSignalWhenFirst(p) ==
    /\ pc[p] = "signal"
    /\ \/ (more = {} \/ occupied # 1) /\ more' = more
       \/ \E c \in more : occupied = 1 /\ more' = more \ {c}
    /\ GoTo(p, "unlock")
    /\ UNCHANGED <<ring, mutex, less, timeToDie, rc, arg, result, submitted>>

(* `more' is not signalled at all.                                         *)
EnqueueSignalNever(p) ==
    /\ pc[p] = "signal"
    /\ GoTo(p, "unlock")
    /\ UNCHANGED <<ring, mutex, conds, timeToDie, rc, arg, result, submitted>>

(* The mutex is released around the copy out of the slot.                  *)
DequeueTestUnlocked(c) ==
    /\ pc[c] = "test"
    /\ \/ /\ occupied <= 0
          /\ more' = more \cup {c}
          /\ mutex' = NoThread
          /\ GoTo(c, "wait")
       \/ /\ occupied > 0
          /\ mutex' = NoThread
          /\ GoTo(c, "copy")
          /\ UNCHANGED more
    /\ UNCHANGED <<ring, less, timeToDie, rc, arg, result, submitted>>

(* The slot is filled without a new ticket.                                *)
EnqueueCopyNoTicket(p) ==
    /\ pc[p] = "copy"
    /\ slots' = [slots EXCEPT ![nextin] = [txn |-> arg[p], ticket |-> 0]]
    /\ result' = [result EXCEPT ![p] = [txn |-> arg[p],
                                        ticket |-> ticketReq + 1]]
    /\ ticketReq' = ticketReq + 1
    /\ GoTo(p, "advance")
    /\ UNCHANGED <<nextin, nextout, occupied, mutex, conds, timeToDie, rc,
                   arg, submitted>>
-----------------------------------------------------------------------------
(* Stepping an index of the ring: nextin ++; nextin %= SIZE.               *)
Succ(i) == (i + 1) % Size

Init == /\ slots = [i \in Indices |-> Nothing]
        /\ nextin = 0
        /\ nextout = 0
        /\ occupied = 0
        /\ ticketReq = 0
        /\ mutex = NoThread
        /\ more = {}
        /\ less = {}
        /\ timeToDie = FALSE
        /\ pc = [t \in Threads |-> "idle"]
        /\ rc = [t \in Threads |-> "success"]
        /\ arg = [p \in Producers |-> 0]
        /\ result = [t \in Threads |-> Nothing]
        /\ submitted = 0
-----------------------------------------------------------------------------
(* A caller enters the function; rc is initialized to CHRONOS_SUCCESS.     *)
CallEnqueue(p) ==
    /\ pc[p] = "idle"
    /\ submitted < MaxTxns
    /\ submitted' = submitted + 1
    /\ arg' = [arg EXCEPT ![p] = submitted + 1]
    /\ result' = [result EXCEPT ![p] = Nothing]
    /\ rc' = [rc EXCEPT ![p] = "success"]
    /\ GoTo(p, "lock")
    /\ UNCHANGED <<ring, mutex, conds, timeToDie>>

CallDequeue(c) ==
    /\ pc[c] = "idle"
    /\ result' = [result EXCEPT ![c] = Nothing]
    /\ rc' = [rc EXCEPT ![c] = "success"]
    /\ GoTo(c, "lock")
    /\ UNCHANGED <<ring, mutex, conds, timeToDie, arg, submitted>>

(* pthread_mutex_lock.                                                     *)
Lock(t) ==
    /\ pc[t] = "lock"
    /\ mutex = NoThread
    /\ mutex' = t
    /\ GoTo(t, "test")
    /\ UNCHANGED <<ring, conds, timeToDie, rc, arg, result, submitted>>

(* The loop condition of chronos_enqueue_transaction: wait while the ring  *)
(* is full.  pthread_cond_timedwait releases the mutex and blocks at once. *)
EnqueueTest(p) ==
    /\ pc[p] = "test"
    /\ \/ /\ occupied >= Size
          /\ less' = less \cup {p}
          /\ mutex' = NoThread
          /\ GoTo(p, "wait")
       \/ /\ occupied < Size
          /\ GoTo(p, "copy")
          /\ UNCHANGED <<mutex, less>>
    /\ UNCHANGED <<ring, more, timeToDie, rc, arg, result, submitted>>

(* The loop condition of chronos_dequeue_transaction: wait while it is     *)
(* empty.                                                                  *)
DequeueTest(c) ==
    /\ pc[c] = "test"
    /\ \/ /\ occupied <= 0
          /\ more' = more \cup {c}
          /\ mutex' = NoThread
          /\ GoTo(c, "wait")
       \/ /\ occupied > 0
          /\ GoTo(c, "copy")
          /\ UNCHANGED <<mutex, more>>
    /\ UNCHANGED <<ring, less, timeToDie, rc, arg, result, submitted>>

(* The 5 s of a timed wait are over, or it returns spuriously.             *)
Timeout(t) ==
    /\ t \in more \cup less
    /\ more' = more \ {t}
    /\ less' = less \ {t}
    /\ UNCHANGED <<ring, mutex, timeToDie, pc, rc, arg, result, submitted>>

(* pthread_cond_timedwait returns with the mutex held again.               *)
Wake(t) ==
    /\ pc[t] = "wait"
    /\ t \notin more \cup less
    /\ mutex = NoThread
    /\ mutex' = t
    /\ GoTo(t, "check")
    /\ UNCHANGED <<ring, conds, timeToDie, rc, arg, result, submitted>>

(* After a wait, and only then, timeToDieFp is asked; a call that has to   *)
(* die unlocks and fails, the others test their condition again.           *)
CheckTimeToDie(t) ==
    /\ pc[t] = "check"
    /\ \/ /\ timeToDie
          /\ mutex' = NoThread
          /\ rc' = [rc EXCEPT ![t] = "fail"]
          /\ GoTo(t, "return")
       \/ /\ ~timeToDie
          /\ GoTo(t, "test")
          /\ UNCHANGED <<mutex, rc>>
    /\ UNCHANGED <<ring, conds, timeToDie, arg, result, submitted>>

(* memcpy into the slot, ticketReq ++, the slot's ticket and *ticket_ret.  *)
EnqueueCopy(p) ==
    /\ pc[p] = "copy"
    /\ ticketReq' = ticketReq + 1
    /\ LET entry == [txn |-> arg[p], ticket |-> ticketReq + 1]
       IN  /\ slots' = [slots EXCEPT ![nextin] = entry]
           /\ result' = [result EXCEPT ![p] = entry]
    /\ GoTo(p, "advance")
    /\ UNCHANGED <<nextin, nextout, occupied, mutex, conds, timeToDie, rc,
                   arg, submitted>>

DequeueCopy(c) ==
    /\ pc[c] = "copy"
    /\ result' = [result EXCEPT ![c] = slots[nextout]]
    /\ GoTo(c, "advance")
    /\ UNCHANGED <<ring, mutex, conds, timeToDie, rc, arg, submitted>>

EnqueueAdvance(p) ==
    /\ pc[p] = "advance"
    /\ nextin' = Succ(nextin)
    /\ occupied' = occupied + 1
    /\ GoTo(p, "signal")
    /\ UNCHANGED <<slots, nextout, ticketReq, mutex, conds, timeToDie, rc,
                   arg, result, submitted>>

DequeueAdvance(c) ==
    /\ pc[c] = "advance"
    /\ nextout' = Succ(nextout)
    /\ occupied' = occupied - 1
    /\ GoTo(c, "signal")
    /\ UNCHANGED <<slots, nextin, ticketReq, mutex, conds, timeToDie, rc,
                   arg, result, submitted>>

(* pthread_cond_signal: one of the waiters, if there is any, is released.  *)
EnqueueSignal(p) ==
    /\ pc[p] = "signal"
    /\ \/ more = {} /\ more' = more
       \/ \E c \in more : more' = more \ {c}
    /\ GoTo(p, "unlock")
    /\ UNCHANGED <<ring, mutex, less, timeToDie, rc, arg, result, submitted>>

DequeueSignal(c) ==
    /\ pc[c] = "signal"
    /\ \/ less = {} /\ less' = less
       \/ \E p \in less : less' = less \ {p}
    /\ GoTo(c, "unlock")
    /\ UNCHANGED <<ring, mutex, more, timeToDie, rc, arg, result, submitted>>

Unlock(t) ==
    /\ pc[t] = "unlock"
    /\ mutex' = NoThread
    /\ GoTo(t, "return")
    /\ UNCHANGED <<ring, conds, timeToDie, rc, arg, result, submitted>>

(* The call returns.  A caller that sees time_to_die makes no other, but a *)
(* producer may be in the middle of a pass over its data items.            *)
Return(t) ==
    /\ pc[t] = "return"
    /\ \/ timeToDie /\ GoTo(t, "done")
       \/ (timeToDie => t \in Producers) /\ GoTo(t, "idle")
    /\ UNCHANGED <<ring, mutex, conds, timeToDie, rc, arg, result, submitted>>

(* A signal or the end of the experiment sets time_to_die, at any moment.  *)
AskToDie ==
    /\ ~timeToDie
    /\ timeToDie' = TRUE
    /\ UNCHANGED <<ring, mutex, conds, pc, rc, arg, result, submitted>>

(* Every loop has ended, or its producer has used up the model's bound.    *)
Terminated ==
    /\ timeToDie
    /\ \A t \in Threads : \/ pc[t] = "done"
                          \/ /\ t \in Producers
                             /\ pc[t] = "idle"
                             /\ submitted = MaxTxns
    /\ UNCHANGED vars

(* What both functions do alike, and what each does by itself.             *)
Common(t) == \/ Lock(t) \/ Wake(t) \/ CheckTimeToDie(t) \/ Unlock(t)
             \/ Return(t)
Enqueue(p) == \/ EnqueueTest(p) \/ EnqueueCopy(p) \/ EnqueueAdvance(p)
              \/ EnqueueSignal(p)
Dequeue(c) == \/ DequeueTest(c) \/ DequeueCopy(c) \/ DequeueAdvance(c)
              \/ DequeueSignal(c)

Next == \/ \E p \in Producers : CallEnqueue(p) \/ Enqueue(p)
        \/ \E c \in Consumers : CallDequeue(c) \/ Dequeue(c)
        \/ \E t \in Threads : Common(t) \/ Timeout(t)
        \/ AskToDie
        \/ Terminated

Spec == Init /\ [][Next]_vars

(* A thread that can take a step of its call takes one in the end, and     *)
(* consumers keep calling.  A thread that wants the mutex again and again  *)
(* finds it free gets it: whoever else keeps taking it sleeps in between.  *)
(* Nothing is assumed of the end of the timed wait.                        *)
Progress == /\ \A t \in Threads : SF_vars(Lock(t) \/ Wake(t))
            /\ \A t \in Threads : WF_vars(Common(t))
            /\ \A p \in Producers : WF_vars(Enqueue(p))
            /\ \A c \in Consumers : WF_vars(CallDequeue(c) \/ Dequeue(c))

FairSpec == Spec /\ Progress

(* A timed wait ends after its 5 s.                                        *)
WaitsEnd == \A t \in Threads : WF_vars(Timeout(t))
-----------------------------------------------------------------------------
(* Every variable of the queue has its type.                               *)
TypeOK == /\ slots \in [Indices -> Entries]
          /\ nextin \in Indices
          /\ nextout \in Indices
          /\ occupied \in 0 .. Size
          /\ ticketReq \in Nat
          /\ mutex \in Threads \cup {NoThread}
          /\ more \in SUBSET Consumers
          /\ less \in SUBSET Producers
          /\ timeToDie \in BOOLEAN
          /\ pc \in [Threads -> Labels]
          /\ rc \in [Threads -> {"success", "fail"}]
          /\ arg \in [Producers -> Nat]
          /\ result \in [Threads -> Entries]
          /\ submitted \in 0 .. MaxTxns

(* The two assertions of chronos_queue.c: a consumer that goes on to copy  *)
(* finds an occupied slot, a producer a free one, although a waiter that   *)
(* was signalled can be overtaken by a thread that never waited.           *)
AssertsHold == /\ \A c \in Consumers : pc[c] = "copy" => occupied > 0
               /\ \A p \in Producers : pc[p] = "copy" => occupied < Size

(* The slot k places after the oldest one.                                 *)
Slot(k) == IF nextout + k < Size THEN nextout + k ELSE nextout + k - Size

(* 1 while a ticket is drawn for a slot that is not counted yet.           *)
Drawn == IF \E p \in Producers : pc[p] = "advance" THEN 1 ELSE 0

(* What the comments at the end of both functions say of the indices:      *)
(* nextin is the first free slot behind the occupied ones (the same as     *)
(* nextout when the ring is empty or full); and the occupied slots carry   *)
(* consecutive tickets up to the last one counted, oldest first.           *)
RingConsistent ==
    /\ nextin = Slot(occupied)
    /\ \A k \in 0 .. Size - 1 :
          k < occupied =>
             slots[Slot(k)].ticket = ticketReq - Drawn - occupied + 1 + k

(* Threads that test, or will test again, the condition they waited for or *)
(* have passed the test.                                                   *)
Awake(t) == \/ pc[t] \in {"lock", "test", "check", "copy", "advance"}
            \/ pc[t] = "wait" /\ t \notin more \cup less

Signalling(T) == {t \in T : pc[t] = "signal"}

(* No wake-up is lost although a signal releases one waiter and that one   *)
(* may find its item taken: while a consumer sleeps, every occupied slot   *)
(* has a consumer awake for it or a signal about to be sent, and likewise  *)
(* every free slot while a producer sleeps.  (A thread that finds          *)
(* time_to_die set leaves and does not pass its signal on.)                *)
NoLostWakeup ==
    ~timeToDie =>
      /\ more # {} => occupied <= Cardinality({c \in Consumers : Awake(c)})
                                 + Cardinality(Signalling(Producers))
      /\ less # {} => Size - occupied
                        <= Cardinality({p \in Producers : Awake(p)})
                           + Cardinality(Signalling(Consumers))

(* The queue as its callers see it.  A call takes effect when it counts    *)
(* its slot in or out, not when it copies.                                 *)
AbsCall(t) == CASE pc[t] \in {"idle", "done"} -> pc[t]
                [] pc[t] \in {"signal", "unlock", "return"} -> 
                      IF rc[t] = "fail" THEN "fail" ELSE "success"
                [] OTHER -> "pending"

Fifo == INSTANCE TxnFifo WITH
            fifo   <- [k \in 1 .. occupied |-> slots[Slot(k - 1)]],
            issued <- ticketReq - Drawn,
            call   <- [t \in Threads |-> AbsCall(t)],
            result <- [t \in Threads |-> IF pc[t] = "advance" THEN Nothing
                                                              ELSE result[t]]

(* The ring implements the linearizable bounded FIFO: every accepted       *)
(* transaction is delivered to at most one consumer, in ticket order, and  *)
(* a call fails only after time_to_die.                                    *)
FifoSpec == Fifo!Spec

(* Transaction n is in the ring.                                           *)
InRing(n) == \E k \in 0 .. occupied - 1 : slots[Slot(k)].txn = n

(* Signals alone keep the queue moving: as long as the server is not asked *)
(* to die, what is accepted is dequeued, even if no timed wait ever ends   *)
(* by itself.                                                              *)
AcceptedIsDelivered ==
    \A n \in 1 .. MaxTxns : InRing(n) ~> (~InRing(n) \/ timeToDie)

(* Nobody signals the condition variables at shutdown: a blocked caller    *)
(* gets out by its timeout, and every call ends.                           *)
CallsEnd == WaitsEnd => \A t \in Threads :
               (timeToDie /\ pc[t] # "idle") ~> (pc[t] \in {"idle", "done"})
=============================================================================
