-------------------------- MODULE TxnQueueProofs --------------------------
(***************************************************************************)
(* Safety of the ready queue for every number of threads, every size of    *)
(* the ring and every number of calls.                                     *)
(***************************************************************************)
EXTENDS TxnQueue, FiniteSetTheorems, SequenceTheorems, TLAPS

(* The labels of a thread that holds the mutex.                            *)
Holding == {"test", "check", "copy", "advance", "signal", "unlock"}

(* The mutex is held by the one thread that is between lock and unlock.    *)
MutexInv == \A t \in Threads : pc[t] \in Holding <=> mutex = t

(* What the loop condition has established still holds when the thread     *)
(* steps its index, and the slot it is about to count in carries the last  *)
(* ticket.                                                                 *)
AdvanceInv == /\ \A c \in Consumers : pc[c] = "advance" => occupied > 0
              /\ \A p \in Producers : pc[p] = "advance" =>
                    /\ occupied < Size
                    /\ slots[nextin].ticket = ticketReq

IInv == TypeOK /\ MutexInv /\ AssertsHold /\ AdvanceInv /\ RingConsistent

(* Stepping an index stays inside the ring.                                *)
LEMMA SuccLemma ==
  ASSUME NEW i \in Indices
  PROVE  Succ(i) = IF i + 1 = Size THEN 0 ELSE i + 1
<1>1. Size \in Nat /\ Size > 0
  BY QueueAssumption
<1>2. i \in 0 .. Size - 1
  BY DEF Indices
<1>3. CASE i + 1 = Size
  BY <1>1, <1>2, <1>3 DEF Succ
<1>4. CASE i + 1 < Size
  BY <1>1, <1>2, <1>4 DEF Succ
<1>5. QED
  BY <1>1, <1>2, <1>3, <1>4

(***************************************************************************)
(* Type correctness.  The bounds on occupied rest on AdvanceInv, so the    *)
(* types are proved as a part of the inductive invariant.                  *)
(***************************************************************************)

(* The invariant holds of the empty ring the server starts with.           *)
LEMMA InitIInv == Init => IInv
<1> SUFFICES ASSUME Init PROVE IInv
  OBVIOUS
<1> USE QueueAssumption DEF Init
<1>1. TypeOK
  <2>1. 0 \in Indices /\ Nothing \in Entries
    BY DEF Indices, Entries, Nothing
  <2>2. occupied \in 0 .. Size /\ submitted \in 0 .. MaxTxns
    OBVIOUS
  <2>3. QED
    BY <2>1, <2>2 DEF TypeOK, Labels, Threads
<1>2. MutexInv
  BY DEF MutexInv, Holding
<1>3. AssertsHold /\ AdvanceInv
  BY DEF AssertsHold, AdvanceInv, Threads
<1>4. RingConsistent
  <2>1. nextin = Slot(occupied)
    BY DEF Slot
  <2>2. ~ \E k \in 0 .. Size - 1 : k < occupied
    OBVIOUS
  <2>3. QED
    BY <2>1, <2>2 DEF RingConsistent
<1>5. QED
  BY <1>1, <1>2, <1>3, <1>4 DEF IInv

(* Every step of a call keeps the types: the ring neither overflows nor    *)
(* underflows because the thread that counts has just tested.              *)
LEMMA TypeStep == IInv /\ [Next]_vars => TypeOK'
<1> SUFFICES ASSUME IInv, [Next]_vars PROVE TypeOK'
  OBVIOUS
<1> USE QueueAssumption DEF IInv, TypeOK, Threads, GoTo, Labels, ring, conds
<1>1. ASSUME NEW p \in Producers, CallEnqueue(p) PROVE TypeOK'
  BY <1>1 DEF CallEnqueue, Nothing, Entries
<1>2. ASSUME NEW c \in Consumers, CallDequeue(c) PROVE TypeOK'
  BY <1>2 DEF CallDequeue, Nothing, Entries
<1>3. ASSUME NEW p \in Producers, Enqueue(p) PROVE TypeOK'
  <2>1. CASE EnqueueTest(p)
    BY <2>1 DEF EnqueueTest
  <2>2. CASE EnqueueCopy(p)
    BY <2>2 DEF EnqueueCopy, Entries
  <2>3. CASE EnqueueAdvance(p)
    BY <2>3, SuccLemma DEF EnqueueAdvance, AdvanceInv, Indices
  <2>4. CASE EnqueueSignal(p)
    BY <2>4 DEF EnqueueSignal
  <2>5. QED
    BY <1>3, <2>1, <2>2, <2>3, <2>4 DEF Enqueue
<1>4. ASSUME NEW c \in Consumers, Dequeue(c) PROVE TypeOK'
  <2>1. CASE DequeueTest(c)
    BY <2>1 DEF DequeueTest
  <2>2. CASE DequeueCopy(c)
    BY <2>2 DEF DequeueCopy
  <2>3. CASE DequeueAdvance(c)
    BY <2>3, SuccLemma DEF DequeueAdvance, AdvanceInv, Indices
  <2>4. CASE DequeueSignal(c)
    BY <2>4 DEF DequeueSignal
  <2>5. QED
    BY <1>4, <2>1, <2>2, <2>3, <2>4 DEF Dequeue
<1>5. ASSUME NEW t \in Threads, Common(t) PROVE TypeOK'
  <2>1. CASE Lock(t)
    BY <2>1 DEF Lock
  <2>2. CASE Wake(t)
    BY <2>2 DEF Wake
  <2>3. CASE CheckTimeToDie(t)
    BY <2>3 DEF CheckTimeToDie
  <2>4. CASE Unlock(t)
    BY <2>4 DEF Unlock
  <2>5. CASE Return(t)
    BY <2>5 DEF Return
  <2>6. QED
    BY <1>5, <2>1, <2>2, <2>3, <2>4, <2>5 DEF Common
<1>6. ASSUME NEW t \in Threads, Timeout(t) PROVE TypeOK'
  BY <1>6 DEF Timeout
<1>7. CASE AskToDie
  BY <1>7 DEF AskToDie
<1>8. CASE UNCHANGED vars
  BY <1>8 DEF vars
<1>9. QED
  BY <1>1, <1>2, <1>3, <1>4, <1>5, <1>6, <1>7, <1>8 DEF Next, Terminated

(***************************************************************************)
(* Mutual exclusion and what the loop conditions establish.                *)
(***************************************************************************)

(* Only the thread that locked or woke up holds the mutex, to its unlock.  *)
LEMMA MutexStep == IInv /\ [Next]_vars => MutexInv'
<1> SUFFICES ASSUME IInv, [Next]_vars PROVE MutexInv'
  OBVIOUS
<1> USE QueueAssumption DEF IInv, TypeOK, Threads, GoTo, MutexInv, Holding
<1>1. ASSUME NEW p \in Producers, CallEnqueue(p) PROVE MutexInv'
  BY <1>1 DEF CallEnqueue
<1>2. ASSUME NEW c \in Consumers, CallDequeue(c) PROVE MutexInv'
  BY <1>2 DEF CallDequeue
<1>3. ASSUME NEW p \in Producers, Enqueue(p) PROVE MutexInv'
  BY <1>3 DEF Enqueue, EnqueueTest, EnqueueCopy, EnqueueAdvance, EnqueueSignal
<1>4. ASSUME NEW c \in Consumers, Dequeue(c) PROVE MutexInv'
  BY <1>4 DEF Dequeue, DequeueTest, DequeueCopy, DequeueAdvance, DequeueSignal
<1>5. ASSUME NEW t \in Threads, Common(t) PROVE MutexInv'
  BY <1>5 DEF Common, Lock, Wake, CheckTimeToDie, Unlock, Return
<1>6. ASSUME NEW t \in Threads, Timeout(t) PROVE MutexInv'
  BY <1>6 DEF Timeout
<1>7. CASE AskToDie
  BY <1>7 DEF AskToDie
<1>8. CASE UNCHANGED vars
  BY <1>8 DEF vars
<1>9. QED
  BY <1>1, <1>2, <1>3, <1>4, <1>5, <1>6, <1>7, <1>8 DEF Next, Terminated

(* From the test to the count the mutex keeps the tested condition true.   *)
LEMMA TestStep == IInv /\ [Next]_vars => AssertsHold' /\ AdvanceInv'
<1> SUFFICES ASSUME IInv, [Next]_vars PROVE AssertsHold' /\ AdvanceInv'
  OBVIOUS
<1> USE QueueAssumption
        DEF IInv, TypeOK, Threads, GoTo, MutexInv, Holding, AssertsHold,
            AdvanceInv, ring, conds
<1>1. ASSUME NEW p \in Producers, CallEnqueue(p)
      PROVE  AssertsHold' /\ AdvanceInv'
  BY <1>1 DEF CallEnqueue
<1>2. ASSUME NEW c \in Consumers, CallDequeue(c)
      PROVE  AssertsHold' /\ AdvanceInv'
  BY <1>2 DEF CallDequeue
<1>3. ASSUME NEW p \in Producers, Enqueue(p)
      PROVE  AssertsHold' /\ AdvanceInv'
  <2>1. CASE EnqueueTest(p)
    BY <2>1 DEF EnqueueTest
  <2>2. CASE EnqueueCopy(p)
    BY <2>2 DEF EnqueueCopy
  <2>3. CASE EnqueueAdvance(p)
    BY <2>3 DEF EnqueueAdvance
  <2>4. CASE EnqueueSignal(p)
    BY <2>4 DEF EnqueueSignal
  <2>5. QED
    BY <1>3, <2>1, <2>2, <2>3, <2>4 DEF Enqueue
<1>4. ASSUME NEW c \in Consumers, Dequeue(c)
      PROVE  AssertsHold' /\ AdvanceInv'
  <2>1. CASE DequeueTest(c)
    BY <2>1 DEF DequeueTest
  <2>2. CASE DequeueCopy(c)
    BY <2>2 DEF DequeueCopy
  <2>3. CASE DequeueAdvance(c)
    BY <2>3 DEF DequeueAdvance
  <2>4. CASE DequeueSignal(c)
    BY <2>4 DEF DequeueSignal
  <2>5. QED
    BY <1>4, <2>1, <2>2, <2>3, <2>4 DEF Dequeue
<1>5. ASSUME NEW t \in Threads, Common(t) PROVE AssertsHold' /\ AdvanceInv'
  BY <1>5 DEF Common, Lock, Wake, CheckTimeToDie, Unlock, Return
<1>6. ASSUME NEW t \in Threads, Timeout(t) PROVE AssertsHold' /\ AdvanceInv'
  BY <1>6 DEF Timeout
<1>7. CASE AskToDie
  BY <1>7 DEF AskToDie
<1>8. CASE UNCHANGED vars
  BY <1>8 DEF vars
<1>9. QED
  BY <1>1, <1>2, <1>3, <1>4, <1>5, <1>6, <1>7, <1>8 DEF Next, Terminated

(***************************************************************************)
(* The ring.  Only four steps touch it; the mutex keeps them apart.        *)
(***************************************************************************)

(* Two places of the ring that are less than Size apart are two slots.     *)
LEMMA SlotDistinct ==
  ASSUME nextout \in Indices, NEW j \in 0 .. Size - 1,
         NEW k \in 0 .. Size - 1, j # k
  PROVE  Slot(j) # Slot(k) /\ Slot(j) \in Indices
BY QueueAssumption DEF Slot, Indices

(* The thread that holds the mutex is the only one past its test.          *)
LEMMA DrawnByHolder ==
  ASSUME MutexInv, NEW p \in Producers, mutex = p, TypeOK
  PROVE  Drawn = IF pc[p] = "advance" THEN 1 ELSE 0
BY QueueAssumption DEF Drawn, MutexInv, Holding, Threads, TypeOK

(* Without a holder no ticket is drawn and not counted.                    *)
LEMMA DrawnByNone ==
  ASSUME MutexInv, TypeOK, mutex \notin Producers
  PROVE  Drawn = 0
BY QueueAssumption DEF Drawn, MutexInv, Holding, Threads, TypeOK

(* What leaves the ring and the set of producers in "advance" alone leaves *)
(* the invariant alone.                                                    *)
LEMMA RingFrame ==
  ASSUME RingConsistent, UNCHANGED ring,
         \A p \in Producers : pc'[p] = "advance" <=> pc[p] = "advance"
  PROVE  RingConsistent'
BY DEF RingConsistent, Slot, Drawn, ring

(* Copying fills the slot behind the occupied ones, counting makes it one  *)
(* of them, and the other slots stay what they were.                       *)
LEMMA RingStep == IInv /\ [Next]_vars => RingConsistent'
<1> SUFFICES ASSUME IInv, [Next]_vars PROVE RingConsistent'
  OBVIOUS
<1> USE QueueAssumption DEF IInv
<1>1. ASSUME NEW p \in Producers, CallEnqueue(p) PROVE RingConsistent'
  BY <1>1, RingFrame DEF CallEnqueue, GoTo, TypeOK, Threads
<1>2. ASSUME NEW c \in Consumers, CallDequeue(c) PROVE RingConsistent'
  BY <1>2, RingFrame DEF CallDequeue, GoTo, TypeOK, Threads
<1>3. ASSUME NEW p \in Producers, Enqueue(p) PROVE RingConsistent'
  <2>1. CASE EnqueueTest(p)
    BY <2>1, RingFrame DEF EnqueueTest, GoTo, TypeOK, Threads
  <2>2. CASE EnqueueCopy(p)
    <3>1. mutex = p /\ mutex' = p /\ Drawn = 0
      BY <2>2, DrawnByHolder DEF EnqueueCopy, MutexInv, Holding, Threads
    <3>2. Drawn' = 1
      BY <2>2 DEF EnqueueCopy, Drawn, GoTo, TypeOK, Threads
    <3>3. occupied \in 0 .. Size - 1
      BY <2>2 DEF EnqueueCopy, AssertsHold, TypeOK
    <3>4. \A k \in 0 .. Size - 1 : k < occupied => slots'[Slot(k)] = slots[Slot(k)]
      BY <2>2, <3>3, SlotDistinct DEF EnqueueCopy, RingConsistent, TypeOK
    <3>5. \A k : Slot(k)' = Slot(k)
      BY <2>2 DEF EnqueueCopy, Slot
    <3>6. ticketReq' = ticketReq + 1 /\ occupied' = occupied /\ nextin' = nextin
      BY <2>2 DEF EnqueueCopy
    <3>7. QED
      BY <3>1, <3>2, <3>3, <3>4, <3>5, <3>6 DEF RingConsistent, TypeOK
  <2>3. CASE EnqueueAdvance(p)
    <3>1. mutex = p /\ Drawn = 1
      BY <2>3, DrawnByHolder DEF EnqueueAdvance, MutexInv, Holding, Threads
    <3>2. Drawn' = 0
      BY <2>3, <3>1
         DEF EnqueueAdvance, Drawn, GoTo, MutexInv, Holding, TypeOK, Threads
    <3>3. occupied < Size /\ slots[nextin].ticket = ticketReq
      BY <2>3 DEF EnqueueAdvance, AdvanceInv
    <3>4. \A k : Slot(k)' = Slot(k)
      BY <2>3 DEF EnqueueAdvance, Slot
    <3>5. /\ nextin' = Succ(nextin)
          /\ occupied' = occupied + 1
          /\ UNCHANGED <<slots, ticketReq>>
      BY <2>3 DEF EnqueueAdvance
    <3>6. Succ(nextin) = Slot(occupied + 1)
      BY <3>3, SuccLemma DEF RingConsistent, Slot, TypeOK, Indices
    <3>7. \A k \in 0 .. Size - 1 : k < occupied + 1 =>
             slots[Slot(k)].ticket = ticketReq - (occupied + 1) + 1 + k
      BY <3>1, <3>3 DEF RingConsistent, TypeOK
    <3>8. QED
      BY <3>2, <3>4, <3>5, <3>6, <3>7 DEF RingConsistent, TypeOK
  <2>4. CASE EnqueueSignal(p)
    BY <2>4, RingFrame DEF EnqueueSignal, GoTo, TypeOK, Threads
  <2>5. QED
    BY <1>3, <2>1, <2>2, <2>3, <2>4 DEF Enqueue
<1>4. ASSUME NEW c \in Consumers, Dequeue(c) PROVE RingConsistent'
  <2>1. CASE DequeueTest(c)
    BY <2>1, RingFrame DEF DequeueTest, GoTo, TypeOK, Threads
  <2>2. CASE DequeueCopy(c)
    BY <2>2, RingFrame DEF DequeueCopy, GoTo, TypeOK, Threads
  <2>3. CASE DequeueAdvance(c)
    <3>1. mutex = c /\ c \notin Producers /\ Drawn = 0
      BY <2>3, DrawnByNone DEF DequeueAdvance, MutexInv, Holding, Threads
    <3>2. Drawn' = 0
      BY <2>3, <3>1
         DEF DequeueAdvance, Drawn, GoTo, MutexInv, Holding, TypeOK, Threads
    <3>3. occupied > 0
      BY <2>3 DEF DequeueAdvance, AdvanceInv
    <3>4. /\ nextout' = Succ(nextout)
          /\ occupied' = occupied - 1
          /\ UNCHANGED <<slots, nextin, ticketReq>>
      BY <2>3 DEF DequeueAdvance
    <3>5. \A k \in 0 .. Size - 1 : k < Size => Slot(k)' = Slot(k + 1)
      BY <3>4, SuccLemma DEF Slot, TypeOK, Indices
    <3>6. nextin' = Slot(occupied)'
      <4>1. occupied - 1 \in 0 .. Size - 1 /\ (occupied - 1) + 1 = occupied
        BY <3>3 DEF TypeOK
      <4>2. Slot(occupied)' = Slot(occupied)
        BY <3>3, <3>4, <3>5, <4>1 DEF Slot, TypeOK
      <4>3. QED
        BY <3>4, <4>2 DEF RingConsistent
    <3>7. \A k \in 0 .. Size - 1 : k < occupied - 1 =>
             slots[Slot(k + 1)].ticket = ticketReq - (occupied - 1) + 1 + k
      <4> SUFFICES ASSUME NEW k \in 0 .. Size - 1, k < occupied - 1
                   PROVE  slots[Slot(k + 1)].ticket
                            = ticketReq - (occupied - 1) + 1 + k
        OBVIOUS
      <4>1. k + 1 \in 0 .. Size - 1 /\ k + 1 < occupied
        BY DEF TypeOK
      <4>2. slots[Slot(k + 1)].ticket = ticketReq - 0 - occupied + 1 + (k + 1)
        BY <3>1, <4>1 DEF RingConsistent
      <4>3. QED
        BY <4>2 DEF TypeOK
    <3>8. QED
      BY <3>2, <3>4, <3>5, <3>6, <3>7 DEF RingConsistent, TypeOK
  <2>4. CASE DequeueSignal(c)
    BY <2>4, RingFrame DEF DequeueSignal, GoTo, TypeOK, Threads
  <2>5. QED
    BY <1>4, <2>1, <2>2, <2>3, <2>4 DEF Dequeue
<1>5. ASSUME NEW t \in Threads, Common(t) PROVE RingConsistent'
  BY <1>5, RingFrame
     DEF Common, Lock, Wake, CheckTimeToDie, Unlock, Return, GoTo, TypeOK,
         Threads
<1>6. ASSUME NEW t \in Threads, Timeout(t) PROVE RingConsistent'
  BY <1>6, RingFrame DEF Timeout
<1>7. CASE AskToDie
  BY <1>7, RingFrame DEF AskToDie
<1>8. CASE UNCHANGED vars
  BY <1>8, RingFrame DEF vars, ring
<1>9. QED
  BY <1>1, <1>2, <1>3, <1>4, <1>5, <1>6, <1>7, <1>8 DEF Next, Terminated

(***************************************************************************)
(* The theorems.                                                           *)
(***************************************************************************)

(* The invariant holds in every reachable state of the ready queue.        *)
THEOREM QueueInvariant == Spec => []IInv
<1>1. IInv /\ [Next]_vars => IInv'
  BY TypeStep, MutexStep, TestStep, RingStep DEF IInv
<1>2. QED
  BY InitIInv, <1>1, PTL DEF Spec

(* Every variable of chronos_queue_t and of its callers keeps its type; in *)
(* particular occupied stays between 0 and CHRONOS_READY_QUEUE_SIZE.       *)
THEOREM QueueTypes == Spec => []TypeOK
BY QueueInvariant, PTL DEF IInv

(* The assertions at lines 35 and 88 of chronos_queue.c never fail.        *)
THEOREM QueueAsserts == Spec => []AssertsHold
BY QueueInvariant, PTL DEF IInv

(* The comments at lines 42 and 102 of chronos_queue.c are right about the *)
(* indices, and the ring holds consecutive tickets in order.               *)
THEOREM QueueRing == Spec => []RingConsistent
BY QueueInvariant, PTL DEF IInv

(***************************************************************************)
(* Wake-ups: the awake and the signalling threads are counted step by      *)
(* step.                                                                   *)
(***************************************************************************)

(* A thread in a wait set is in pthread_cond_timedwait.                    *)
WaitersWait == \A t \in more \cup less : pc[t] = "wait"

WakeInv == WaitersWait /\ NoLostWakeup

AwakeIn(T) == {t \in T : Awake(t)}

(* Counting a set that loses or gains at most one element.                 *)
LEMMA CountOne ==
  ASSUME NEW S, IsFiniteSet(S), NEW X \in SUBSET S, NEW Y \in SUBSET S,
         NEW t, X \ {t} = Y \ {t}
  PROVE  /\ Cardinality(X) \in Nat /\ Cardinality(Y) \in Nat
         /\ t \in X /\ t \in Y => Cardinality(Y) = Cardinality(X)
         /\ t \notin X /\ t \notin Y => Cardinality(Y) = Cardinality(X)
         /\ t \in X /\ t \notin Y => Cardinality(Y) = Cardinality(X) - 1
         /\ t \notin X /\ t \in Y => Cardinality(Y) = Cardinality(X) + 1
<1>1. IsFiniteSet(X) /\ IsFiniteSet(Y)
  BY FS_Subset
<1>2. Cardinality(X) \in Nat /\ Cardinality(Y) \in Nat
  BY <1>1, FS_CardinalityType
<1>3. /\ Cardinality(X \ {t}) = IF t \in X THEN Cardinality(X) - 1
                                          ELSE Cardinality(X)
      /\ Cardinality(Y \ {t}) = IF t \in Y THEN Cardinality(Y) - 1
                                          ELSE Cardinality(Y)
  BY <1>1, FS_RemoveElement
<1>4. QED
  BY <1>2, <1>3

(* The sets NoLostWakeup counts are finite.                                *)
LEMMA CountsAreNumbers ==
  /\ Cardinality(AwakeIn(Consumers)) \in Nat
  /\ Cardinality(AwakeIn(Producers)) \in Nat
  /\ Cardinality(Signalling(Consumers)) \in Nat
  /\ Cardinality(Signalling(Producers)) \in Nat
<1>1. /\ AwakeIn(Consumers) \in SUBSET Consumers
      /\ AwakeIn(Producers) \in SUBSET Producers
      /\ Signalling(Consumers) \in SUBSET Consumers
      /\ Signalling(Producers) \in SUBSET Producers
  BY DEF AwakeIn, Signalling
<1>2. QED
  BY <1>1, QueueAssumption, CountOne

LEMMA WakeCases ==
  NoLostWakeup <=>
    (~timeToDie =>
       /\ more # {} => occupied <= Cardinality(AwakeIn(Consumers))
                                   + Cardinality(Signalling(Producers))
       /\ less # {} => Size - occupied <= Cardinality(AwakeIn(Producers))
                                          + Cardinality(Signalling(Consumers)))
BY DEF NoLostWakeup, AwakeIn

LEMMA WakeCasesNext ==
  NoLostWakeup' <=>
    (~timeToDie' =>
       /\ more' # {} => occupied' <= Cardinality(AwakeIn(Consumers)')
                                     + Cardinality(Signalling(Producers)')
       /\ less' # {} => Size - occupied' <= Cardinality(AwakeIn(Producers)')
                                            + Cardinality(Signalling(Consumers)'))
BY DEF NoLostWakeup, AwakeIn

(* A step of one thread changes only what is said of that thread.          *)
Alone(t) == \A u \in Threads : u # t =>
    /\ pc'[u] = pc[u]
    /\ u \in more' <=> u \in more
    /\ u \in less' <=> u \in less

LEMMA AloneSets ==
  ASSUME NEW t \in Threads, Alone(t)
  PROVE  /\ AwakeIn(Consumers) \ {t} = AwakeIn(Consumers)' \ {t}
         /\ AwakeIn(Producers) \ {t} = AwakeIn(Producers)' \ {t}
         /\ Signalling(Consumers) \ {t} = Signalling(Consumers)' \ {t}
         /\ Signalling(Producers) \ {t} = Signalling(Producers)' \ {t}
BY DEF Alone, AwakeIn, Awake, Signalling, Threads

(* What such a step does to the four counts.                               *)
LEMMA AloneCounts ==
  ASSUME NEW t \in Threads, Alone(t), NEW T, T = Consumers \/ T = Producers
  PROVE  /\ t \notin T \/ (Awake(t) <=> Awake(t)')
            => Cardinality(AwakeIn(T)') = Cardinality(AwakeIn(T))
         /\ t \in T /\ Awake(t) /\ ~Awake(t)'
            => Cardinality(AwakeIn(T)') = Cardinality(AwakeIn(T)) - 1
         /\ t \in T /\ ~Awake(t) /\ Awake(t)'
            => Cardinality(AwakeIn(T)') = Cardinality(AwakeIn(T)) + 1
         /\ t \notin T \/ (pc[t] = "signal" <=> pc'[t] = "signal")
            => Cardinality(Signalling(T)') = Cardinality(Signalling(T))
         /\ t \in T /\ pc[t] # "signal" /\ pc'[t] = "signal"
            => Cardinality(Signalling(T)') = Cardinality(Signalling(T)) + 1
         /\ t \in T /\ pc[t] = "signal" /\ pc'[t] # "signal"
            => Cardinality(Signalling(T)') = Cardinality(Signalling(T)) - 1
<1>1. /\ AwakeIn(T) \in SUBSET T /\ AwakeIn(T)' \in SUBSET T
      /\ Signalling(T) \in SUBSET T /\ Signalling(T)' \in SUBSET T
      /\ IsFiniteSet(T)
  BY QueueAssumption DEF AwakeIn, Signalling
<1>2. /\ t \in AwakeIn(T) <=> t \in T /\ Awake(t)
      /\ t \in AwakeIn(T)' <=> t \in T /\ Awake(t)'
      /\ t \in Signalling(T) <=> t \in T /\ pc[t] = "signal"
      /\ t \in Signalling(T)' <=> t \in T /\ pc'[t] = "signal"
  BY DEF AwakeIn, Signalling
<1>3. /\ AwakeIn(T) \ {t} = AwakeIn(T)' \ {t}
      /\ Signalling(T) \ {t} = Signalling(T)' \ {t}
  BY AloneSets
<1>4. QED
  BY <1>1, <1>2, <1>3, CountOne

(* Steps that take no thread from those that are awake or about to signal. *)
LEMMA QuietStep ==
  ASSUME TypeOK, NoLostWakeup, NEW t \in Threads, Alone(t),
         UNCHANGED <<occupied, timeToDie>>,
         more' \subseteq more, less' \subseteq less,
         Awake(t) => Awake(t)', pc[t] # "signal"
  PROVE  NoLostWakeup'
<1>1. ASSUME NEW T, T = Consumers \/ T = Producers
      PROVE  /\ Cardinality(AwakeIn(T)') >= Cardinality(AwakeIn(T))
             /\ Cardinality(Signalling(T)') >= Cardinality(Signalling(T))
  <2>1. Cardinality(AwakeIn(T)) \in Nat /\ Cardinality(Signalling(T)) \in Nat
    BY <1>1, CountsAreNumbers
  <2>2. Cardinality(AwakeIn(T)') >= Cardinality(AwakeIn(T))
    BY <1>1, <2>1, AloneCounts
  <2>3. Cardinality(Signalling(T)') >= Cardinality(Signalling(T))
    BY <1>1, <2>1, AloneCounts
  <2>4. QED
    BY <2>2, <2>3
<1>2. /\ Cardinality(AwakeIn(Consumers)') \in Int
      /\ Cardinality(AwakeIn(Producers)') \in Int
      /\ Cardinality(Signalling(Consumers)') \in Int
      /\ Cardinality(Signalling(Producers)') \in Int
  BY CountsAreNumbers, AloneCounts
<1>3. occupied \in Int /\ Size \in Int
  BY QueueAssumption DEF TypeOK
<1>4. more' # {} => more # {}
  OBVIOUS
<1>5. less' # {} => less # {}
  OBVIOUS
<1>6. /\ Cardinality(AwakeIn(Consumers)') >= Cardinality(AwakeIn(Consumers))
      /\ Cardinality(AwakeIn(Producers)') >= Cardinality(AwakeIn(Producers))
      /\ Cardinality(Signalling(Consumers)')
            >= Cardinality(Signalling(Consumers))
      /\ Cardinality(Signalling(Producers)')
            >= Cardinality(Signalling(Producers))
  BY <1>1
<1>7. ASSUME ~timeToDie'
      PROVE  /\ more' # {} => occupied' <= Cardinality(AwakeIn(Consumers)')
                                     + Cardinality(Signalling(Producers)')
             /\ less' # {} => Size - occupied' <=
                   Cardinality(AwakeIn(Producers)')
                   + Cardinality(Signalling(Consumers)')
  <2>1. /\ more # {} => occupied <= Cardinality(AwakeIn(Consumers))
                                   + Cardinality(Signalling(Producers))
        /\ less # {} => Size - occupied <= Cardinality(AwakeIn(Producers))
                                          + Cardinality(Signalling(Consumers))
    BY <1>7, WakeCases
  <2>2. QED
    BY <1>2, <1>3, <1>4, <1>5, <1>6, <2>1, CountsAreNumbers
<1>8. QED
  BY <1>7, WakeCasesNext

(* A producer waits for room only when there is none, a consumer for a     *)
(* transaction only when there is none.                                    *)
LEMMA WaitStep ==
  ASSUME IInv, WakeInv, NEW t \in Threads,
         \/ t \in Producers /\ EnqueueTest(t)
         \/ t \in Consumers /\ DequeueTest(t)
  PROVE  NoLostWakeup'
<1> USE QueueAssumption DEF IInv, TypeOK, Threads, GoTo, WakeInv, WaitersWait,
        ring
<1>1. pc[t] = "test" /\ Alone(t) /\ Awake(t) /\ UNCHANGED <<occupied, timeToDie>>
  BY DEF EnqueueTest, DequeueTest, Alone, Awake
<1>2. CASE pc'[t] = "copy"
  <2>1. more' = more /\ less' = less /\ Awake(t)'
    BY <1>2 DEF EnqueueTest, DequeueTest, Awake
  <2>2. QED
    BY <1>1, <2>1, QuietStep
<1>3. CASE t \in Producers /\ pc'[t] = "wait"
  <2>1. occupied = Size /\ more' = more /\ EnqueueTest(t)
    BY <1>3 DEF EnqueueTest, DequeueTest
  <2>2. Cardinality(AwakeIn(Consumers)') = Cardinality(AwakeIn(Consumers))
    BY <1>1, <1>3, AloneCounts
  <2>3. /\ Cardinality(Signalling(Producers)')
              = Cardinality(Signalling(Producers))
        /\ Cardinality(Signalling(Consumers)')
              = Cardinality(Signalling(Consumers))
    BY <1>1, <1>3, AloneCounts
  <2>4. Cardinality(AwakeIn(Producers)') \in Nat
    BY <1>1, <1>3, AloneCounts, QueueAssumption, FS_CardinalityType, FS_Subset
       DEF AwakeIn
  <2>5. ASSUME ~timeToDie'
        PROVE  /\ more' # {} => occupied' <= Cardinality(AwakeIn(Consumers)')
                                     + Cardinality(Signalling(Producers)')
               /\ Size - occupied' <= Cardinality(AwakeIn(Producers)')
                                     + Cardinality(Signalling(Consumers)')
    BY <1>1, <2>1, <2>2, <2>3, <2>4, <2>5, WakeCases, CountsAreNumbers
  <2>6. QED
    BY <2>5, WakeCasesNext
<1>4. CASE t \in Consumers /\ pc'[t] = "wait"
  <2>1. occupied = 0 /\ less' = less /\ DequeueTest(t)
    BY <1>4 DEF EnqueueTest, DequeueTest
  <2>2. Cardinality(AwakeIn(Producers)') = Cardinality(AwakeIn(Producers))
    BY <1>1, <1>4, AloneCounts
  <2>3. /\ Cardinality(Signalling(Producers)')
              = Cardinality(Signalling(Producers))
        /\ Cardinality(Signalling(Consumers)')
              = Cardinality(Signalling(Consumers))
    BY <1>1, <1>4, AloneCounts
  <2>4. Cardinality(AwakeIn(Consumers)') \in Nat
    BY QueueAssumption, FS_CardinalityType, FS_Subset DEF AwakeIn
  <2>5. ASSUME ~timeToDie'
        PROVE  /\ occupied' <= Cardinality(AwakeIn(Consumers)')
                                     + Cardinality(Signalling(Producers)')
               /\ less' # {} => Size - occupied' <=
                                     Cardinality(AwakeIn(Producers)')
                                     + Cardinality(Signalling(Consumers)')
    BY <1>1, <2>1, <2>2, <2>3, <2>4, <2>5, WakeCases, CountsAreNumbers
  <2>6. QED
    BY <2>5, WakeCasesNext
<1>5. QED
  BY <1>1, <1>2, <1>3, <1>4 DEF EnqueueTest, DequeueTest

(* A thread that counts its slot takes one slot from the other side, gives *)
(* it one to wake up for, and is going to signal that.                     *)
LEMMA CountStep ==
  ASSUME IInv, WakeInv, NEW t \in Threads,
         \/ t \in Producers /\ EnqueueAdvance(t)
         \/ t \in Consumers /\ DequeueAdvance(t)
  PROVE  NoLostWakeup'
<1> USE QueueAssumption DEF IInv, TypeOK, Threads, GoTo, WakeInv, conds
<1>1. /\ pc[t] = "advance" /\ pc'[t] = "signal"
      /\ Alone(t) /\ Awake(t) /\ ~Awake(t)'
      /\ UNCHANGED <<more, less, timeToDie>>
  BY DEF EnqueueAdvance, DequeueAdvance, Alone, Awake
<1>2. CASE t \in Producers
  <2>1. occupied' = occupied + 1 /\ occupied \in Int /\ Size \in Int
    BY <1>2 DEF EnqueueAdvance
  <2>2. /\ Cardinality(AwakeIn(Consumers)') = Cardinality(AwakeIn(Consumers))
        /\ Cardinality(AwakeIn(Producers)')
              = Cardinality(AwakeIn(Producers)) - 1
        /\ Cardinality(Signalling(Producers)')
              = Cardinality(Signalling(Producers)) + 1
        /\ Cardinality(Signalling(Consumers)')
              = Cardinality(Signalling(Consumers))
    BY <1>1, <1>2, AloneCounts
  <2>3. ASSUME ~timeToDie'
        PROVE  /\ more' # {} => occupied' <= Cardinality(AwakeIn(Consumers)')
                                     + Cardinality(Signalling(Producers)')
               /\ less' # {} => Size - occupied' <=
                                     Cardinality(AwakeIn(Producers)')
                                     + Cardinality(Signalling(Consumers)')
    BY <1>1, <2>1, <2>2, <2>3, WakeCases, CountsAreNumbers
  <2>4. QED
    BY <2>3, WakeCasesNext
<1>3. CASE t \in Consumers
  <2>1. occupied' = occupied - 1 /\ occupied \in Int /\ Size \in Int
    BY <1>3 DEF DequeueAdvance
  <2>2. /\ Cardinality(AwakeIn(Consumers)')
              = Cardinality(AwakeIn(Consumers)) - 1
        /\ Cardinality(AwakeIn(Producers)') = Cardinality(AwakeIn(Producers))
        /\ Cardinality(Signalling(Producers)')
              = Cardinality(Signalling(Producers))
        /\ Cardinality(Signalling(Consumers)')
              = Cardinality(Signalling(Consumers)) + 1
    BY <1>1, <1>3, AloneCounts
  <2>3. ASSUME ~timeToDie'
        PROVE  /\ more' # {} => occupied' <= Cardinality(AwakeIn(Consumers)')
                                     + Cardinality(Signalling(Producers)')
               /\ less' # {} => Size - occupied' <=
                                     Cardinality(AwakeIn(Producers)')
                                     + Cardinality(Signalling(Consumers)')
    BY <1>1, <2>1, <2>2, <2>3, WakeCases, CountsAreNumbers
  <2>4. QED
    BY <2>3, WakeCasesNext
<1>4. QED
  BY <1>2, <1>3

(* A signal makes a sleeper awake, if there is one.                        *)
LEMMA SignalStep ==
  ASSUME IInv, WakeInv, NEW t \in Threads,
         \/ t \in Producers /\ EnqueueSignal(t)
         \/ t \in Consumers /\ DequeueSignal(t)
  PROVE  NoLostWakeup'
<1> USE QueueAssumption DEF IInv, TypeOK, Threads, GoTo, WakeInv, ring
<1>1. /\ pc[t] = "signal" /\ pc'[t] = "unlock"
      /\ \A u \in Threads : u # t => pc'[u] = pc[u]
      /\ UNCHANGED <<occupied, timeToDie>>
      /\ occupied \in Int /\ Size \in Int
  BY DEF EnqueueSignal, DequeueSignal
<1>2. CASE t \in Producers
  <2>1. less' = less /\ EnqueueSignal(t)
    BY <1>2 DEF EnqueueSignal, DequeueSignal
  <2>2. /\ AwakeIn(Producers)' = AwakeIn(Producers)
        /\ Signalling(Consumers)' = Signalling(Consumers)
    <3>1. \A u \in Producers : u \notin more /\ u \notin more'
      BY <2>1 DEF EnqueueSignal
    <3>2. \A u \in Producers : Awake(u)' <=> Awake(u)
      BY <1>1, <2>1, <3>1 DEF Awake
    <3>3. QED
      BY <1>1, <1>2, <3>2 DEF AwakeIn, Signalling
  <2>3. Cardinality(Signalling(Producers)')
           = Cardinality(Signalling(Producers)) - 1
    <3>1. /\ Signalling(Producers) \in SUBSET Producers
          /\ Signalling(Producers)' \in SUBSET Producers
          /\ Signalling(Producers) \ {t} = Signalling(Producers)' \ {t}
          /\ t \in Signalling(Producers) /\ t \notin Signalling(Producers)'
      BY <1>1, <1>2 DEF Signalling
    <3>2. QED
      BY <3>1, CountOne
  <2>4. CASE more' = {}
    <3>1. ASSUME ~timeToDie', less' # {}
          PROVE  Size - occupied' <= Cardinality(AwakeIn(Producers)')
                                     + Cardinality(Signalling(Consumers)')
      BY <1>1, <2>1, <2>2, <3>1, WakeCases
    <3>2. QED
      BY <2>4, <3>1, WakeCasesNext
  <2>5. CASE more' # {}
    <3>1. PICK c \in more : more' = more \ {c}
      BY <2>1, <2>5 DEF EnqueueSignal
    <3>2. c \in Consumers /\ c # t /\ pc[c] = "wait" /\ pc'[c] = "wait"
      BY <1>1, <1>2, <3>1 DEF WaitersWait
    <3>3. ~Awake(c) /\ Awake(c)'
      BY <2>1, <3>1, <3>2 DEF Awake
    <3>4. \A u \in Consumers : u # c => (Awake(u)' <=> Awake(u))
      BY <1>1, <1>2, <2>1, <3>1 DEF Awake
    <3>5. Cardinality(AwakeIn(Consumers)')
             = Cardinality(AwakeIn(Consumers)) + 1
      <4>1. /\ AwakeIn(Consumers) \in SUBSET Consumers
            /\ AwakeIn(Consumers)' \in SUBSET Consumers
            /\ AwakeIn(Consumers) \ {c} = AwakeIn(Consumers)' \ {c}
            /\ c \notin AwakeIn(Consumers) /\ c \in AwakeIn(Consumers)'
        BY <3>2, <3>3, <3>4 DEF AwakeIn
      <4>2. QED
        BY <4>1, CountOne
    <3>6. ASSUME ~timeToDie'
          PROVE  /\ occupied' <= Cardinality(AwakeIn(Consumers)')
                                       + Cardinality(Signalling(Producers)')
                 /\ less' # {} => Size - occupied' <=
                                       Cardinality(AwakeIn(Producers)')
                                       + Cardinality(Signalling(Consumers)')
      BY <1>1, <2>1, <2>2, <2>3, <3>1, <3>5, <3>6, WakeCases, CountsAreNumbers
    <3>7. QED
      BY <3>6, WakeCasesNext
  <2>6. QED
    BY <2>4, <2>5
<1>3. CASE t \in Consumers
  <2>1. more' = more /\ DequeueSignal(t)
    BY <1>3 DEF EnqueueSignal, DequeueSignal
  <2>2. /\ AwakeIn(Consumers)' = AwakeIn(Consumers)
        /\ Signalling(Producers)' = Signalling(Producers)
    <3>1. \A u \in Consumers : u \notin less /\ u \notin less'
      BY <2>1 DEF DequeueSignal
    <3>2. \A u \in Consumers : Awake(u)' <=> Awake(u)
      BY <1>1, <2>1, <3>1 DEF Awake
    <3>3. QED
      BY <1>1, <1>3, <3>2 DEF AwakeIn, Signalling
  <2>3. Cardinality(Signalling(Consumers)')
           = Cardinality(Signalling(Consumers)) - 1
    <3>1. /\ Signalling(Consumers) \in SUBSET Consumers
          /\ Signalling(Consumers)' \in SUBSET Consumers
          /\ Signalling(Consumers) \ {t} = Signalling(Consumers)' \ {t}
          /\ t \in Signalling(Consumers) /\ t \notin Signalling(Consumers)'
      BY <1>1, <1>3 DEF Signalling
    <3>2. QED
      BY <3>1, CountOne
  <2>4. CASE less' = {}
    <3>1. ASSUME ~timeToDie', more' # {}
          PROVE  occupied' <= Cardinality(AwakeIn(Consumers)')
                              + Cardinality(Signalling(Producers)')
      BY <1>1, <2>1, <2>2, <3>1, WakeCases
    <3>2. QED
      BY <2>4, <3>1, WakeCasesNext
  <2>5. CASE less' # {}
    <3>1. PICK p \in less : less' = less \ {p}
      BY <2>1, <2>5 DEF DequeueSignal
    <3>2. p \in Producers /\ p # t /\ pc[p] = "wait" /\ pc'[p] = "wait"
      BY <1>1, <1>3, <3>1 DEF WaitersWait
    <3>3. ~Awake(p) /\ Awake(p)'
      BY <2>1, <3>1, <3>2 DEF Awake
    <3>4. \A u \in Producers : u # p => (Awake(u)' <=> Awake(u))
      BY <1>1, <1>3, <2>1, <3>1 DEF Awake
    <3>5. Cardinality(AwakeIn(Producers)')
             = Cardinality(AwakeIn(Producers)) + 1
      <4>1. /\ AwakeIn(Producers) \in SUBSET Producers
            /\ AwakeIn(Producers)' \in SUBSET Producers
            /\ AwakeIn(Producers) \ {p} = AwakeIn(Producers)' \ {p}
            /\ p \notin AwakeIn(Producers) /\ p \in AwakeIn(Producers)'
        BY <3>2, <3>3, <3>4 DEF AwakeIn
      <4>2. QED
        BY <4>1, CountOne
    <3>6. ASSUME ~timeToDie'
          PROVE  /\ more' # {} => occupied' <= Cardinality(AwakeIn(Consumers)')
                                       + Cardinality(Signalling(Producers)')
                 /\ Size - occupied' <= Cardinality(AwakeIn(Producers)')
                                       + Cardinality(Signalling(Consumers)')
      BY <1>1, <2>1, <2>2, <2>3, <3>1, <3>5, <3>6, WakeCases, CountsAreNumbers
    <3>7. QED
      BY <3>6, WakeCasesNext
  <2>6. QED
    BY <2>4, <2>5
<1>4. QED
  BY <1>2, <1>3

(* A thread enters a wait set as it starts to wait and is out of it when   *)
(* it goes on.                                                             *)
LEMMA WaitersStep == IInv /\ WaitersWait /\ [Next]_vars => WaitersWait'
<1> SUFFICES ASSUME IInv, WaitersWait, [Next]_vars PROVE WaitersWait'
  OBVIOUS
<1> USE QueueAssumption DEF IInv, TypeOK, Threads, GoTo, WaitersWait, conds
<1>1. ASSUME NEW p \in Producers, CallEnqueue(p) \/ Enqueue(p)
      PROVE  WaitersWait'
  BY <1>1 DEF CallEnqueue, Enqueue, EnqueueTest, EnqueueCopy, EnqueueAdvance,
              EnqueueSignal
<1>2. ASSUME NEW c \in Consumers, CallDequeue(c) \/ Dequeue(c)
      PROVE  WaitersWait'
  BY <1>2 DEF CallDequeue, Dequeue, DequeueTest, DequeueCopy, DequeueAdvance,
              DequeueSignal
<1>3. ASSUME NEW t \in Threads, Common(t) \/ Timeout(t) PROVE WaitersWait'
  BY <1>3 DEF Common, Lock, Wake, CheckTimeToDie, Unlock, Return, Timeout
<1>4. CASE AskToDie \/ UNCHANGED vars
  BY <1>4 DEF AskToDie, vars
<1>5. QED
  BY <1>1, <1>2, <1>3, <1>4 DEF Next, Terminated

(* No other step matters.                                                  *)
LEMMA WakeStep == IInv /\ WakeInv /\ [Next]_vars => WakeInv'
<1> SUFFICES ASSUME IInv, WakeInv, [Next]_vars PROVE NoLostWakeup'
  BY WaitersStep DEF WakeInv
<1>0. /\ \A p \in Producers : EnqueueTest(p) \/ EnqueueAdvance(p)
                              \/ EnqueueSignal(p) => NoLostWakeup'
      /\ \A c \in Consumers : DequeueTest(c) \/ DequeueAdvance(c)
                              \/ DequeueSignal(c) => NoLostWakeup'
  <2>1. Producers \subseteq Threads /\ Consumers \subseteq Threads
    BY DEF Threads
  <2>2. ASSUME NEW p \in Producers, EnqueueTest(p) PROVE NoLostWakeup'
    BY <2>1, <2>2, WaitStep
  <2>3. ASSUME NEW p \in Producers PROVE EnqueueAdvance(p) => NoLostWakeup'
    BY <2>1, CountStep
  <2>4. ASSUME NEW p \in Producers PROVE EnqueueSignal(p) => NoLostWakeup'
    BY <2>1, SignalStep
  <2>5. ASSUME NEW c \in Consumers PROVE DequeueTest(c) => NoLostWakeup'
    BY <2>1, WaitStep
  <2>6. ASSUME NEW c \in Consumers PROVE DequeueAdvance(c) => NoLostWakeup'
    BY <2>1, CountStep
  <2>7. ASSUME NEW c \in Consumers PROVE DequeueSignal(c) => NoLostWakeup'
    BY <2>1, SignalStep
  <2>8. QED
    BY <2>2, <2>3, <2>4, <2>5, <2>6, <2>7
<1> USE QueueAssumption DEF IInv, TypeOK, Threads, GoTo, WakeInv, WaitersWait,
        ring, conds
<1>1. ASSUME NEW p \in Producers, CallEnqueue(p) \/ Enqueue(p)
      PROVE  NoLostWakeup'
  <2>1. CASE CallEnqueue(p) \/ EnqueueCopy(p)
    <3>1. /\ Alone(p) /\ (Awake(p) => Awake(p)') /\ pc[p] # "signal"
          /\ UNCHANGED <<occupied, timeToDie, more, less>>
      BY <2>1 DEF CallEnqueue, EnqueueCopy, Alone, Awake
    <3>2. QED
      BY <3>1, QuietStep
  <2>2. QED
    BY <1>0, <1>1, <2>1 DEF Enqueue
<1>2. ASSUME NEW c \in Consumers, CallDequeue(c) \/ Dequeue(c)
      PROVE  NoLostWakeup'
  <2>1. CASE CallDequeue(c) \/ DequeueCopy(c)
    <3>1. /\ Alone(c) /\ (Awake(c) => Awake(c)') /\ pc[c] # "signal"
          /\ UNCHANGED <<occupied, timeToDie, more, less>>
      BY <2>1 DEF CallDequeue, DequeueCopy, Alone, Awake
    <3>2. QED
      BY <3>1, QuietStep
  <2>2. QED
    BY <1>0, <1>2, <2>1 DEF Dequeue
<1>3. ASSUME NEW t \in Threads, Common(t) \/ Timeout(t) PROVE NoLostWakeup'
  <2>1. /\ Alone(t) /\ pc[t] # "signal"
        /\ UNCHANGED <<occupied, timeToDie>>
        /\ more' \subseteq more /\ less' \subseteq less
    BY <1>3 DEF Common, Lock, Wake, CheckTimeToDie, Unlock, Return, Timeout,
                Alone
  <2>2. timeToDie \/ (Awake(t) => Awake(t)')
    BY <1>3 DEF Common, Lock, Wake, CheckTimeToDie, Unlock, Return, Timeout,
                Awake
  <2>3. CASE timeToDie
    BY <2>1, <2>3 DEF NoLostWakeup
  <2>4. CASE Awake(t) => Awake(t)'
    BY <2>1, <2>4, QuietStep
  <2>5. QED
    BY <2>2, <2>3, <2>4
<1>4. CASE AskToDie
  BY <1>4 DEF AskToDie, NoLostWakeup
<1>5. CASE UNCHANGED vars
  BY <1>5 DEF vars, NoLostWakeup, Awake, Signalling
<1>6. QED
  BY <1>1, <1>2, <1>3, <1>4, <1>5 DEF Next, Terminated

(* While a thread sleeps on a condition variable, there is a thread awake  *)
(* or a signal on its way for everything it could be woken for, although a *)
(* signal releases one waiter and another thread may overtake it.          *)
THEOREM QueueWakesUp == Spec => []NoLostWakeup
<1>1. Init => WakeInv
  BY DEF Init, WakeInv, WaitersWait, NoLostWakeup
<1>2. WakeInv => NoLostWakeup
  BY DEF WakeInv
<1>3. QED
  BY <1>1, <1>2, WakeStep, QueueInvariant, PTL DEF Spec

(***************************************************************************)
(* The ring implements the FIFO of TxnFifo.                                *)
(***************************************************************************)

(* What a call has in hand while it is on its way.                         *)
CallInv == \A t \in Threads :
    /\ pc[t] \in {"lock", "test", "wait", "check", "copy"} =>
          result[t] = Nothing
    /\ pc[t] \notin {"idle", "return", "done"} => rc[t] = "success"
    /\ t \in Consumers /\ pc[t] = "advance" => result[t] = slots[nextout]
    /\ t \in Producers /\ pc[t] = "advance" =>
          /\ result[t] = [txn |-> arg[t], ticket |-> ticketReq]
          /\ slots[nextin] = result[t]

LEMMA CallStep == IInv /\ CallInv /\ [Next]_vars => CallInv'
<1> SUFFICES ASSUME IInv, CallInv, [Next]_vars PROVE CallInv'
  OBVIOUS
<1> USE QueueAssumption DEF IInv, TypeOK, Threads, GoTo, CallInv, ring, conds,
        Labels
<1>1. ASSUME NEW p \in Producers, CallEnqueue(p) PROVE CallInv'
  BY <1>1 DEF CallEnqueue
<1>2. ASSUME NEW c \in Consumers, CallDequeue(c) PROVE CallInv'
  BY <1>2 DEF CallDequeue
<1>3. ASSUME NEW p \in Producers, Enqueue(p) PROVE CallInv'
  <2>1. CASE EnqueueTest(p)
    BY <2>1 DEF EnqueueTest
  <2>2. CASE EnqueueCopy(p)
    <3>1. \A t \in Threads : pc[t] = "advance" => FALSE
      BY <2>2 DEF EnqueueCopy, MutexInv, Holding
    <3>2. slots'[nextin] = [txn |-> arg[p], ticket |-> ticketReq + 1]
      BY <2>2 DEF EnqueueCopy
    <3>3. QED
      BY <2>2, <3>1, <3>2 DEF EnqueueCopy
  <2>3. CASE EnqueueAdvance(p)
    <3>1. \A t \in Threads : t # p => pc[t] # "advance"
      BY <2>3 DEF EnqueueAdvance, MutexInv, Holding
    <3>2. QED
      BY <2>3, <3>1 DEF EnqueueAdvance
  <2>4. CASE EnqueueSignal(p)
    BY <2>4 DEF EnqueueSignal
  <2>5. QED
    BY <1>3, <2>1, <2>2, <2>3, <2>4 DEF Enqueue
<1>4. ASSUME NEW c \in Consumers, Dequeue(c) PROVE CallInv'
  <2>1. CASE DequeueTest(c)
    BY <2>1 DEF DequeueTest
  <2>2. CASE DequeueCopy(c)
    BY <2>2 DEF DequeueCopy
  <2>3. CASE DequeueAdvance(c)
    <3>1. \A t \in Threads : t # c => pc[t] # "advance"
      BY <2>3 DEF DequeueAdvance, MutexInv, Holding
    <3>2. QED
      BY <2>3, <3>1 DEF DequeueAdvance
  <2>4. CASE DequeueSignal(c)
    BY <2>4 DEF DequeueSignal
  <2>5. QED
    BY <1>4, <2>1, <2>2, <2>3, <2>4 DEF Dequeue
<1>5. ASSUME NEW t \in Threads, Common(t) PROVE CallInv'
  BY <1>5 DEF Common, Lock, Wake, CheckTimeToDie, Unlock, Return
<1>6. ASSUME NEW t \in Threads, Timeout(t) PROVE CallInv'
  BY <1>6 DEF Timeout
<1>7. CASE AskToDie
  BY <1>7 DEF AskToDie
<1>8. CASE UNCHANGED vars
  BY <1>8 DEF vars
<1>9. QED
  BY <1>1, <1>2, <1>3, <1>4, <1>5, <1>6, <1>7, <1>8 DEF Next, Terminated

THEOREM CallInvariant == Spec => []CallInv
<1>1. Init => CallInv
  BY DEF Init, CallInv, Threads
<1>2. QED
  BY <1>1, CallStep, QueueInvariant, PTL DEF Spec

(* The abstract variables, under names of their own.                       *)
AbsFifo == [k \in 1 .. occupied |-> slots[Slot(k - 1)]]
AbsIssued == ticketReq - Drawn
AbsCalls == [t \in Threads |-> AbsCall(t)]
AbsResult == [t \in Threads |-> IF pc[t] = "advance" THEN Nothing
                                                     ELSE result[t]]
absVars == <<AbsFifo, AbsIssued, submitted, timeToDie, AbsCalls, arg,
             AbsResult>>

(* The contents of the ring are a sequence of entries.                     *)
LEMMA AbsFifoType ==
  ASSUME TypeOK
  PROVE  /\ AbsFifo \in Seq(Entries) /\ Len(AbsFifo) = occupied
         /\ DOMAIN AbsFifo = 1 .. occupied
         /\ \A k \in 1 .. occupied : AbsFifo[k] = slots[Slot(k - 1)]
<1>1. \A k \in 1 .. occupied : slots[Slot(k - 1)] \in Entries
  BY QueueAssumption DEF TypeOK, Slot, Indices
<1>2. occupied \in Nat
  BY QueueAssumption DEF TypeOK
<1>3. QED
  BY <1>1, <1>2 DEF AbsFifo

(* What AbsCall is where.                                                  *)
LEMMA AbsCallCases ==
  ASSUME NEW t \in Threads
  PROVE  /\ pc[t] = "idle" => AbsCall(t) = "idle"
         /\ pc[t] = "done" => AbsCall(t) = "done"
         /\ pc[t] \in {"lock", "test", "wait", "check", "copy", "advance"} =>
               AbsCall(t) = "pending"
         /\ pc[t] \in {"signal", "unlock", "return"} =>
               AbsCall(t) = IF rc[t] = "fail" THEN "fail" ELSE "success"
BY DEF AbsCall

LEMMA AbsCallCasesNext ==
  ASSUME NEW t \in Threads
  PROVE  /\ pc'[t] = "idle" => AbsCall(t)' = "idle"
         /\ pc'[t] = "done" => AbsCall(t)' = "done"
         /\ pc'[t] \in {"lock", "test", "wait", "check", "copy", "advance"} =>
               AbsCall(t)' = "pending"
         /\ pc'[t] \in {"signal", "unlock", "return"} =>
               AbsCall(t)' = IF rc'[t] = "fail" THEN "fail" ELSE "success"
BY DEF AbsCall

(* Steps that the callers do not see.                                      *)
LEMMA UnseenStep ==
  ASSUME NEW t \in Threads,
         UNCHANGED <<ring, submitted, timeToDie, arg>>,
         \A u \in Threads : u # t => /\ pc'[u] = pc[u] /\ rc'[u] = rc[u]
                                     /\ result'[u] = result[u],
         pc[t] # "advance", pc'[t] # "advance",
         AbsCall(t)' = AbsCall(t), result'[t] = result[t]
  PROVE  UNCHANGED absVars
<1>1. AbsFifo' = AbsFifo
  BY DEF AbsFifo, Slot, ring
<1>2. AbsIssued' = AbsIssued
  BY DEF AbsIssued, Drawn, ring, Threads
<1>3. ASSUME NEW u \in Threads PROVE AbsCall(u)' = AbsCall(u)
  BY DEF AbsCall
<1>4. AbsCalls' = AbsCalls
  BY <1>3 DEF AbsCalls
<1>5. AbsResult' = AbsResult
  BY DEF AbsResult
<1>6. QED
  BY <1>1, <1>2, <1>4, <1>5 DEF absVars

(* What a step of one thread does to the abstract calls and results.       *)
LEMMA OneCall ==
  ASSUME NEW t \in Threads, NEW v,
         \A u \in Threads : u # t => pc'[u] = pc[u] /\ rc'[u] = rc[u],
         AbsCall(t)' = v
  PROVE  AbsCalls' = [AbsCalls EXCEPT ![t] = v]
<1>1. ASSUME NEW u \in Threads, u # t PROVE AbsCall(u)' = AbsCall(u)
  BY <1>1 DEF AbsCall
<1>2. QED
  BY <1>1 DEF AbsCalls

LEMMA OneResult ==
  ASSUME NEW t \in Threads, NEW v,
         \A u \in Threads : u # t => pc'[u] = pc[u] /\ result'[u] = result[u],
         pc'[t] # "advance", result'[t] = v
  PROVE  AbsResult' = [AbsResult EXCEPT ![t] = v]
BY DEF AbsResult

(* The copy goes into a slot that is not occupied yet, and its ticket is   *)
(* not issued before the slot is counted.                                  *)
LEMMA CopyUnseen ==
  ASSUME IInv, CallInv, NEW p \in Producers, EnqueueCopy(p)
  PROVE  UNCHANGED absVars
<1> USE QueueAssumption DEF IInv, GoTo
<1>1. mutex = p /\ Drawn = 0
  BY DrawnByHolder DEF EnqueueCopy, MutexInv, Holding, Threads
<1>2. Drawn' = 1
  BY DEF EnqueueCopy, Drawn, TypeOK, Threads
<1>3. AbsIssued' = AbsIssued
  BY <1>1, <1>2 DEF AbsIssued, EnqueueCopy, TypeOK
<1>4. AbsFifo' = AbsFifo
  <2>1. occupied \in 0 .. Size - 1
    BY DEF EnqueueCopy, AssertsHold, TypeOK
  <2>2. ASSUME NEW k \in 1 .. occupied
        PROVE  slots'[Slot(k - 1)] = slots[Slot(k - 1)]
    <3>1. k - 1 \in 0 .. Size - 1 /\ k - 1 # occupied
      BY <2>1
    <3>2. Slot(k - 1) # nextin
      BY <2>1, <3>1, SlotDistinct DEF RingConsistent, TypeOK
    <3>3. QED
      BY <3>2 DEF EnqueueCopy, TypeOK
  <2>3. occupied' = occupied /\ nextout' = nextout
    BY DEF EnqueueCopy
  <2>4. QED
    BY <2>2, <2>3 DEF AbsFifo, Slot
<1>5. /\ p \in Threads /\ pc[p] = "copy" /\ pc'[p] = "advance"
      /\ \A u \in Threads : u # p => pc'[u] = pc[u] /\ result'[u] = result[u]
      /\ UNCHANGED <<rc, submitted, timeToDie, arg>>
  BY DEF EnqueueCopy, Threads, TypeOK
<1>6. AbsCalls' = AbsCalls
  <2>1. \A u \in Threads : AbsCall(u)' = AbsCall(u)
    BY <1>5 DEF AbsCall
  <2>2. QED
    BY <2>1 DEF AbsCalls
<1>7. AbsResult' = AbsResult
  BY <1>5 DEF AbsResult, CallInv
<1>8. QED
  BY <1>3, <1>4, <1>5, <1>6, <1>7 DEF absVars

(* A consumer's copy is not seen either until it counts the slot out.      *)
LEMMA ReadUnseen ==
  ASSUME IInv, CallInv, NEW c \in Consumers, DequeueCopy(c)
  PROVE  UNCHANGED absVars
<1> USE QueueAssumption DEF IInv, GoTo
<1>1. /\ c \in Threads /\ c \notin Producers /\ pc[c] = "copy"
      /\ pc'[c] = "advance"
      /\ \A u \in Threads : u # c => pc'[u] = pc[u] /\ result'[u] = result[u]
      /\ UNCHANGED <<ring, rc, submitted, timeToDie, arg>>
  BY DEF DequeueCopy, Threads, TypeOK
<1>2. AbsIssued' = AbsIssued
  BY <1>1 DEF AbsIssued, Drawn, Threads, ring
<1>3. AbsFifo' = AbsFifo
  BY <1>1 DEF AbsFifo, Slot, ring
<1>4. AbsCalls' = AbsCalls
  <2>1. \A u \in Threads : AbsCall(u)' = AbsCall(u)
    BY <1>1 DEF AbsCall
  <2>2. QED
    BY <2>1 DEF AbsCalls
<1>5. AbsResult' = AbsResult
  BY <1>1 DEF AbsResult, CallInv
<1>6. QED
  BY <1>1, <1>2, <1>3, <1>4, <1>5 DEF absVars

(* Counting a filled slot in is where the call takes effect.               *)
LEMMA AcceptStep ==
  ASSUME IInv, CallInv, NEW p \in Producers, EnqueueAdvance(p)
  PROVE  Fifo!Accept(p)
<1> USE QueueAssumption DEF IInv, GoTo
<1> DEFINE entry == [txn |-> arg[p], ticket |-> AbsIssued + 1]
<1>1. mutex = p /\ Drawn = 1 /\ occupied < Size /\ ticketReq \in Nat
  BY DrawnByHolder
     DEF EnqueueAdvance, MutexInv, Holding, Threads, AdvanceInv, TypeOK
<1>2. Drawn' = 0
  BY <1>1 DEF EnqueueAdvance, Drawn, MutexInv, Holding, TypeOK, Threads
<1>3. AbsIssued + 1 = ticketReq /\ AbsIssued' = AbsIssued + 1
  BY <1>1, <1>2 DEF AbsIssued, EnqueueAdvance
<1>4. slots[nextin] = entry /\ result[p] = entry
  BY <1>3 DEF CallInv, EnqueueAdvance, Threads
<1>5. /\ p \in Threads /\ pc[p] = "advance" /\ pc'[p] = "signal"
      /\ \A u \in Threads : u # p => pc'[u] = pc[u]
      /\ rc[p] = "success"
      /\ UNCHANGED <<slots, nextout, submitted, timeToDie, arg, rc, result>>
      /\ occupied' = occupied + 1
  BY DEF EnqueueAdvance, Threads, TypeOK, CallInv
<1>6. AbsFifo' = Append(AbsFifo, entry)
  <2>1. occupied \in Nat /\ nextin = Slot(occupied)
    BY DEF TypeOK, RingConsistent
  <2>2. AbsFifo' = [k \in 1 .. occupied + 1 |-> slots[Slot(k - 1)]]
    BY <1>5 DEF AbsFifo, Slot
  <2>3. slots[Slot((occupied + 1) - 1)] = entry
    <3>1. (occupied + 1) - 1 = occupied
      BY <2>1
    <3>2. QED
      BY <1>4, <2>1, <3>1
  <2>4. ASSUME NEW k \in 1 .. occupied + 1
        PROVE  slots[Slot(k - 1)] = IF k = occupied + 1 THEN entry
                                                        ELSE AbsFifo[k]
    <3>1. CASE k = occupied + 1
      BY <2>3, <3>1
    <3>2. CASE k # occupied + 1
      <4>1. k \in 1 .. occupied
        BY <2>1, <3>2
      <4>2. QED
        BY <3>2, <4>1, AbsFifoType
    <3>3. QED
      BY <3>1, <3>2
  <2>5. [k \in 1 .. occupied + 1 |-> slots[Slot(k - 1)]]
           = [k \in 1 .. occupied + 1 |-> IF k = occupied + 1 THEN entry
                                                          ELSE AbsFifo[k]]
    BY <2>4, Zenon
  <2>6. Append(AbsFifo, entry) =
           [k \in 1 .. occupied + 1 |-> IF k = occupied + 1 THEN entry
                                                            ELSE AbsFifo[k]]
    BY <2>1, AbsFifoType
  <2>7. QED
    BY <2>2, <2>5, <2>6
<1>7. Len(AbsFifo) < Size
  BY <1>1, AbsFifoType
<1>8. AbsCalls[p] = "pending" /\ AbsCalls' = [AbsCalls EXCEPT ![p] = "success"]
  <2>1. AbsCall(p) = "pending" /\ AbsCall(p)' = "success"
    BY <1>5, AbsCallCases, AbsCallCasesNext
  <2>2. QED
    BY <1>5, <2>1, OneCall DEF AbsCalls
<1>9. AbsResult' = [AbsResult EXCEPT ![p] = entry]
  BY <1>4, <1>5, OneResult
<1>10. QED
  BY <1>3, <1>5, <1>6, <1>7, <1>8, <1>9
     DEF Fifo!Accept, AbsFifo, AbsCalls, AbsResult, AbsIssued

(* The tail of a sequence, place by place.                                 *)
LEMMA TailPlaces ==
  ASSUME NEW s \in Seq(Entries), s # << >>, NEW n \in Nat, Len(s) = n
  PROVE  Tail(s) = [k \in 1 .. n - 1 |-> s[k + 1]]
<1>1. Tail(s) \in Seq(Entries) /\ Len(Tail(s)) = n - 1
  OBVIOUS
<1>2. Tail(s) = [k \in 1 .. n - 1 |-> Tail(s)[k]]
  <2>1. Tail(s) \in [1 .. n - 1 -> Entries]
    BY <1>1, LenProperties
  <2>2. QED
    BY <2>1
<1>3. \A k \in 1 .. n - 1 : Tail(s)[k] = s[k + 1]
  OBVIOUS
<1>4. QED
  BY <1>2, <1>3

(* And so is counting the oldest one out.                                  *)
LEMMA DeliverStep ==
  ASSUME IInv, CallInv, NEW c \in Consumers, DequeueAdvance(c)
  PROVE  Fifo!Deliver(c)
<1> USE QueueAssumption DEF IInv, GoTo
<1>1. mutex = c /\ c \notin Producers /\ Drawn = 0 /\ occupied > 0
  BY DrawnByNone
     DEF DequeueAdvance, MutexInv, Holding, Threads, AdvanceInv, TypeOK
<1>2. Drawn' = 0
  BY <1>1 DEF DequeueAdvance, Drawn, MutexInv, Holding, TypeOK, Threads
<1>3. /\ c \in Threads /\ pc[c] = "advance" /\ pc'[c] = "signal"
      /\ \A u \in Threads : u # c => pc'[u] = pc[u]
      /\ rc[c] = "success" /\ result[c] = slots[nextout]
      /\ UNCHANGED <<slots, ticketReq, submitted, timeToDie, arg, rc, result>>
      /\ nextout' = Succ(nextout)
      /\ occupied' = occupied - 1
  BY DEF DequeueAdvance, Threads, TypeOK, CallInv
<1>0. occupied \in Nat /\ occupied <= Size /\ nextout \in Indices
  BY DEF TypeOK
<1>4. AbsIssued' = AbsIssued
  BY <1>1, <1>2, <1>3 DEF AbsIssued
<1>5. AbsFifo # << >> /\ Head(AbsFifo) = slots[nextout]
  <2>1. Len(AbsFifo) > 0 /\ AbsFifo[1] = slots[Slot(0)]
    BY <1>0, <1>1, <1>3, AbsFifoType
  <2>2. Slot(0) = nextout
    BY <1>0, <1>3 DEF Slot, Indices
  <2>3. QED
    BY <2>1, <2>2, AbsFifoType
<1>6. AbsFifo' = Tail(AbsFifo)
  <2>1. AbsFifo' = [k \in 1 .. occupied - 1 |-> slots[Slot(k - 1)']]
    BY <1>3 DEF AbsFifo
  <2>2. ASSUME NEW k \in 1 .. occupied - 1
        PROVE  slots[Slot(k - 1)'] = AbsFifo[k + 1]
    <3>1. Slot(k - 1)' = Slot(k)
      BY <1>0, <1>3, SuccLemma DEF Slot, Indices
    <3>2. k + 1 \in 1 .. occupied /\ (k + 1) - 1 = k
      BY <1>0
    <3>3. QED
      BY <3>1, <3>2, AbsFifoType
  <2>3. [k \in 1 .. occupied - 1 |-> slots[Slot(k - 1)']]
           = [k \in 1 .. occupied - 1 |-> AbsFifo[k + 1]]
    BY <2>2, Zenon
  <2>4. Tail(AbsFifo) = [k \in 1 .. occupied - 1 |-> AbsFifo[k + 1]]
    BY <1>0, <1>5, AbsFifoType, TailPlaces
  <2>5. QED
    BY <2>1, <2>3, <2>4
<1>7. AbsCalls[c] = "pending" /\ AbsCalls' = [AbsCalls EXCEPT ![c] = "success"]
  <2>1. AbsCall(c) = "pending" /\ AbsCall(c)' = "success"
    BY <1>3, AbsCallCases, AbsCallCasesNext
  <2>2. QED
    BY <1>3, <2>1, OneCall DEF AbsCalls
<1>8. AbsResult' = [AbsResult EXCEPT ![c] = Head(AbsFifo)]
  BY <1>3, <1>5, OneResult
<1>9. QED
  BY <1>3, <1>4, <1>5, <1>6, <1>7, <1>8
     DEF Fifo!Deliver, AbsFifo, AbsCalls, AbsResult, AbsIssued

(* A step that leaves the ring alone and moves one call.                   *)
LEMMA RingAside ==
  ASSUME UNCHANGED <<slots, nextout, occupied, ticketReq>>,
         \A p \in Producers : pc'[p] = "advance" <=> pc[p] = "advance"
  PROVE  AbsFifo' = AbsFifo /\ AbsIssued' = AbsIssued
BY DEF AbsFifo, Slot, AbsIssued, Drawn

LEMMA CallsStart ==
  ASSUME IInv, NEW t \in Threads,
         \/ t \in Producers /\ CallEnqueue(t)
         \/ t \in Consumers /\ CallDequeue(t)
  PROVE  \/ t \in Producers /\ Fifo!CallEnqueue(t)
         \/ t \in Consumers /\ Fifo!CallDequeue(t)
<1> USE DEF IInv, GoTo, ring
<1>1. /\ pc[t] = "idle" /\ pc'[t] = "lock"
      /\ \A u \in Threads : u # t => /\ pc'[u] = pc[u] /\ rc'[u] = rc[u]
                                     /\ result'[u] = result[u]
      /\ result'[t] = Nothing
      /\ UNCHANGED <<slots, nextout, occupied, ticketReq>>
      /\ timeToDie' = timeToDie
  BY DEF CallEnqueue, CallDequeue, TypeOK
<1>2. AbsFifo' = AbsFifo /\ AbsIssued' = AbsIssued
  BY <1>1, RingAside DEF Threads
<1>3. AbsCalls[t] = "idle" /\ AbsCalls' = [AbsCalls EXCEPT ![t] = "pending"]
  <2>1. AbsCall(t) = "idle" /\ AbsCall(t)' = "pending"
    BY <1>1, AbsCallCases, AbsCallCasesNext
  <2>2. QED
    BY <1>1, <2>1, OneCall DEF AbsCalls
<1>4. AbsResult' = [AbsResult EXCEPT ![t] = Nothing]
  BY <1>1, OneResult
<1>5. Nothing = Fifo!Nothing
  BY DEF Nothing, Fifo!Nothing
<1>6. CASE t \in Producers /\ CallEnqueue(t)
  BY <1>1, <1>2, <1>3, <1>4, <1>5, <1>6
     DEF CallEnqueue, Fifo!CallEnqueue, AbsFifo, AbsCalls, AbsResult, AbsIssued
<1>7. CASE t \in Consumers /\ CallDequeue(t)
  BY <1>1, <1>2, <1>3, <1>4, <1>5, <1>7
     DEF CallDequeue, Fifo!CallDequeue, AbsFifo, AbsCalls, AbsResult, AbsIssued
<1>8. QED
  BY <1>6, <1>7

(* A call that finds time_to_die after a wait fails; a call returns.       *)
LEMMA CallsEndStep ==
  ASSUME IInv, CallInv, NEW t \in Threads,
         (CheckTimeToDie(t) /\ timeToDie) \/ Return(t)
  PROVE  Fifo!GiveUp(t) \/ Fifo!Return(t)
<1> USE DEF IInv, GoTo, ring, conds
<1>1. /\ pc[t] \in {"check", "return"} /\ pc'[t] \in {"return", "done", "idle"}
      /\ \A u \in Threads : u # t => /\ pc'[u] = pc[u] /\ rc'[u] = rc[u]
                                     /\ result'[u] = result[u]
      /\ UNCHANGED <<slots, nextout, occupied, ticketReq, result, submitted,
                     timeToDie, arg>>
  BY DEF CheckTimeToDie, Return, TypeOK
<1>2. AbsFifo' = AbsFifo /\ AbsIssued' = AbsIssued
  BY <1>1, RingAside DEF Threads
<1>3. AbsResult' = AbsResult
  BY <1>1 DEF AbsResult
<1>4. CASE CheckTimeToDie(t) /\ timeToDie
  <2>1. pc[t] = "check" /\ pc'[t] = "return" /\ rc'[t] = "fail"
    BY <1>4 DEF CheckTimeToDie, TypeOK
  <2>2. AbsCall(t) = "pending" /\ AbsCall(t)' = "fail"
    BY <2>1, AbsCallCases, AbsCallCasesNext
  <2>3. AbsCalls[t] = "pending" /\ AbsCalls' = [AbsCalls EXCEPT ![t] = "fail"]
    BY <1>1, <2>2, OneCall DEF AbsCalls
  <2>4. QED
    BY <1>1, <1>2, <1>3, <1>4, <2>3
       DEF Fifo!GiveUp, AbsFifo, AbsCalls, AbsResult, AbsIssued
<1>5. CASE Return(t)
  <2>1. /\ pc[t] = "return"
        /\ \/ timeToDie /\ pc'[t] = "done"
           \/ (timeToDie => t \in Producers) /\ pc'[t] = "idle"
    BY <1>5 DEF Return, GoTo, TypeOK
  <2>2. AbsCall(t) \in {"success", "fail"} /\ AbsCall(t)' = pc'[t]
    BY <2>1, AbsCallCases, AbsCallCasesNext
  <2>3. /\ AbsCalls[t] \in {"success", "fail"}
        /\ AbsCalls' = [AbsCalls EXCEPT ![t] = pc'[t]]
    BY <1>1, <2>2, OneCall DEF AbsCalls
  <2>4. QED
    BY <1>1, <1>2, <1>3, <2>1, <2>3
       DEF Fifo!Return, AbsFifo, AbsCalls, AbsResult, AbsIssued
<1>6. QED
  BY <1>4, <1>5

(* Every step of the ring is a step of the FIFO or none.                   *)
LEMMA Simulation ==
  ASSUME IInv, CallInv, [Next]_vars
  PROVE  Fifo!Next \/ UNCHANGED absVars
<1>0. /\ \A p \in Producers : p \in Threads /\ p \notin Consumers
      /\ \A c \in Consumers : c \in Threads /\ c \notin Producers
      /\ \A p : (p \in Fifo!Threads) <=> (p \in Threads)
  BY QueueAssumption DEF Threads, Fifo!Threads
<1>1. ASSUME NEW p \in Producers, CallEnqueue(p) PROVE Fifo!Next
  BY <1>0, <1>1, CallsStart DEF Fifo!Next
<1>2. ASSUME NEW c \in Consumers, CallDequeue(c) PROVE Fifo!Next
  BY <1>0, <1>2, CallsStart DEF Fifo!Next
<1>3. ASSUME NEW p \in Producers, Enqueue(p)
      PROVE  Fifo!Next \/ UNCHANGED absVars
  <2>1. CASE EnqueueTest(p)
    <3>1. /\ pc[p] = "test" /\ pc'[p] \in {"wait", "copy"}
          /\ \A u \in Threads : u # p => pc'[u] = pc[u]
          /\ UNCHANGED <<ring, submitted, timeToDie, arg, rc, result>>
      BY <1>0, <2>1 DEF EnqueueTest, GoTo, IInv, TypeOK
    <3>2. AbsCall(p)' = AbsCall(p)
      BY <1>0, <3>1, AbsCallCases, AbsCallCasesNext
    <3>3. QED
      BY <1>0, <3>1, <3>2, UnseenStep
  <2>2. CASE EnqueueCopy(p)
    BY <2>2, CopyUnseen
  <2>3. CASE EnqueueAdvance(p)
    BY <2>3, AcceptStep DEF Fifo!Next
  <2>4. CASE EnqueueSignal(p)
    <3>1. /\ pc[p] = "signal" /\ pc'[p] = "unlock"
          /\ \A u \in Threads : u # p => pc'[u] = pc[u]
          /\ UNCHANGED <<ring, submitted, timeToDie, arg, rc, result>>
      BY <1>0, <2>4 DEF EnqueueSignal, GoTo, IInv, TypeOK
    <3>2. AbsCall(p)' = AbsCall(p)
      BY <1>0, <3>1, AbsCallCases, AbsCallCasesNext
    <3>3. QED
      BY <1>0, <3>1, <3>2, UnseenStep
  <2>5. QED
    BY <1>3, <2>1, <2>2, <2>3, <2>4 DEF Enqueue
<1>4. ASSUME NEW c \in Consumers, Dequeue(c)
      PROVE  Fifo!Next \/ UNCHANGED absVars
  <2>1. CASE DequeueTest(c)
    <3>1. /\ pc[c] = "test" /\ pc'[c] \in {"wait", "copy"}
          /\ \A u \in Threads : u # c => pc'[u] = pc[u]
          /\ UNCHANGED <<ring, submitted, timeToDie, arg, rc, result>>
      BY <1>0, <2>1 DEF DequeueTest, GoTo, IInv, TypeOK
    <3>2. AbsCall(c)' = AbsCall(c)
      BY <1>0, <3>1, AbsCallCases, AbsCallCasesNext
    <3>3. QED
      BY <1>0, <3>1, <3>2, UnseenStep
  <2>2. CASE DequeueCopy(c)
    BY <2>2, ReadUnseen
  <2>3. CASE DequeueAdvance(c)
    BY <2>3, DeliverStep DEF Fifo!Next
  <2>4. CASE DequeueSignal(c)
    <3>1. /\ pc[c] = "signal" /\ pc'[c] = "unlock"
          /\ \A u \in Threads : u # c => pc'[u] = pc[u]
          /\ UNCHANGED <<ring, submitted, timeToDie, arg, rc, result>>
      BY <1>0, <2>4 DEF DequeueSignal, GoTo, IInv, TypeOK
    <3>2. AbsCall(c)' = AbsCall(c)
      BY <1>0, <3>1, AbsCallCases, AbsCallCasesNext
    <3>3. QED
      BY <1>0, <3>1, <3>2, UnseenStep
  <2>5. QED
    BY <1>4, <2>1, <2>2, <2>3, <2>4 DEF Dequeue
<1>5. ASSUME NEW t \in Threads, Common(t)
      PROVE  Fifo!Next \/ UNCHANGED absVars
  <2>1. CASE Lock(t) \/ Wake(t) \/ (CheckTimeToDie(t) /\ ~timeToDie)
    <3>1. /\ pc[t] \in {"lock", "wait", "check"} /\ pc'[t] \in {"test", "check"}
          /\ \A u \in Threads : u # t => pc'[u] = pc[u]
          /\ UNCHANGED <<ring, submitted, timeToDie, arg, rc, result>>
      BY <2>1 DEF Lock, Wake, CheckTimeToDie, GoTo, IInv, TypeOK
    <3>2. AbsCall(t)' = AbsCall(t)
      BY <3>1, AbsCallCases, AbsCallCasesNext
    <3>3. QED
      BY <3>1, <3>2, UnseenStep
  <2>2. CASE Unlock(t)
    <3>1. /\ pc[t] = "unlock" /\ pc'[t] = "return"
          /\ \A u \in Threads : u # t => pc'[u] = pc[u]
          /\ UNCHANGED <<ring, submitted, timeToDie, arg, rc, result>>
      BY <2>2 DEF Unlock, GoTo, IInv, TypeOK
    <3>2. AbsCall(t)' = AbsCall(t)
      BY <3>1, AbsCallCases, AbsCallCasesNext
    <3>3. QED
      BY <3>1, <3>2, UnseenStep
  <2>3. CASE (CheckTimeToDie(t) /\ timeToDie) \/ Return(t)
    BY <1>0, <2>3, CallsEndStep DEF Fifo!Next
  <2>4. QED
    BY <1>5, <2>1, <2>2, <2>3 DEF Common
<1>6. ASSUME UNCHANGED <<ring, pc, rc, arg, result, submitted, timeToDie>>
      PROVE  UNCHANGED absVars
  <2>1. /\ UNCHANGED <<AbsFifo, AbsIssued>>
    BY <1>6 DEF AbsFifo, Slot, AbsIssued, Drawn, ring
  <2>2. UNCHANGED <<AbsCalls, AbsResult>>
    BY <1>6 DEF AbsCalls, AbsCall, AbsResult
  <2>3. QED
    BY <1>6, <2>1, <2>2 DEF absVars
<1>7. ASSUME NEW t \in Threads, Timeout(t) PROVE UNCHANGED absVars
  BY <1>6, <1>7 DEF Timeout
<1>8. CASE AskToDie
  <2>1. UNCHANGED <<AbsFifo, AbsIssued, AbsCalls, AbsResult, submitted, arg>>
    BY <1>8 DEF AskToDie, AbsFifo, Slot, AbsIssued, Drawn, ring, AbsCalls,
                AbsCall, AbsResult
  <2>2. Fifo!AskToDie
    BY <1>8, <2>1 DEF AskToDie, Fifo!AskToDie, AbsFifo, AbsCalls, AbsResult,
                      AbsIssued
  <2>3. QED
    BY <2>2 DEF Fifo!Next
<1>9. CASE UNCHANGED vars
  BY <1>6, <1>9 DEF vars, ring
<1>10. QED
  BY <1>1, <1>2, <1>3, <1>4, <1>5, <1>7, <1>8, <1>9 DEF Next, Terminated

(* The ring with its mutex and its condition variables implements the      *)
(* linearizable bounded FIFO: what is accepted gets consecutive tickets    *)
(* and goes to one consumer each, in order, and a call fails only when the *)
(* server is asked to die.                                                 *)
THEOREM QueueImplementsFifo == Spec => FifoSpec
<1>1. Init => Fifo!Init
  <2> SUFFICES ASSUME Init PROVE Fifo!Init
    OBVIOUS
  <2> USE DEF Init
  <2>1. AbsFifo = << >>
    BY DEF AbsFifo
  <2>2. AbsIssued = 0
    <3>1. \A p \in Producers : pc[p] = "idle"
      BY DEF Threads
    <3>2. Drawn = 0
      BY <3>1 DEF Drawn
    <3>3. ticketReq = 0
      OBVIOUS
    <3>4. QED
      BY <3>2, <3>3 DEF AbsIssued
  <2>3. AbsCalls = [t \in Threads |-> "idle"]
    BY AbsCallCases DEF AbsCalls
  <2>4. AbsResult = [t \in Threads |-> Nothing]
    BY DEF AbsResult
  <2>5. QED
    BY <2>1, <2>2, <2>3, <2>4
       DEF Fifo!Init, Fifo!Threads, Fifo!Nothing, Threads, Nothing, AbsFifo,
           AbsIssued, AbsCalls, AbsResult
<1>2. IInv /\ CallInv /\ [Next]_vars => [Fifo!Next]_(Fifo!vars)
  BY Simulation
     DEF absVars, AbsFifo, AbsIssued, AbsCalls, AbsResult, Fifo!vars
<1>3. QED
  BY <1>1, <1>2, QueueInvariant, CallInvariant, PTL
     DEF Spec, FifoSpec, Fifo!Spec

(***************************************************************************)
(* What can be said of progress without fairness: where the queue can      *)
(* stand still.                                                            *)
(***************************************************************************)

(* Thread t can take a step of its call, other than the end of a timed     *)
(* wait.                                                                   *)
CanStep(t) == \/ pc[t] \in Holding \cup {"return"}
              \/ /\ mutex = NoThread
                 /\ \/ pc[t] = "lock"
                    \/ pc[t] = "wait" /\ t \notin more \cup less

InCall(T) == {t \in T : pc[t] \notin {"idle", "done"}}

(* Where no thread can step, the mutex has been given back and every call  *)
(* under way sleeps in a timed wait, which ends by itself; and unless the  *)
(* server is asked to die, nobody is missing but a caller of the other     *)
(* side: all who sleep dequeue from an empty ring or all of them enqueue   *)
(* to a full one, never some of each.                                      *)
StandsStill ==
    (\A t \in Threads : ~CanStep(t)) =>
      /\ mutex = NoThread
      /\ InCall(Threads) \subseteq more \cup less
      /\ \/ timeToDie
         \/ InCall(Producers) = {} /\ (InCall(Consumers) # {} => occupied = 0)
         \/ InCall(Consumers) = {} /\ occupied = Size

(* Producers and consumers of a ready queue never wait for each other, and *)
(* a slot that could be used never has only sleepers to use it: between    *)
(* the mutex and the two conditions of chronos_queue.c there is no         *)
(* deadlock that the 5 s of the timed waits would have to resolve.         *)
THEOREM QueueMoves == Spec => []StandsStill
<1>1. IInv /\ WakeInv => StandsStill
  <2> SUFFICES ASSUME IInv, WakeInv, \A t \in Threads : ~CanStep(t)
               PROVE  /\ mutex = NoThread
                      /\ InCall(Threads) \subseteq more \cup less
                      /\ \/ timeToDie
                         \/ /\ InCall(Producers) = {}
                            /\ InCall(Consumers) # {} => occupied = 0
                         \/ InCall(Consumers) = {} /\ occupied = Size
    BY DEF StandsStill
  <2> USE DEF IInv, TypeOK
  <2>1. \A t \in Threads : pc[t] \notin Holding \cup {"return"}
    BY DEF CanStep
  <2>2. mutex = NoThread
    BY <2>1 DEF MutexInv
  <2>3. \A t \in Threads : pc[t] # "lock"
    BY <2>2 DEF CanStep
  <2>4. \A t \in Threads : pc[t] = "wait" => t \in more \cup less
    BY <2>2 DEF CanStep
  <2>5. \A t \in Threads : pc[t] \in {"idle", "wait", "done"}
    BY <2>1, <2>3 DEF Labels, Holding
  <2>6. \A t \in InCall(Threads) : t \in more \cup less
    BY <2>4, <2>5 DEF InCall
  <2>7. \A t \in Threads : ~Awake(t)
    BY <2>4, <2>5 DEF Awake
  <2>8. /\ {c \in Consumers : Awake(c)} = {}
        /\ {p \in Producers : Awake(p)} = {}
        /\ Signalling(Producers) = {} /\ Signalling(Consumers) = {}
    BY <2>5, <2>7 DEF Signalling, Threads
  <2>9. /\ Cardinality({c \in Consumers : Awake(c)}) = 0
        /\ Cardinality({p \in Producers : Awake(p)}) = 0
        /\ Cardinality(Signalling(Producers)) = 0
        /\ Cardinality(Signalling(Consumers)) = 0
    BY <2>8, FS_EmptySet
  <2>10. /\ InCall(Consumers) # {} => more # {}
         /\ InCall(Producers) # {} => less # {}
    BY <2>6, QueueAssumption DEF InCall, Threads
  <2>11. /\ Size \in Nat \ {0}
         /\ occupied \in 0 .. Size
    BY QueueAssumption
  <2>12. ASSUME ~timeToDie
         PROVE  /\ more # {} => occupied <= 0
                /\ less # {} => Size - occupied <= 0
    BY <2>9, <2>11, <2>12 DEF WakeInv, NoLostWakeup
  <2>13. ASSUME ~timeToDie
         PROVE  \/ /\ InCall(Producers) = {}
                   /\ InCall(Consumers) # {} => occupied = 0
                \/ InCall(Consumers) = {} /\ occupied = Size
    BY <2>10, <2>11, <2>12, <2>13
  <2>14. QED
    BY <2>2, <2>6, <2>13
<1>2. Spec => []WakeInv
  <2>1. Init => WakeInv
    BY DEF Init, WakeInv, WaitersWait, NoLostWakeup
  <2>2. QED
    BY <2>1, WakeStep, QueueInvariant, PTL DEF Spec
<1>3. QED
  BY <1>1, <1>2, QueueInvariant, PTL
=============================================================================
