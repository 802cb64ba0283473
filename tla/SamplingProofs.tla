--------------------------- MODULE SamplingProofs ---------------------------
(***************************************************************************)
(* What handler_sampling reads, for every ring, every number of items,     *)
(* every running mode and all times of transactions.                       *)
(***************************************************************************)
EXTENDS Sampling, ChronosTimeProofs

(* The slots before and after a slot are in the ring.                      *)
LEMMA Ring ==
  ASSUME currentSlot \in SlotSet
  PROVE  /\ NewSlot \in SlotSet
         /\ PreviousSlot \in SlotSet
<1>1. Slots \in Nat \ {0} /\ currentSlot + 1 \in Nat
      /\ currentSlot + Slots - 1 \in Nat
  BY SamplingAssumption DEF SlotSet
<1>2. QED
  BY <1>1, Division DEF NewSlot, PreviousSlot, SlotSet

(* The slot before another one is another one.                             *)
LEMMA OtherSlot ==
  ASSUME currentSlot \in SlotSet
  PROVE  PreviousSlot # currentSlot
<1> DEFINE S == Slots
           c == currentSlot
           m == c + S - 1
           q == m \div S
<1>1. S \in Nat \ {0, 1} /\ c \in 0 .. S - 1 /\ m \in Nat
  BY SamplingAssumption DEF SlotSet
<1>2. q \in Nat /\ m = S * q + (m % S)
  BY <1>1, Division
<1>3. PreviousSlot = m % S
  BY DEF PreviousSlot
<1>4. q >= 1 => S * q >= S
  BY <1>1, <1>2
<1>5. q = 0 => S * q = 0
  BY <1>1
<1> HIDE DEF q
<1>6. QED
  BY <1>1, <1>2, <1>3, <1>4, <1>5
-----------------------------------------------------------------------------
(* The times the handler computes are numbers.                             *)
LEMMA RelaxedIsNat ==
  ASSUME NEW p \in Nat
  PROVE  Relaxed(p) \in Nat
<1>1. 11 * p \in Nat
  OBVIOUS
<1>2. QED
  BY <1>1, Division DEF Relaxed

LEMMA GrainsAreNat ==
  ASSUME NEW n \in Nat, NEW d \in Nat \ {0}
  PROVE  Grains(n, d) \in Nat
<1>1. n \div d \in Nat
  BY Division
<1>2. QED
  BY <1>1 DEF Grains

LEMMA DegreeIsNat ==
  ASSUME NEW num \in Nat, NEW time \in Nat
  PROVE  DegreeOf(num, time) \in Nat
<1> DEFINE b == num * Bound
<1>1. b \in Nat
  BY SamplingAssumption
<1>2. num > 0 => b > 0
  BY SamplingAssumption
<1>3. DegreeOf(num, time) = IF num > 0 /\ time > b
                            THEN Grains(Grain * (time - b), b) ELSE 0
  BY DEF DegreeOf
<1> HIDE DEF b
<1>4. CASE num > 0 /\ time > b
  <2>1. time - b \in Nat /\ b \in Nat \ {0} /\ Grain \in Nat
    BY <1>1, <1>2, <1>4, SamplingAssumption
  <2>2. Grain * (time - b) \in Nat
    BY <2>1
  <2>3. QED
    BY <1>3, <1>4, <2>1, <2>2, GrainsAreNat
<1>5. QED
  BY <1>3, <1>4

LEMMA SmoothedIsNat ==
  ASSUME NEW d \in Nat, smoothed \in Nat
  PROVE  Smooth(d) \in Nat
<1>1. 4 * d + 6 * smoothed \in Nat
  OBVIOUS
<1>2. QED
  BY <1>1, GrainsAreNat DEF Smooth

LEMMA ToWaitIsNat ==
  ASSUME NEW e \in Nat, NEW s \in Nat
  PROVE  ToWait(e, s) \in Nat
<1>1. e * s \in Nat /\ 100 * Grain \in Nat \ {0}
  BY SamplingAssumption
<1>2. QED
  BY <1>1, Division DEF ToWait

LEMMA TookIsNat ==
  ASSUME NEW span \in Spans
  PROVE  ToMs(Offset(span.begin, span.end)) \in Nat
  BY SamplingAssumption, MsOfOffset

(* The type invariant in parts: periods, statistics, and the rest.         *)
PeriodTypes == /\ updatePeriod \in [1 .. Items -> [SlotSet -> 0 .. MaxPeriod]]
               /\ counted \in [1 .. Items -> [SlotSet -> BOOLEAN]]
StatTypes == /\ stats \in [SlotSet -> [num : Nat, time : Nat, timely : Nat]]
             /\ finished \in [SlotSet -> [num : Nat, time : Nat]]
HandlerTypes == /\ build \in Builds
                /\ currentSlot \in SlotSet
                /\ at \in 0 .. Items + 4
                /\ count \in Nat /\ duration \in Nat
                /\ smoothed \in Nat /\ degree \in Nat /\ numTxnToWait \in Nat
UpdaterTypes == /\ item \in 1 .. Items
                /\ slot \in SlotSet \cup {-1}
                /\ used \in 0 .. MaxPeriod \cup {-1}
ThreadTypes == /\ thread \in {"txn", "num", "time", "timely"}
               /\ txnSlot \in SlotSet /\ took \in Nat

Parts == /\ PeriodTypes /\ StatTypes /\ HandlerTypes
         /\ UpdaterTypes /\ ThreadTypes
         /\ straggler \in BOOLEAN

LEMMA TypeParts == (TypeOK <=> Parts) /\ (TypeOK' <=> Parts')
  BY DEF Parts, TypeOK, PeriodTypes, StatTypes, HandlerTypes, UpdaterTypes, ThreadTypes

LEMMA TypesInit == Init => TypeOK
<1> SUFFICES ASSUME Init PROVE TypeOK
  OBVIOUS
<1> USE SamplingAssumption DEF Init, SlotSet, NoStats
<1>1. PeriodTypes
  BY DEF PeriodTypes
<1>2. StatTypes
  BY DEF StatTypes
<1>3. HandlerTypes
  BY DEF HandlerTypes
<1>4. UpdaterTypes /\ ThreadTypes
  BY DEF UpdaterTypes, ThreadTypes
<1>5. QED
  BY <1>1, <1>2, <1>3, <1>4, TypeParts DEF Parts

(* Statistics are numbers, and stay so when a field is given a number.     *)
LEMMA Fields ==
  ASSUME StatTypes, NEW s \in SlotSet
  PROVE  /\ stats[s].num \in Nat /\ stats[s].time \in Nat
         /\ stats[s].timely \in Nat
         /\ finished[s].num \in Nat /\ finished[s].time \in Nat
<1>1. /\ stats[s] \in [num : Nat, time : Nat, timely : Nat]
      /\ finished[s] \in [num : Nat, time : Nat]
  BY DEF StatTypes
<1>2. QED
  BY <1>1

LEMMA PutFinished ==
  ASSUME NEW f \in [SlotSet -> [num : Nat, time : Nat]], NEW s \in SlotSet,
         NEW m \in Nat, NEW n \in Nat
  PROVE  LET g == [f EXCEPT ![s].num = m, ![s].time = n]
         IN  /\ g \in [SlotSet -> [num : Nat, time : Nat]]
             /\ g[s].num = m /\ g[s].time = n
             /\ \A t \in SlotSet \ {s} : g[t] = f[t]
  OBVIOUS

LEMMA PutStats ==
  ASSUME NEW f \in [SlotSet -> [num : Nat, time : Nat, timely : Nat]],
         NEW s \in SlotSet, NEW m \in Nat
  PROVE  LET n == [f EXCEPT ![s].num = m]
             t == [f EXCEPT ![s].time = m]
             y == [f EXCEPT ![s].timely = m]
         IN  /\ {n, t, y} \subseteq
                   [SlotSet -> [num : Nat, time : Nat, timely : Nat]]
             /\ n[s].num = m /\ n[s].time = f[s].time
             /\ t[s].time = m /\ t[s].num = f[s].num
             /\ y[s].num = f[s].num /\ y[s].time = f[s].time
             /\ \A o \in SlotSet \ {s} :
                   n[o] = f[o] /\ t[o] = f[o] /\ y[o] = f[o]
  OBVIOUS

(* What the parts depend on.                                               *)
LEMMA Frames ==
  /\ PeriodTypes /\ UNCHANGED periodVars => PeriodTypes'
  /\ StatTypes /\ UNCHANGED <<stats, finished>> => StatTypes'
  /\ HandlerTypes /\ UNCHANGED <<build, handlerVars>> => HandlerTypes'
  /\ UpdaterTypes /\ UNCHANGED updaterVars => UpdaterTypes'
  /\ ThreadTypes /\ UNCHANGED threadVars => ThreadTypes'
  BY DEF PeriodTypes, StatTypes, HandlerTypes, UpdaterTypes, ThreadTypes,
         periodVars, handlerVars, updaterVars, threadVars
-----------------------------------------------------------------------------
(* Type correctness is preserved, part by part.                            *)
LEMMA ExpireTypes ==
  ASSUME TypeOK, Expire
  PROVE  TypeOK'
<1>0. NewSlot \in SlotSet /\ Parts /\ StatTypes /\ HandlerTypes
  BY Ring, TypeParts DEF Parts, HandlerTypes
<1>1. stats' \in [SlotSet -> [num : Nat, time : Nat, timely : Nat]]
  BY <1>0 DEF Expire, Cleared, NoStats, StatTypes
<1>2. finished' \in [SlotSet -> [num : Nat, time : Nat]]
  <2>1. finished' = [finished EXCEPT ![NewSlot].num = 0, ![NewSlot].time = 0]
    BY DEF Expire
  <2>2. QED
    BY <1>0, <2>1, PutFinished DEF StatTypes
<1>3. HandlerTypes'
  BY <1>0, SamplingAssumption DEF Expire, HandlerTypes, loadVars
<1>4. QED
  BY <1>0, <1>1, <1>2, <1>3, TypeParts, Frames DEF Parts, StatTypes, Expire

LEMMA SampleItemTypes ==
  ASSUME TypeOK, SampleItem
  PROVE  PeriodTypes' /\ stats' = stats
<1>0. NewSlot \in SlotSet /\ PeriodTypes /\ HandlerTypes
  BY Ring, TypeParts DEF Parts, HandlerTypes
<1>1. at \in 1 .. Items
  BY DEF SampleItem
<1>2. counted' \in [1 .. Items -> [SlotSet -> BOOLEAN]]
  BY <1>0 DEF SampleItem, PeriodTypes
<1>3. \A p \in 0 .. MaxPeriod, old \in 0 .. MaxPeriod :
         NewPeriod(p, old) \in 0 .. MaxPeriod
  BY RelaxedIsNat, SamplingAssumption DEF NewPeriod
<1>4. \A i \in 1 .. Items, s \in SlotSet : updatePeriod[i][s] \in 0 .. MaxPeriod
  BY <1>0 DEF PeriodTypes
<1> DEFINE p == NewPeriod(updatePeriod[at][currentSlot],
                          updatePeriod[at][NewSlot])
<1>5. p \in 0 .. MaxPeriod
  BY <1>0, <1>1, <1>3, <1>4 DEF HandlerTypes
<1>6. updatePeriod' = [updatePeriod EXCEPT ![at][NewSlot] = p]
  BY <1>0, <1>1 DEF SampleItem, PeriodTypes
<1> HIDE DEF p
<1>7. updatePeriod' \in [1 .. Items -> [SlotSet -> 0 .. MaxPeriod]]
  BY <1>0, <1>5, <1>6 DEF PeriodTypes
<1>8. QED
  BY <1>2, <1>7 DEF PeriodTypes, SampleItem

LEMMA OverloadTypes ==
  ASSUME HandlerTypes, Overload
  PROVE  degree' \in Nat /\ smoothed' \in Nat /\ numTxnToWait' \in Nat
<1>1. degree' \in Nat
  BY DegreeIsNat DEF Overload, HandlerTypes
<1>2. smoothed' \in Nat
  BY <1>1, SmoothedIsNat DEF Overload, HandlerTypes
<1>3. PICK e \in Nat : numTxnToWait' = ToWait(e, smoothed') \/ numTxnToWait' = 0
  BY SamplingAssumption DEF Overload
<1>4. numTxnToWait' \in Nat
  <2> DEFINE n == smoothed'
  <2>1. n \in Nat
    BY <1>2
  <2>2. numTxnToWait' = ToWait(e, n) \/ numTxnToWait' = 0
    BY <1>3
  <2> HIDE DEF n
  <2>3. ToWait(e, n) \in Nat
    BY <2>1, ToWaitIsNat
  <2>4. QED
    BY <2>2, <2>3
<1>5. QED
  BY <1>1, <1>2, <1>4

LEMMA SampleTypes ==
  ASSUME TypeOK, Sample
  PROVE  TypeOK'
<1>0. /\ NewSlot \in SlotSet /\ PreviousSlot \in SlotSet
      /\ Parts /\ PeriodTypes /\ StatTypes /\ HandlerTypes
      /\ UpdaterTypes /\ ThreadTypes
  BY Ring, TypeParts DEF Parts, HandlerTypes
<1>1. CASE Expire
  BY <1>1, ExpireTypes
<1>2. ASSUME NoHandlerStep, PeriodTypes', stats' = stats, HandlerTypes',
             straggler' = straggler \/ straggler' \in BOOLEAN
      PROVE  TypeOK'
  BY <1>0, <1>2, TypeParts, Frames DEF Parts, NoHandlerStep
<1> USE SamplingAssumption DEF HandlerTypes, loadVars, sumVars, NoHandlerStep
<1>3. CASE SampleItem /\ NoHandlerStep
  <2>1. HandlerTypes'
    BY <1>0, <1>3 DEF SampleItem
  <2>2. QED
    BY <1>2, <1>3, <2>1, SampleItemTypes DEF SampleItem
<1>4. CASE Publish /\ NoHandlerStep
  <2>1. straggler' \in BOOLEAN
    BY <1>4 DEF Publish
  <2>2. HandlerTypes'
    BY <1>0, <1>4, <2>1 DEF Publish
  <2>3. QED
    BY <1>0, <1>2, <1>4, <2>1, <2>2, Frames DEF Publish
<1>5. CASE SumCount /\ NoHandlerStep
  <2>1. stats[PreviousSlot].num \in Nat
    BY <1>0, Fields
  <2>2. HandlerTypes'
    BY <1>0, <1>5, <2>1 DEF SumCount
  <2>3. QED
    BY <1>0, <1>2, <1>5, <2>2, Frames DEF SumCount
<1>6. CASE SumDuration /\ NoHandlerStep
  <2>1. stats[PreviousSlot].time \in Nat
    BY <1>0, Fields
  <2>2. HandlerTypes'
    BY <1>0, <1>6, <2>1 DEF SumDuration
  <2>3. QED
    BY <1>0, <1>2, <1>6, <2>2, Frames DEF SumDuration
<1>7. CASE Overload /\ NoHandlerStep
  <2>1. HandlerTypes'
    <3>1. degree' \in Nat /\ smoothed' \in Nat /\ numTxnToWait' \in Nat
      BY <1>0, <1>7, OverloadTypes
    <3>2. /\ at' = 0
          /\ UNCHANGED <<build, currentSlot, count, duration, straggler>>
      BY <1>7 DEF Overload
    <3>3. QED
      BY <1>0, <3>1, <3>2
  <2>2. QED
    BY <1>0, <1>2, <1>7, <2>1, Frames DEF Overload
<1>8. QED
  BY <1>1, <1>3, <1>4, <1>5, <1>6, <1>7 DEF Sample

LEMMA UpdateTypes ==
  ASSUME TypeOK, Update
  PROVE  TypeOK'
<1>0. /\ Parts /\ PeriodTypes /\ StatTypes /\ HandlerTypes
      /\ UpdaterTypes /\ ThreadTypes
  BY TypeParts DEF Parts
<1>1. counted' \in [1 .. Items -> [SlotSet -> BOOLEAN]]
  <2>1. counted \in [1 .. Items -> [SlotSet -> BOOLEAN]]
    BY <1>0 DEF PeriodTypes
  <2>2. \/ counted' = counted
        \/ counted' = [counted EXCEPT ![item][currentSlot] = TRUE]
    BY DEF Update, CountUpdate, SetNextUpdate, SkipItem
  <2>3. item \in 1 .. Items /\ currentSlot \in SlotSet
    BY <1>0 DEF UpdaterTypes, HandlerTypes
  <2>4. [counted EXCEPT ![item][currentSlot] = TRUE]
          \in [1 .. Items -> [SlotSet -> BOOLEAN]]
    BY <2>1, <2>3
  <2>5. QED
    BY <2>1, <2>2, <2>4
<1>2. slot # -1 => updatePeriod[item][slot] \in 0 .. MaxPeriod
  BY <1>0 DEF PeriodTypes, UpdaterTypes
<1>3. UpdaterTypes'
  BY <1>0, <1>2, SamplingAssumption
     DEF Update, CountUpdate, SetNextUpdate, SkipItem, UpdaterTypes,
         HandlerTypes
<1>4. UNCHANGED <<build, updatePeriod, stats, finished>>
      /\ UNCHANGED handlerVars /\ UNCHANGED threadVars
  BY DEF Update, NoUpdaterStep
<1>5. straggler' = straggler
  BY <1>4 DEF handlerVars
<1>6. PeriodTypes'
  BY <1>0, <1>1, <1>4 DEF PeriodTypes
<1>7. QED
  BY <1>0, <1>3, <1>4, <1>5, <1>6, TypeParts, Frames DEF Parts

(* The statistics stay numbers whichever field is written.                 *)
LEMMA ProcessTypes ==
  ASSUME TypeOK, Process
  PROVE  TypeOK'
<1>0. /\ Parts /\ PeriodTypes /\ StatTypes /\ HandlerTypes
      /\ UpdaterTypes /\ ThreadTypes
  BY TypeParts DEF Parts
<1>1. txnSlot \in SlotSet /\ took \in Nat /\ 0 \in SlotSet
  BY <1>0, SamplingAssumption DEF ThreadTypes, SlotSet
<1>2. /\ UNCHANGED build /\ UNCHANGED periodVars
      /\ UNCHANGED handlerVars /\ UNCHANGED updaterVars
      /\ straggler' = straggler
  BY DEF Process, NoThreadStep, handlerVars
<1>3. ASSUME StatTypes', ThreadTypes' PROVE TypeOK'
  BY <1>0, <1>2, <1>3, TypeParts, Frames DEF Parts
<1>4. /\ stats[txnSlot].num + 1 \in Nat
      /\ stats[txnSlot].time + took \in Nat
      /\ stats[txnSlot].timely + 1 \in Nat
      /\ stats[txnSlot].timely \in Nat
      /\ finished[txnSlot].num + 1 \in Nat
      /\ finished[txnSlot].time + took \in Nat
  BY <1>0, <1>1, Fields
<1>5. CASE FinishTxn
  <2>1. took' \in Nat
    BY <1>5, TookIsNat DEF FinishTxn
  <2>2. ThreadTypes'
    BY <1>0, <1>5, <2>1 DEF FinishTxn, ThreadTypes, HandlerTypes
  <2>3. QED
    BY <1>0, <1>3, <1>5, <2>2, Frames DEF FinishTxn
<1>6. CASE CountTxn
  <2>1. PICK m \in Nat : stats' = [stats EXCEPT ![txnSlot].num = m]
    BY <1>4, <1>6 DEF CountTxn
  <2>2. stats' \in [SlotSet -> [num : Nat, time : Nat, timely : Nat]]
    BY <1>0, <1>1, <2>1, PutStats DEF StatTypes
  <2>3. QED
    BY <1>0, <1>3, <1>6, <2>2 DEF CountTxn, ThreadTypes, StatTypes
<1>7. CASE AddTime
  <2>1. PICK m \in Nat : stats' = [stats EXCEPT ![txnSlot].time = m]
    BY <1>4, <1>7 DEF AddTime
  <2>2. stats' \in [SlotSet -> [num : Nat, time : Nat, timely : Nat]]
    BY <1>0, <1>1, <2>1, PutStats DEF StatTypes
  <2>3. QED
    BY <1>0, <1>3, <1>7, <2>2 DEF AddTime, ThreadTypes, StatTypes
<1>8. CASE CountTimely
  <2>1. PICK y \in Nat : stats' = [stats EXCEPT ![txnSlot].timely = y]
    BY <1>4, <1>8 DEF CountTimely
  <2>2. PICK m \in Nat, n \in Nat :
          finished' = [finished EXCEPT ![txnSlot].num = m, ![txnSlot].time = n]
    BY <1>4, <1>8 DEF CountTimely
  <2>3. stats' \in [SlotSet -> [num : Nat, time : Nat, timely : Nat]]
    BY <1>0, <1>1, <2>1, PutStats DEF StatTypes
  <2>4. finished' \in [SlotSet -> [num : Nat, time : Nat]]
    BY <1>0, <1>1, <2>2 DEF StatTypes
  <2>5. QED
    BY <1>1, <1>3, <1>8, <2>3, <2>4 DEF CountTimely, ThreadTypes, StatTypes
<1>9. QED
  BY <1>5, <1>6, <1>7, <1>8 DEF Process

LEMMA TypesStep ==
  ASSUME TypeOK, [Next]_vars
  PROVE  TypeOK'
<1>1. CASE UNCHANGED vars
  <2>1. /\ UNCHANGED <<build, stats, finished, straggler>>
        /\ UNCHANGED periodVars /\ UNCHANGED handlerVars
        /\ UNCHANGED updaterVars /\ UNCHANGED threadVars
    BY <1>1 DEF vars, handlerVars
  <2>2. QED
    BY <2>1, TypeParts, Frames DEF Parts
<1>2. QED
  BY <1>1, SampleTypes, UpdateTypes, ProcessTypes DEF Next

(* Every variable of the sampling has its type.                            *)
THEOREM SamplingTypes == Spec => []TypeOK
<1>1. Init => TypeOK
  BY TypesInit
<1>2. TypeOK /\ [Next]_vars => TypeOK'
  BY TypesStep
<1>3. QED
  BY <1>1, <1>2, PTL DEF Spec
-----------------------------------------------------------------------------
(* The statistics of a slot are what finished in it, and what the thread   *)
(* that is writing to it has written so far.                               *)
Written(s) ==
    /\ stats[s].num = finished[s].num
         + (IF thread \in {"time", "timely"} /\ s = txnSlot THEN 1 ELSE 0)
    /\ stats[s].time = finished[s].time
         + (IF thread = "timely" /\ s = txnSlot THEN took ELSE 0)

(* Behind the change of the slot a thread that is writing writes to the    *)
(* current slot, unless it started before; and the sums go on from zero.   *)
SampleInv ==
    /\ \A s \in SlotSet : Written(s)
    /\ at >= Items + 2 /\ ~straggler /\ thread # "txn"
         => txnSlot = currentSlot
    /\ at \in 1 .. Items + 2 => count = 0
    /\ at \in 1 .. Items + 3 => duration = 0
    /\ at \in {Items + 3, Items + 4} /\ ~straggler
         => count = finished[PreviousSlot].num
    /\ at = Items + 4 /\ ~straggler => duration = finished[PreviousSlot].time

(* A step that leaves slots, statistics and the writing thread alone.      *)
LEMMA SampleFrame ==
  ASSUME SampleInv,
         UNCHANGED <<currentSlot, stats, finished, thread, txnSlot, took>>,
         UNCHANGED <<at, count, duration, straggler>>
  PROVE  SampleInv'
<1>1. PreviousSlot' = PreviousSlot
  BY DEF PreviousSlot
<1>2. QED
  BY <1>1 DEF SampleInv, Written

LEMMA HandlerStep ==
  ASSUME TypeOK, SampleInv, Sample
  PROVE  SampleInv'
<1>0. /\ NewSlot \in SlotSet /\ PreviousSlot \in SlotSet
      /\ PreviousSlot # currentSlot /\ at \in 0 .. Items + 4
      /\ Items \in Nat \ {0} /\ StatTypes
  BY Ring, OtherSlot, TypeParts, SamplingAssumption DEF Parts, HandlerTypes
<1> USE DEF updaterVars, threadVars, periodVars, loadVars, sumVars,
            NoHandlerStep
<1>1. CASE Expire
  <2>1. /\ UNCHANGED <<thread, txnSlot, took>> /\ at' = 1
        /\ count' = 0 /\ duration' = 0
        /\ thread # "txn" => txnSlot # NewSlot
    BY <1>1 DEF Expire, InTime
  <2>2. finished' = [finished EXCEPT ![NewSlot].num = 0, ![NewSlot].time = 0]
    BY <1>1 DEF Expire
  <2>3. /\ finished'[NewSlot].num = 0 /\ finished'[NewSlot].time = 0
        /\ \A s \in SlotSet \ {NewSlot} : finished'[s] = finished[s]
    BY <1>0, <2>2, PutFinished DEF StatTypes
  <2>4. /\ stats'[NewSlot].num = 0 /\ stats'[NewSlot].time = 0
        /\ \A s \in SlotSet \ {NewSlot} : stats'[s] = stats[s]
    BY <1>0, <1>1 DEF Expire, Cleared, StatTypes, NoStats
  <2>5. ASSUME NEW s \in SlotSet PROVE Written(s)'
    <3>1. CASE s = NewSlot
      <4>1. ~(thread' \in {"time", "timely"} /\ s = txnSlot')
        BY <2>1, <3>1
      <4>2. QED
        BY <2>3, <2>4, <3>1, <4>1 DEF Written
    <3>2. CASE s # NewSlot
      BY <2>1, <2>3, <2>4, <3>2 DEF SampleInv, Written
    <3>3. QED
      BY <3>1, <3>2
  <2>6. ~(at' >= Items + 2) /\ at' \notin {Items + 3, Items + 4}
    BY <1>0, <2>1
  <2>7. QED
    BY <2>1, <2>5, <2>6 DEF SampleInv
<1>2. CASE SampleItem /\ NoHandlerStep
  <2>1. /\ UNCHANGED <<currentSlot, stats, finished, thread, txnSlot, took>>
        /\ UNCHANGED <<count, duration, straggler>>
        /\ at \in 1 .. Items /\ at' = at + 1
    BY <1>2 DEF SampleItem
  <2>2. \A s \in SlotSet : Written(s)' = Written(s)
    BY <2>1 DEF Written
  <2>3. ~(at' >= Items + 2) /\ at' \notin {Items + 3, Items + 4}
    BY <1>0, <2>1
  <2>4. count = 0 /\ duration = 0
    BY <1>0, <2>1 DEF SampleInv
  <2>5. QED
    BY <2>1, <2>2, <2>3, <2>4 DEF SampleInv
<1>3. CASE Publish /\ NoHandlerStep
  <2>1. /\ UNCHANGED <<stats, finished, thread, txnSlot, took>>
        /\ UNCHANGED <<count, duration>>
        /\ straggler' = (thread # "txn")
        /\ at = Items + 1 /\ at' = Items + 2
    BY <1>0, <1>3 DEF Publish
  <2>2. \A s \in SlotSet : Written(s)' = Written(s)
    BY <2>1 DEF Written
  <2>3. ~straggler' => thread' = "txn"
    BY <2>1
  <2>4. count = 0 /\ duration = 0
    BY <1>0, <2>1 DEF SampleInv
  <2>5. at' \notin {Items + 3, Items + 4}
    BY <1>0, <2>1
  <2>6. QED
    BY <2>1, <2>2, <2>3, <2>4, <2>5 DEF SampleInv
<1>4. CASE (SumCount \/ SumDuration) /\ NoHandlerStep
  <2>1. UNCHANGED <<currentSlot, stats, finished, thread, txnSlot, took,
                    straggler>>
    BY <1>4 DEF SumCount, SumDuration
  <2>2. /\ \A s \in SlotSet : Written(s)' = Written(s)
        /\ PreviousSlot' = PreviousSlot
    BY <2>1 DEF Written, PreviousSlot
  <2>3. at \in {Items + 2, Items + 3} /\ ~straggler
          => /\ stats[PreviousSlot].num = finished[PreviousSlot].num
             /\ stats[PreviousSlot].time = finished[PreviousSlot].time
    <3>1. finished[PreviousSlot].num \in Nat /\ finished[PreviousSlot].time \in Nat
      BY <1>0, Fields
    <3>2. Written(PreviousSlot)
      BY <1>0 DEF SampleInv
    <3>3. at \in {Items + 2, Items + 3} /\ ~straggler
            => ~(thread \in {"time", "timely"} /\ PreviousSlot = txnSlot)
      BY <1>0 DEF SampleInv
    <3>4. QED
      BY <3>1, <3>2, <3>3 DEF Written
  <2>4. stats[PreviousSlot].num \in Nat /\ stats[PreviousSlot].time \in Nat
    BY <1>0, Fields
  <2>5. CASE SumCount
    <3>1. /\ at = Items + 2 /\ at' = Items + 3 /\ duration' = duration
          /\ count' = stats[PreviousSlot].num
      BY <1>0, <2>4, <2>5 DEF SumCount, SampleInv
    <3>2. QED
      BY <1>0, <2>1, <2>2, <2>3, <3>1 DEF SampleInv
  <2>6. CASE SumDuration
    <3>1. /\ at = Items + 3 /\ at' = Items + 4 /\ count' = count
          /\ duration' = stats[PreviousSlot].time
      BY <1>0, <2>4, <2>6 DEF SumDuration, SampleInv
    <3>2. QED
      BY <1>0, <2>1, <2>2, <2>3, <3>1 DEF SampleInv
  <2>7. QED
    BY <1>4, <2>5, <2>6
<1>5. CASE Overload /\ NoHandlerStep
  <2>1. /\ UNCHANGED <<stats, finished, thread, txnSlot, took>>
        /\ at' = 0
    BY <1>5 DEF Overload
  <2>2. \A s \in SlotSet : Written(s)' = Written(s)
    BY <2>1 DEF Written
  <2>3. QED
    BY <1>0, <2>1, <2>2 DEF SampleInv
<1>6. QED
  BY <1>1, <1>2, <1>3, <1>4, <1>5 DEF Sample

LEMMA ProcessStep ==
  ASSUME TypeOK, SampleInv, Process
  PROVE  SampleInv'
<1>0. /\ PreviousSlot \in SlotSet /\ PreviousSlot # currentSlot
      /\ StatTypes /\ txnSlot \in SlotSet /\ took \in Nat
      /\ currentSlot \in SlotSet
  BY Ring, OtherSlot, TypeParts DEF Parts, HandlerTypes, ThreadTypes
<1>1. UNCHANGED <<currentSlot, at, count, duration, straggler>>
  BY DEF Process, NoThreadStep, handlerVars
<1>2. PreviousSlot' = PreviousSlot
  BY <1>1 DEF PreviousSlot
<1>3. ASSUME \A s \in SlotSet : Written(s)',
             thread' = "txn" \/ txnSlot' = currentSlot \/ txnSlot' = txnSlot,
             thread = "txn" /\ thread' # "txn" => txnSlot' = currentSlot,
             finished' = finished
      PROVE  SampleInv'
  BY <1>1, <1>2, <1>3 DEF SampleInv
<1>4. \A s \in SlotSet : /\ stats[s].num \in Nat /\ stats[s].time \in Nat
                         /\ finished[s].num \in Nat /\ finished[s].time \in Nat
  BY <1>0, Fields
<1>5. CASE FinishTxn
  <2>1. \A s \in SlotSet : Written(s)'
    BY <1>5 DEF FinishTxn, SampleInv, Written
  <2>2. QED
    BY <1>3, <1>5, <2>1 DEF FinishTxn
<1>6. CASE CountTxn
  <2> DEFINE m == stats[txnSlot].num + 1
  <2>1. /\ thread = "num" /\ thread' = "time"
        /\ UNCHANGED <<txnSlot, took, finished>>
    BY <1>6 DEF CountTxn
  <2>2. m \in Nat
    BY <1>0, <1>4
  <2>3. stats' = [stats EXCEPT ![txnSlot].num = m]
    BY <1>6 DEF CountTxn
  <2> HIDE DEF m
  <2>4. /\ stats'[txnSlot].num = m /\ stats'[txnSlot].time = stats[txnSlot].time
        /\ \A s \in SlotSet \ {txnSlot} : stats'[s] = stats[s]
    BY <1>0, <2>2, <2>3, PutStats DEF StatTypes
  <2>5. ASSUME NEW s \in SlotSet PROVE Written(s)'
    <3>1. CASE s = txnSlot
      BY <1>0, <1>4, <2>1, <2>4, <3>1 DEF SampleInv, Written, m
    <3>2. CASE s # txnSlot
      BY <2>1, <2>4, <3>2 DEF SampleInv, Written
    <3>3. QED
      BY <3>1, <3>2
  <2>6. QED
    BY <1>3, <2>1, <2>5
<1>7. CASE AddTime
  <2> DEFINE m == stats[txnSlot].time + took
  <2>1. /\ thread = "time" /\ thread' = "timely"
        /\ UNCHANGED <<txnSlot, took, finished>>
    BY <1>7 DEF AddTime
  <2>2. m \in Nat
    BY <1>0, <1>4
  <2>3. stats' = [stats EXCEPT ![txnSlot].time = m]
    BY <1>7 DEF AddTime
  <2> HIDE DEF m
  <2>4. /\ stats'[txnSlot].time = m /\ stats'[txnSlot].num = stats[txnSlot].num
        /\ \A s \in SlotSet \ {txnSlot} : stats'[s] = stats[s]
    BY <1>0, <2>2, <2>3, PutStats DEF StatTypes
  <2>5. ASSUME NEW s \in SlotSet PROVE Written(s)'
    <3>1. CASE s = txnSlot
      BY <1>0, <1>4, <2>1, <2>4, <3>1 DEF SampleInv, Written, m
    <3>2. CASE s # txnSlot
      BY <2>1, <2>4, <3>2 DEF SampleInv, Written
    <3>3. QED
      BY <3>1, <3>2
  <2>6. QED
    BY <1>3, <2>1, <2>5
<1>8. CASE CountTimely
  <2> DEFINE m == finished[txnSlot].num + 1
             n == finished[txnSlot].time + took
  <2>1. thread = "timely" /\ thread' = "txn"
    BY <1>8 DEF CountTimely
  <2>2. PICK y \in Nat : stats' = [stats EXCEPT ![txnSlot].timely = y]
    <3>1. stats[txnSlot].timely \in Nat /\ stats[txnSlot].timely + 1 \in Nat
      BY <1>0, Fields
    <3>2. \/ stats' = [stats EXCEPT ![txnSlot].timely = stats[txnSlot].timely]
          \/ stats' = [stats EXCEPT ![txnSlot].timely =
                                                stats[txnSlot].timely + 1]
      BY <1>8 DEF CountTimely
    <3>3. QED
      BY <3>1, <3>2
  <2>3. \A s \in SlotSet : /\ stats'[s].num = stats[s].num
                           /\ stats'[s].time = stats[s].time
    BY <1>0, <2>2, PutStats DEF StatTypes
  <2>4. m \in Nat /\ n \in Nat
    BY <1>0, <1>4
  <2>5. finished' = [finished EXCEPT ![txnSlot].num = m, ![txnSlot].time = n]
    BY <1>8 DEF CountTimely
  <2> HIDE DEF m, n
  <2>6. /\ finished'[txnSlot].num = m /\ finished'[txnSlot].time = n
        /\ \A s \in SlotSet \ {txnSlot} : finished'[s] = finished[s]
    BY <1>0, <2>4, <2>5, PutFinished DEF StatTypes
  <2>7. ASSUME NEW s \in SlotSet PROVE Written(s)'
    <3>1. CASE s = txnSlot
      BY <1>0, <1>4, <2>1, <2>3, <2>6, <3>1 DEF SampleInv, Written, m, n
    <3>2. CASE s # txnSlot
      <4>1. finished'[s] = finished[s]
        BY <2>6, <3>2
      <4>2. finished[s].num \in Nat /\ finished[s].time \in Nat
        BY <1>4
      <4>3. stats[s].num = finished[s].num /\ stats[s].time = finished[s].time
        BY <3>2, <4>2 DEF SampleInv, Written
      <4>4. QED
        BY <2>1, <2>3, <4>1, <4>2, <4>3 DEF Written
    <3>3. QED
      BY <3>1, <3>2
  <2>8. at >= Items + 2 /\ ~straggler
          => finished'[PreviousSlot] = finished[PreviousSlot]
    BY <1>0, <2>1, <2>6 DEF SampleInv
  <2>9. at \in {Items + 3, Items + 4} => at >= Items + 2
    BY SamplingAssumption
  <2>10. QED
    BY <1>1, <1>2, <2>1, <2>7, <2>8, <2>9 DEF SampleInv
<1>9. QED
  BY <1>5, <1>6, <1>7, <1>8 DEF Process

LEMMA SampleStep ==
  ASSUME TypeOK, SampleInv, [Next]_vars
  PROVE  SampleInv'
<1>1. CASE Update
  BY <1>1, SampleFrame DEF Update, NoUpdaterStep, handlerVars, threadVars
<1>2. CASE UNCHANGED vars
  BY <1>2, SampleFrame DEF vars, handlerVars, threadVars
<1>3. QED
  BY <1>1, <1>2, HandlerStep, ProcessStep DEF Next

LEMMA SampleInit == Init => SampleInv
<1> SUFFICES ASSUME Init PROVE SampleInv
  OBVIOUS
<1>1. \A s \in SlotSet : Written(s)
  BY DEF Init, Written, NoStats
<1>2. at = 0 /\ Items \in Nat \ {0}
  BY SamplingAssumption DEF Init
<1>3. QED
  BY <1>1, <1>2 DEF SampleInv

(* A sample is exactly what finished in its slot, unless a thread was in   *)
(* the middle of its statistics when the slot changed.                     *)
THEOREM SamplesAreExact == Spec => []SampleIsExact
<1>1. Init => SampleInv
  BY SampleInit
<1>2. TypeOK /\ SampleInv /\ [Next]_vars => SampleInv'
  BY SampleStep
<1>3. SampleInv => SampleIsExact
  BY DEF SampleInv, SampleIsExact
<1>4. QED
  BY <1>1, <1>2, <1>3, SamplingTypes, PTL DEF Spec
-----------------------------------------------------------------------------
(* The periods in the ring.  In the first round the slots are filled one   *)
(* by one, and a period has not been relaxed more often than the number of *)
(* its slot; so none is refused and no slot is passed over empty.          *)
Ceiling(s) == 10 * MinPeriod + s * MaxPeriod

FirstRound(i) == updatePeriod[i][Slots - 1] = 0

SlotPeriod(i, s) ==
    LET p == updatePeriod[i][s]
    IN  /\ p = 0 => /\ s > currentSlot
                    /\ \A t \in SlotSet : t > s => updatePeriod[i][t] = 0
        /\ p # 0 => p >= MinPeriod /\ (FirstRound(i) => 10 * p <= Ceiling(s))

PeriodInv ==
    /\ \A i \in 1 .. Items : \A s \in SlotSet : SlotPeriod(i, s)
    /\ \A i \in 1 .. Items :
          i < at /\ at <= Items + 1 => updatePeriod[i][NewSlot] # 0
    /\ slot # -1 => updatePeriod[item][slot] # 0
    /\ UsedIsInBounds

LEMMA RingOrder ==
  ASSUME currentSlot \in SlotSet
  PROVE  NewSlot = IF currentSlot = Slots - 1 THEN 0 ELSE currentSlot + 1
<1> DEFINE S == Slots
           m == currentSlot + 1
           q == m \div S
<1>1. /\ S \in Nat \ {0, 1} /\ m \in Nat /\ 1 <= m /\ m <= S
      /\ currentSlot \in Nat
  BY SamplingAssumption DEF SlotSet
<1>2. q \in Nat /\ m % S \in 0 .. S - 1 /\ m = S * q + (m % S)
  BY <1>1, Division
<1>3. NewSlot = m % S
  BY DEF NewSlot
<1>4. /\ q = 0 => S * q = 0
      /\ q = 1 => S * q = S
      /\ q >= 2 => S * q >= 2 * S
  BY <1>1, <1>2
<1> HIDE DEF q
<1>5. QED
  BY <1>1, <1>2, <1>3, <1>4

LEMMA Ceilings ==
  ASSUME NEW s \in SlotSet
  PROVE  /\ Ceiling(s) \in Nat /\ Ceiling(s) >= 10 * MinPeriod
         /\ s # Slots - 1 => /\ Ceiling(s + 1) = Ceiling(s) + MaxPeriod
                             /\ Ceiling(s + 1) <= 10 * MaxPeriod
<1>1. /\ s \in Nat /\ Slots \in Nat /\ s <= Slots - 1
      /\ MinPeriod \in Nat /\ MaxPeriod \in Nat
  BY SamplingAssumption DEF SlotSet
<1>2. s * MaxPeriod \in Nat
  BY <1>1
<1>3. (s + 1) * MaxPeriod = s * MaxPeriod + MaxPeriod
  BY <1>1
<1>4. ASSUME s # Slots - 1 PROVE Ceiling(s + 1) <= 10 * MaxPeriod
  <2> DEFINE d == Slots - 1 - (s + 1)
  <2>1. d \in Nat /\ Slots - 1 = s + 1 + d
    BY <1>1, <1>4
  <2> HIDE DEF d
  <2>2. (Slots - 1) * MaxPeriod = (s + 1) * MaxPeriod + d * MaxPeriod
    BY <1>1, <2>1
  <2>3. d * MaxPeriod \in Nat /\ (s + 1) * MaxPeriod \in Nat
    BY <1>1, <2>1
  <2>4. QED
    BY <1>1, <2>2, <2>3, RingAssumption DEF Ceiling
<1>5. QED
  BY <1>1, <1>2, <1>3, <1>4 DEF Ceiling

LEMMA RelaxedBounds ==
  ASSUME NEW p \in Nat
  PROVE  /\ Relaxed(p) \in Nat /\ Relaxed(p) >= p
         /\ 10 * Relaxed(p) <= 11 * p
<1>1. 11 * p \in Nat
  OBVIOUS
<1>2. QED
  BY <1>1, Division DEF Relaxed

(* What SampleItem stores for an item is a period, and in the first round  *)
(* one below the ceiling of the new slot.                                  *)
LEMMA StoredPeriod ==
  ASSUME TypeOK, PeriodInv, NEW i \in 1 .. Items
  PROVE  LET n == NewPeriod(updatePeriod[i][currentSlot],
                            updatePeriod[i][NewSlot])
         IN  /\ n # 0 /\ n \in MinPeriod .. MaxPeriod
             /\ FirstRound(i) => 10 * n <= Ceiling(NewSlot)
<1> DEFINE p == updatePeriod[i][currentSlot]
           old == updatePeriod[i][NewSlot]
           n == NewPeriod(p, old)
<1>1. /\ currentSlot \in SlotSet /\ NewSlot \in SlotSet
      /\ \A s \in SlotSet : updatePeriod[i][s] \in 0 .. MaxPeriod
      /\ MinPeriod \in Nat \ {0} /\ MaxPeriod \in Nat /\ Slots \in Nat \ {0, 1}
      /\ MinPeriod <= MaxPeriod
  <2>1. PeriodTypes /\ HandlerTypes
    BY TypeParts DEF Parts
  <2>2. currentSlot \in SlotSet /\ NewSlot \in SlotSet
    BY <2>1, Ring DEF HandlerTypes
  <2>3. QED
    BY <2>1, <2>2, SamplingAssumption DEF PeriodTypes
<1>2. SlotPeriod(i, currentSlot) /\ SlotPeriod(i, NewSlot)
  BY <1>1 DEF PeriodInv
<1>3. /\ p \in Nat /\ p <= MaxPeriod /\ old \in Nat /\ old <= MaxPeriod
      /\ p # 0 /\ p >= MinPeriod
      /\ FirstRound(i) => 10 * p <= Ceiling(currentSlot)
  BY <1>1, <1>2 DEF SlotPeriod, SlotSet
<1>4. /\ Relaxed(p) \in Nat /\ Relaxed(p) >= p /\ 10 * Relaxed(p) <= 11 * p
  BY <1>3, RelaxedBounds
<1>5. FirstRound(i) => /\ NewSlot = currentSlot + 1
                       /\ 10 * Relaxed(p) <= Ceiling(NewSlot)
                       /\ Ceiling(NewSlot) <= 10 * MaxPeriod
  <2> SUFFICES ASSUME FirstRound(i)
               PROVE  /\ NewSlot = currentSlot + 1
                      /\ 10 * Relaxed(p) <= Ceiling(NewSlot)
                      /\ Ceiling(NewSlot) <= 10 * MaxPeriod
    OBVIOUS
  <2>1. currentSlot # Slots - 1
    BY <1>3 DEF FirstRound
  <2>2. NewSlot = currentSlot + 1
    BY <1>1, <2>1, RingOrder
  <2>3. /\ Ceiling(NewSlot) = Ceiling(currentSlot) + MaxPeriod
        /\ Ceiling(NewSlot) <= 10 * MaxPeriod /\ Ceiling(currentSlot) \in Nat
    BY <1>1, <2>1, <2>2, Ceilings
  <2>4. QED
    BY <1>1, <1>3, <1>4, <2>2, <2>3
<1>6. Ceiling(NewSlot) >= 10 * MinPeriod
  BY <1>1, Ceilings
<1>7. old = 0 => FirstRound(i)
  <2>1. Slots - 1 \in SlotSet
    BY <1>1 DEF SlotSet
  <2>2. NewSlot = Slots - 1 \/ Slots - 1 > NewSlot
    BY <1>1 DEF SlotSet
  <2>3. QED
    BY <1>2, <2>1, <2>2 DEF SlotPeriod, FirstRound
<1>8. old # 0 => /\ old >= MinPeriod
                 /\ FirstRound(i) => 10 * old <= Ceiling(NewSlot)
  BY <1>2 DEF SlotPeriod
<1> HIDE DEF p, old
<1>9. CASE ~Adapts
  <2>1. n = MinPeriod
    BY <1>9 DEF NewPeriod
  <2>2. QED
    BY <1>1, <1>6, <2>1 DEF p, old
<1>10. CASE Adapts /\ Relaxed(p) <= MaxPeriod
  <2>1. n = Relaxed(p)
    BY <1>10 DEF NewPeriod
  <2>2. QED
    BY <1>1, <1>3, <1>4, <1>5, <1>10, <2>1 DEF p, old
<1>11. CASE Adapts /\ ~(Relaxed(p) <= MaxPeriod)
  <2>1. n = old
    BY <1>11 DEF NewPeriod
  <2>2. ~FirstRound(i)
    <3>1. /\ Ceiling(NewSlot) \in Nat /\ Relaxed(p) \in Nat
      BY <1>1, <1>4, Ceilings
    <3>2. QED
      BY <1>1, <1>5, <1>11, <3>1
  <2>3. old # 0
    BY <1>7, <2>2
  <2>4. QED
    BY <1>1, <1>3, <1>8, <2>1, <2>3 DEF p, old
<1>12. QED
  BY <1>9, <1>10, <1>11

LEMMA SampleItemStep ==
  ASSUME TypeOK, PeriodInv, SampleItem, NoHandlerStep
  PROVE  PeriodInv'
<1> DEFINE n == NewPeriod(updatePeriod[at][currentSlot],
                          updatePeriod[at][NewSlot])
<1>1. /\ currentSlot \in SlotSet /\ NewSlot \in SlotSet
      /\ updatePeriod \in [1 .. Items -> [SlotSet -> 0 .. MaxPeriod]]
      /\ at \in 1 .. Items /\ Items \in Nat /\ item \in 1 .. Items
      /\ slot \in SlotSet \cup {-1}
      /\ MinPeriod \in Nat \ {0} /\ Slots \in Nat \ {0, 1}
  BY Ring, TypeParts, SamplingAssumption
     DEF Parts, PeriodTypes, HandlerTypes, UpdaterTypes, SampleItem
<1>2. /\ n # 0 /\ n \in MinPeriod .. MaxPeriod
      /\ FirstRound(at) => 10 * n <= Ceiling(NewSlot)
  BY <1>1, StoredPeriod
<1>3. /\ updatePeriod' = [updatePeriod EXCEPT ![at][NewSlot] = n]
      /\ UNCHANGED <<currentSlot, item, slot, used>> /\ at' = at + 1
      /\ NewSlot' = NewSlot
  BY <1>1 DEF SampleItem, NoHandlerStep, updaterVars, NewSlot
<1> HIDE DEF n
<1>4. /\ updatePeriod'[at][NewSlot] = n
      /\ \A i \in 1 .. Items, s \in SlotSet :
            i # at \/ s # NewSlot => updatePeriod'[i][s] = updatePeriod[i][s]
  BY <1>1, <1>3
<1>5. \A i \in 1 .. Items, s \in SlotSet :
         updatePeriod[i][s] # 0 => updatePeriod'[i][s] # 0
  BY <1>2, <1>4
<1>6. \A i \in 1 .. Items : FirstRound(i)' => FirstRound(i)
  <2>1. Slots - 1 \in SlotSet
    BY <1>1 DEF SlotSet
  <2>2. QED
    BY <1>5, <2>1 DEF FirstRound
<1>7. ASSUME NEW i \in 1 .. Items, NEW s \in SlotSet
      PROVE  SlotPeriod(i, s)'
  <2>1. CASE i = at /\ s = NewSlot
    <3>1. updatePeriod'[i][s] = n
      BY <1>4, <2>1
    <3>2. FirstRound(i)' => 10 * n <= Ceiling(s)
      BY <1>2, <1>6, <2>1
    <3>3. QED
      BY <1>1, <1>2, <3>1, <3>2 DEF SlotPeriod, Ceiling
  <2>2. CASE ~(i = at /\ s = NewSlot)
    <3>1. updatePeriod'[i][s] = updatePeriod[i][s]
      BY <1>4, <2>2
    <3>2. SlotPeriod(i, s)
      BY DEF PeriodInv
    <3>3. ASSUME updatePeriod[i][s] = 0
          PROVE  /\ s > currentSlot
                 /\ \A t \in SlotSet : t > s => updatePeriod'[i][t] = 0
      <4>1. s > currentSlot
        BY <3>2, <3>3 DEF SlotPeriod
      <4>2. NewSlot <= s
        BY <1>1, <4>1, RingOrder DEF SlotSet
      <4>3. \A t \in SlotSet : t > s => t # NewSlot
        BY <1>1, <4>2 DEF SlotSet
      <4>4. QED
        BY <1>4, <3>2, <3>3, <4>1, <4>3 DEF SlotPeriod
    <3>4. QED
      BY <1>3, <1>6, <3>1, <3>2, <3>3 DEF SlotPeriod, Ceiling
  <2>3. QED
    BY <2>1, <2>2
<1>8. ASSUME NEW i \in 1 .. Items, i < at', at' <= Items + 1
      PROVE  updatePeriod'[i][NewSlot'] # 0
  <2>1. CASE i = at
    BY <1>2, <1>3, <1>4, <2>1
  <2>2. CASE i # at
    <3>1. i < at /\ at <= Items + 1
      BY <1>1, <1>3, <1>8, <2>2
    <3>2. QED
      BY <1>1, <1>3, <1>5, <3>1 DEF PeriodInv
  <2>3. QED
    BY <2>1, <2>2
<1>9. slot' # -1 => updatePeriod'[item'][slot'] # 0
  BY <1>1, <1>3, <1>5 DEF PeriodInv
<1>10. UsedIsInBounds'
  BY <1>3 DEF PeriodInv, UsedIsInBounds
<1>11. QED
  BY <1>7, <1>8, <1>9, <1>10 DEF PeriodInv

(* The new slot has a period of every item when it becomes current.        *)
LEMMA PublishStep ==
  ASSUME TypeOK, PeriodInv, Publish, NoHandlerStep
  PROVE  PeriodInv'
<1>1. /\ currentSlot \in SlotSet /\ NewSlot \in SlotSet
      /\ Items \in Nat /\ at = Items + 1 /\ at' = Items + 2
      /\ currentSlot' = NewSlot
      /\ UNCHANGED <<updatePeriod, item, slot, used>>
  BY Ring, TypeParts, SamplingAssumption
     DEF Parts, HandlerTypes, Publish, NoHandlerStep, periodVars, updaterVars
<1>2. ASSUME NEW i \in 1 .. Items, NEW s \in SlotSet
      PROVE  SlotPeriod(i, s)'
  <2>1. SlotPeriod(i, s)
    BY DEF PeriodInv
  <2>2. updatePeriod[i][NewSlot] # 0
    BY <1>1 DEF PeriodInv
  <2>3. updatePeriod[i][s] = 0 => s > NewSlot
    BY <1>1, <2>1, <2>2, RingOrder DEF SlotPeriod, SlotSet
  <2>4. QED
    BY <1>1, <2>1, <2>3 DEF SlotPeriod, FirstRound, Ceiling
<1>3. ~(at' <= Items + 1)
  BY <1>1
<1>4. QED
  BY <1>1, <1>2, <1>3 DEF PeriodInv, UsedIsInBounds

(* A step that leaves the periods and the handler's loop alone.            *)
LEMMA PeriodFrame ==
  ASSUME PeriodInv, UNCHANGED <<currentSlot, updatePeriod>>,
         at' = at \/ at' \in {0, 1} \/ ~(at' <= Items + 1),
         slot' # -1 => updatePeriod[item'][slot'] # 0, UsedIsInBounds'
  PROVE  PeriodInv'
<1>1. \A i \in 1 .. Items, s \in SlotSet : SlotPeriod(i, s)'
  BY DEF PeriodInv, SlotPeriod, FirstRound, Ceiling
<1>2. ASSUME NEW i \in 1 .. Items, i < at', at' <= Items + 1
      PROVE  updatePeriod'[i][NewSlot'] # 0
  <2>1. at' = at
    BY <1>2
  <2>2. NewSlot' = NewSlot
    BY DEF NewSlot
  <2>3. QED
    BY <1>2, <2>1, <2>2 DEF PeriodInv
<1>3. QED
  BY <1>1, <1>2 DEF PeriodInv

LEMMA PeriodStep ==
  ASSUME TypeOK, PeriodInv, [Next]_vars
  PROVE  PeriodInv'
<1>0. /\ currentSlot \in SlotSet /\ at \in 0 .. Items + 4
      /\ updatePeriod \in [1 .. Items -> [SlotSet -> 0 .. MaxPeriod]]
      /\ Items \in Nat \ {0} /\ item \in 1 .. Items
      /\ slot \in SlotSet \cup {-1}
      /\ MinPeriod \in Nat \ {0} /\ MaxPeriod \in Nat
  BY TypeParts, SamplingAssumption
     DEF Parts, PeriodTypes, HandlerTypes, UpdaterTypes
<1>1. /\ slot # -1 => updatePeriod[item][slot] # 0
      /\ UsedIsInBounds
  BY DEF PeriodInv
<1>2. ASSUME UNCHANGED <<currentSlot, updatePeriod, item, slot, used>>,
             at' = at \/ at' \in {0, 1} \/ ~(at' <= Items + 1)
      PROVE  PeriodInv'
  BY <1>1, <1>2, PeriodFrame DEF UsedIsInBounds
<1>3. CASE Expire
  BY <1>2, <1>3 DEF Expire, periodVars, updaterVars
<1>4. CASE SampleItem /\ NoHandlerStep
  BY <1>4, SampleItemStep
<1>5. CASE Publish /\ NoHandlerStep
  BY <1>5, PublishStep
<1>6. CASE (SumCount \/ SumDuration \/ Overload) /\ NoHandlerStep
  <2>1. at' = 0 \/ ~(at' <= Items + 1)
    BY <1>0, <1>6 DEF SumCount, SumDuration, Overload
  <2>2. UNCHANGED <<currentSlot, updatePeriod, item, slot, used>>
    BY <1>6 DEF SumCount, SumDuration, Overload, NoHandlerStep, periodVars,
                updaterVars
  <2>3. QED
    BY <1>2, <2>1, <2>2
<1>7. CASE Update
  <2>1. UNCHANGED <<currentSlot, updatePeriod, at>>
    BY <1>7 DEF Update, NoUpdaterStep, handlerVars
  <2>2. CASE CountUpdate
    <3>1. updatePeriod[item][currentSlot] # 0
      BY <1>0 DEF PeriodInv, SlotPeriod, SlotSet
    <3>2. QED
      BY <1>1, <2>1, <2>2, <3>1, PeriodFrame DEF CountUpdate, UsedIsInBounds
  <2>3. CASE SetNextUpdate
    <3>1. slot \in SlotSet /\ updatePeriod[item][slot] # 0
      BY <1>0, <1>1, <2>3 DEF SetNextUpdate
    <3>2. SlotPeriod(item, slot)
      BY <1>0, <3>1 DEF PeriodInv
    <3>3. updatePeriod[item][slot] \in MinPeriod .. MaxPeriod
      BY <1>0, <3>1, <3>2 DEF SlotPeriod
    <3>4. QED
      BY <2>1, <2>3, <3>3, PeriodFrame DEF SetNextUpdate, UsedIsInBounds
  <2>4. CASE SkipItem
    BY <1>1, <2>1, <2>4, PeriodFrame DEF SkipItem, UsedIsInBounds
  <2>5. QED
    BY <1>7, <2>2, <2>3, <2>4 DEF Update
<1>8. CASE Process \/ UNCHANGED vars
  BY <1>2, <1>8 DEF Process, NoThreadStep, vars, periodVars, handlerVars,
                    updaterVars
<1>9. QED
  BY <1>3, <1>4, <1>5, <1>6, <1>7, <1>8 DEF Next, Sample

LEMMA PeriodInit == Init => PeriodInv
<1> SUFFICES ASSUME Init PROVE PeriodInv
  OBVIOUS
<1>1. /\ MinPeriod \in Nat \ {0} /\ Slots \in Nat \ {0, 1}
      /\ Items \in Nat \ {0} /\ MaxPeriod \in Nat
  BY SamplingAssumption
<1>2. /\ currentSlot = 0 /\ at = 0 /\ slot = -1 /\ used = -1
      /\ \A i \in 1 .. Items, s \in SlotSet :
            updatePeriod[i][s] = IF s = 0 THEN MinPeriod ELSE 0
  BY DEF Init
<1>3. Ceiling(0) = 10 * MinPeriod
  BY <1>1 DEF Ceiling
<1>4. \A i \in 1 .. Items, s \in SlotSet : SlotPeriod(i, s)
  BY <1>1, <1>2, <1>3 DEF SlotPeriod, SlotSet
<1>5. QED
  BY <1>1, <1>2, <1>4 DEF PeriodInv, UsedIsInBounds

(* The update thread never waits for less than half the validity interval, *)
(* nor for more than the bound of the relaxation: it never reads a slot    *)
(* that nothing has been stored in.                                        *)
THEOREM UsedPeriodsInBounds == Spec => []UsedIsInBounds
<1>1. Init => PeriodInv
  BY PeriodInit
<1>2. TypeOK /\ PeriodInv /\ [Next]_vars => PeriodInv'
  BY PeriodStep
<1>3. PeriodInv => UsedIsInBounds
  BY DEF PeriodInv
<1>4. QED
  BY <1>1, <1>2, <1>3, SamplingTypes, PTL DEF Spec
=============================================================================
