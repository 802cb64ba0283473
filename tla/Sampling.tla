------------------------------ MODULE Sampling ------------------------------
(***************************************************************************)
(* handler_sampling, the handler of the sampling timer, next to the update *)
(* thread that uses the periods it computes and to a processing thread     *)
(* that feeds the statistics it reads.  A data item has an update period   *)
(* in each slot of a ring; the handler computes the period of the next     *)
(* slot from that of the current one and then makes the next slot the      *)
(* current one.  The statistics of the slot that was current until then    *)
(* give the delay, and that gives num_txn_to_wait.                         *)
(*                                                                         *)
(* accessUpdateRatio starts at zero and nothing ever adds to it, so it is  *)
(* zero after every division, or NaN after one by zero: the branch for hot *)
(* data, ratio > 1, is never taken and is left out.  Periods are integers, *)
(* fine enough for a factor of 1.1.  The degrees are doubles in the code   *)
(* and numbers of grains here: a positive degree below one grain counts as *)
(* one, so a degree that has been positive never is zero again by being    *)
(* smoothed, as that of the code never is.  A processing thread has        *)
(* statistics of its own and the sums over threads are left out;           *)
(* num_failed_txns is only printed.                                        *)
(***************************************************************************)
EXTENDS ChronosTime, FiniteSetsExt

CONSTANTS Items,       (* the data items are 1 .. Items                    *)
          Slots,       (* CHRONOS_SAMPLING_SPACE                           *)
          MinPeriod,   (* minUpdatePeriodMS                                *)
          MaxPeriod,   (* maxUpdatePeriodMS                                *)
          Bound,       (* desiredDelayBoundMS                              *)
          Builds,      (* running modes and compile-time options: updates, *)
                       (* user transactions ("txns")                       *)
          Spans,       (* txn_begin and txn_end of transactions            *)
          Grain,       (* grains of a degree of one                        *)
          Enqueued,    (* how many transactions it may find in the queues  *)
          MaxTxns      (* bound of the model: transactions in the ring     *)

ASSUME SamplingAssumption ==
    /\ Items \in Nat \ {0}
    /\ Slots \in Nat \ {0, 1}
    /\ MinPeriod \in Nat \ {0}
    /\ MaxPeriod \in Nat /\ MaxPeriod >= MinPeriod
    /\ Bound \in Nat \ {0}
    /\ Builds \subseteq [mode : {"base", "ac", "aup", "full"},
                         options : SUBSET {"updates", "txns"}]
    /\ \A span \in Spans : /\ span.begin \in Times /\ Normal(span.begin)
                            /\ span.end \in Times /\ Normal(span.end)
                            /\ Before(span.begin, span.end)
    /\ Grain \in Nat \ {0}
    /\ Enqueued \subseteq Nat
    /\ MaxTxns \in Nat

(* A grain is small beside what the queues can hold: the hundredth part of *)
(* a degree of one grain is less than one transaction.                     *)
ASSUME GrainAssumption == \A enqueued \in Enqueued : enqueued < 100 * Grain

(* The bounds, half the validity interval and CHRONOS_UPDATE_PERIOD_       *)
(* RELAXATION_BOUND times that, are so far apart that one step of 1.1 for  *)
(* each slot of the ring does not lead from one to the other: as long as a *)
(* step is of no more than a tenth of the upper one.                       *)
ASSUME RingAssumption ==
    10 * MinPeriod + (Slots - 1) * MaxPeriod <= 10 * MaxPeriod

VARIABLES build,            (* runningMode and options                     *)
          currentSlot,      (* currentSlot                                 *)
          updatePeriod,     (* updatePeriodMS of an item in a slot, 0 when *)
                            (* nothing has been stored there               *)
          counted,          (* updateFrequency is not zero                 *)
          stats,            (* stats_matrix: of a slot, num_txns,          *)
                            (* cumulative_time_ms, num_timely_txns         *)
          at,               (* the item the handler is at, and the stages  *)
                            (* behind the loop; 0 between two expiries     *)
          count,            (* its count                                   *)
          duration,         (* its duration_ms                             *)
          smoothed,         (* smoth_degree_timing_violation               *)
          degree,           (* degree_timing_violation                     *)
          numTxnToWait,     (* num_txn_to_wait                             *)
          item,             (* the item the update thread is at            *)
          slot,             (* its current_slot, -1 when it has not read   *)
                            (* currentSlot for this item                   *)
          used,             (* the period it used last, -1 before that     *)
          thread,           (* where the processing thread is              *)
          txnSlot,          (* its current_slot                            *)
          took,             (* its txn_duration_ms                         *)
          finished,         (* history: transactions of a slot whose       *)
                            (* statistics are complete, and their time     *)
          straggler         (* history: statistics were incomplete when    *)
                            (* the current slot changed                    *)

periodVars == <<updatePeriod, counted>>
handlerVars == <<currentSlot, at, count, duration, smoothed, degree,
                 numTxnToWait, straggler>>
updaterVars == <<item, slot, used>>
threadVars == <<thread, txnSlot, took>>
vars == <<build, periodVars, stats, finished, handlerVars, updaterVars,
          threadVars>>

SlotSet == 0 .. Slots - 1
NewSlot == (currentSlot + 1) % Slots
PreviousSlot == (currentSlot + Slots - 1) % Slots
Adapts == build.mode \in {"aup", "full"}
Controls == build.mode \in {"ac", "full"}
NoStats == [num |-> 0, time |-> 0, timely |-> 0]

(* updatePeriodMS * 1.1                                                    *)
Relaxed(period) == (11 * period) \div 10

(* What the handler, the update thread, the processing thread leave alone. *)
NoHandlerStep == UNCHANGED <<build, updaterVars, threadVars, finished>>
NoUpdaterStep == UNCHANGED <<build, updatePeriod, stats, finished,
                             handlerVars, threadVars>>
NoThreadStep == UNCHANGED <<build, periodVars, handlerVars, updaterVars>>

(* What most steps of the handler leave alone.                             *)
loadVars == <<smoothed, degree, numTxnToWait>>
sumVars == <<count, duration>>
-----------------------------------------------------------------------------
(* Faulty variants.  Each is a plausible bug in the definition it is named *)
(* after; the model uses none of them, the properties below are tried      *)
(* against them.                                                           *)

(* No test for a frequency of zero: 0 / 0 is neither below nor above 1.    *)
SampleItemDividesByZero ==
    /\ at \in 1 .. Items
    /\ updatePeriod' =
         IF counted[at][currentSlot]
            /\ Relaxed(updatePeriod[at][currentSlot]) <= MaxPeriod
         THEN [updatePeriod EXCEPT ![at][NewSlot] =
                                    Relaxed(updatePeriod[at][currentSlot])]
         ELSE updatePeriod
    /\ at' = at + 1
    /\ UNCHANGED <<counted, stats, currentSlot, sumVars, loadVars, straggler>>

(* The bound is not looked at.                                             *)
NewPeriodUnchecked(period, old) == IF Adapts THEN Relaxed(period)
                                   ELSE MinPeriod

(* The test of the running mode is inverted.                               *)
NewPeriodInverted(period, old) ==
    IF Adapts THEN MinPeriod
    ELSE IF Relaxed(period) <= MaxPeriod THEN Relaxed(period) ELSE old

(* The fraction is rounded up: one transaction at the least to wait for.   *)
ToWaitRoundsUp(enqueued, s) ==
    (enqueued * s + 100 * Grain - 1) \div (100 * Grain)

(* The statistics of the new slot are not cleared.                         *)
ClearedNot == stats
-----------------------------------------------------------------------------
Init == /\ build \in Builds
        /\ currentSlot = 0
        /\ updatePeriod = [i \in 1 .. Items |->
                             [s \in SlotSet |-> IF s = 0 THEN MinPeriod
                                                         ELSE 0]]
        /\ counted = [i \in 1 .. Items |-> [s \in SlotSet |-> FALSE]]
        /\ stats = [s \in SlotSet |-> NoStats]
        /\ at = 0
        /\ count = 0 /\ duration = 0
        /\ smoothed = 0 /\ degree = 0 /\ numTxnToWait = 0
        /\ item = 1
        /\ slot = -1
        /\ used = -1
        /\ thread = "txn"
        /\ txnSlot = 0
        /\ took = 0
        /\ finished = [s \in SlotSet |-> [num |-> 0, time |-> 0]]
        /\ straggler = FALSE
-----------------------------------------------------------------------------
(* The timer expires.  Its period is of seconds: nobody is still busy with *)
(* the statistics of a slot when the ring comes round to it.               *)
InTime == thread # "txn" => txnSlot # NewSlot

(* memset of the statistics of the new slot.                               *)
Cleared == [stats EXCEPT ![NewSlot] = NoStats]

Expire == /\ at = 0
          /\ InTime
          /\ at' = 1
          /\ stats' = Cleared
          /\ finished' = [finished EXCEPT ![NewSlot].num = 0,
                                          ![NewSlot].time = 0]
          /\ count' = 0 /\ duration' = 0
          /\ UNCHANGED <<build, periodVars, currentSlot, loadVars, straggler,
                         updaterVars, threadVars>>

(* The period of an item in the new slot.  When a cold item cannot be      *)
(* relaxed any more, the slot keeps what it had a round before.            *)
NewPeriod(period, old) ==
    IF ~Adapts THEN MinPeriod
    ELSE IF Relaxed(period) <= MaxPeriod THEN Relaxed(period) ELSE old

SampleItem ==
    /\ at \in 1 .. Items
    /\ counted' = [counted EXCEPT ![at][currentSlot] = TRUE]
    /\ updatePeriod' = [updatePeriod EXCEPT ![at][NewSlot] =
                          NewPeriod(updatePeriod[at][currentSlot], @)]
    /\ at' = at + 1
    /\ UNCHANGED <<stats, currentSlot, sumVars, loadVars, straggler>>

(* contextP->currentSlot = newSlot                                         *)
Publish == /\ at = Items + 1
           /\ currentSlot' = NewSlot
           /\ straggler' = (thread # "txn")
           /\ at' = at + 1
           /\ UNCHANGED <<periodVars, stats, sumVars, loadVars>>

(* The sums over the statistics of the slot before, one field at a time.   *)
SumCount == /\ at = Items + 2
            /\ count' = count + stats[PreviousSlot].num
            /\ at' = at + 1
            /\ UNCHANGED <<periodVars, stats, currentSlot, duration, loadVars,
                           straggler>>

SumDuration == /\ at = Items + 3
               /\ duration' = duration + stats[PreviousSlot].time
               /\ at' = at + 1
               /\ UNCHANGED <<periodVars, stats, currentSlot, count, loadVars,
                              straggler>>

(* The division of doubles n / d, in grains: not zero if n is not.         *)
Grains(n, d) == IF n > 0 /\ n < d THEN 1 ELSE n \div d

(* By how much the average delay exceeds the bound, in parts of the bound. *)
DegreeOf(num, time) ==
    IF num > 0 /\ time > num * Bound
    THEN Grains(Grain * (time - num * Bound), num * Bound)
    ELSE 0

(* alpha * degree_timing_violation + (1.0 - alpha) * smoothed              *)
Smooth(d) == Grains(4 * d + 6 * smoothed, 10)

(* total_txns_enqueued * smoothed / 100.0; the fraction is lost when it is *)
(* stored in num_txn_to_wait, an int.                                      *)
ToWait(enqueued, s) == (enqueued * s) \div (100 * Grain)

(* The degree of overload, and the transactions new ones have to wait for. *)
Overload ==
    /\ at = Items + 4
    /\ degree' = DegreeOf(count, duration)
    /\ smoothed' = Smooth(degree')
    /\ \E enqueued \in Enqueued :
          numTxnToWait' = IF Controls /\ smoothed' > 0
                          THEN ToWait(enqueued, smoothed')
                          ELSE 0
    /\ at' = 0
    /\ UNCHANGED <<periodVars, stats, currentSlot, sumVars, straggler>>

Sample == \/ Expire
          \/ /\ \/ SampleItem \/ Publish \/ SumCount \/ SumDuration \/ Overload
             /\ NoHandlerStep
-----------------------------------------------------------------------------
(* updateThread, with an item that is due: it reads currentSlot and counts *)
(* the update, and later reads the period of the slot it knows of.         *)
CountUpdate == /\ slot = -1
               /\ slot' = currentSlot
               /\ counted' = [counted EXCEPT ![item][currentSlot] = TRUE]
               /\ UNCHANGED <<item, used>>

SetNextUpdate == /\ slot # -1
                 /\ used' = updatePeriod[item][slot]
                 /\ slot' = -1
                 /\ item' = IF item = Items THEN 1 ELSE item + 1
                 /\ UNCHANGED counted

(* An item that is not due.                                                *)
SkipItem == /\ slot = -1
            /\ item' = IF item = Items THEN 1 ELSE item + 1
            /\ UNCHANGED <<counted, slot, used>>

Update == /\ "updates" \in build.options
          /\ CountUpdate \/ SetNextUpdate \/ SkipItem
          /\ NoUpdaterStep
-----------------------------------------------------------------------------
(* processUserTransaction, when a transaction has succeeded: it reads      *)
(* currentSlot and then updates the fields one by one.                     *)
InRing == LET Add(s, n) == n + stats[s].num
          IN  FoldSet(Add, 0, SlotSet)

FinishTxn == /\ thread = "txn"
             /\ InRing < MaxTxns
             /\ \E span \in Spans :
                   took' = ToMs(Offset(span.begin, span.end))
             /\ txnSlot' = currentSlot
             /\ thread' = "num"
             /\ UNCHANGED <<stats, finished>>

CountTxn == /\ thread = "num"
            /\ stats' = [stats EXCEPT ![txnSlot].num = @ + 1]
            /\ thread' = "time"
            /\ UNCHANGED <<txnSlot, took, finished>>

AddTime == /\ thread = "time"
           /\ stats' = [stats EXCEPT ![txnSlot].time = @ + took]
           /\ thread' = "timely"
           /\ UNCHANGED <<txnSlot, took, finished>>

CountTimely == /\ thread = "timely"
               /\ stats' = [stats EXCEPT ![txnSlot].timely =
                                           IF took <= Bound THEN @ + 1 ELSE @]
               /\ finished' = [finished EXCEPT ![txnSlot].num = @ + 1,
                                               ![txnSlot].time = @ + took]
               /\ thread' = "txn"
               /\ txnSlot' = 0 /\ took' = 0

Process == /\ "txns" \in build.options
           /\ FinishTxn \/ CountTxn \/ AddTime \/ CountTimely
           /\ NoThreadStep

Next == Sample \/ Update \/ Process

Spec == Init /\ [][Next]_vars

(* The timer is periodic, and its handler runs to its end; the processing  *)
(* thread gets through the statistics of a transaction.                    *)
FairSpec == Spec /\ WF_vars(Sample) /\ WF_vars(thread # "txn" /\ Process)
-----------------------------------------------------------------------------
(* Every variable has its type.                                            *)
TypeOK == /\ build \in Builds
          /\ currentSlot \in SlotSet
          /\ updatePeriod \in [1 .. Items -> [SlotSet -> 0 .. MaxPeriod]]
          /\ counted \in [1 .. Items -> [SlotSet -> BOOLEAN]]
          /\ stats \in [SlotSet -> [num : Nat, time : Nat, timely : Nat]]
          /\ finished \in [SlotSet -> [num : Nat, time : Nat]]
          /\ at \in 0 .. Items + 4
          /\ count \in Nat /\ duration \in Nat
          /\ smoothed \in Nat /\ degree \in Nat /\ numTxnToWait \in Nat
          /\ item \in 1 .. Items
          /\ slot \in SlotSet \cup {-1}
          /\ used \in 0 .. MaxPeriod \cup {-1}
          /\ thread \in {"txn", "num", "time", "timely"}
          /\ txnSlot \in SlotSet /\ took \in Nat
          /\ straggler \in BOOLEAN

(* A period that the update thread uses is never shorter than half the     *)
(* validity interval: slots are reused, it may hold an old slot, and some  *)
(* slots are not written in a round.                                       *)
UsedIsInBounds == used # -1 => used \in MinPeriod .. MaxPeriod

(* When no transaction was in the middle of its statistics as the slot     *)
(* changed, the sample has every transaction that finished in the slot,    *)
(* its whole time, and nothing else: no transaction of an earlier round of *)
(* the ring, none of the new slot.                                         *)
SampleIsExact ==
    at = Items + 4 /\ ~straggler =>
        /\ count = finished[PreviousSlot].num
        /\ duration = finished[PreviousSlot].time

(* The periods that cannot be relaxed any more.                            *)
NearBound == {p \in MinPeriod .. MaxPeriod : Relaxed(p) > MaxPeriod}

(* "Data is Cold: Relax the update period": as long as it is cold, it      *)
(* comes as close to the bound as a step of 1.1 can, again and again.      *)
ColdIsRelaxed == \A i \in 1 .. Items :
                    Adapts ~> updatePeriod[i][currentSlot] \in NearBound

(* Nobody has to wait for an overload that is over, although the smoothed  *)
(* degree stays positive for ever after it.                                *)
OverloadForgotten == (<>[](degree = 0)) => <>[](numTxnToWait = 0)
=============================================================================
