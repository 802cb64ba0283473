------------------------------ MODULE TxnFifo ------------------------------
(***************************************************************************)
(* What a ready queue of the server promises its callers: a linearizable   *)
(* bounded FIFO of transactions that numbers what it accepts.  A call      *)
(* takes effect in one step between its start and its return; it fails     *)
(* only when the server has been asked to die.                             *)
(***************************************************************************)
EXTENDS Naturals, Sequences

CONSTANTS Producers,   (* threads that enqueue                             *)
          Consumers,   (* threads that dequeue                             *)
          Size,        (* CHRONOS_READY_QUEUE_SIZE                         *)
          MaxTxns      (* bound of the model: enqueue calls ever made      *)

VARIABLES fifo,        (* the accepted transactions, oldest first          *)
          issued,      (* the last ticket handed out                       *)
          submitted,   (* enqueue calls made so far, names the next one    *)
          timeToDie,   (* what timeToDieFp returns                         *)
          call,        (* what each thread's current call has come to      *)
          arg,         (* the transaction a producer offers                *)
          result       (* what a call has given its caller                 *)

vars == <<fifo, issued, submitted, timeToDie, call, arg, result>>

Threads == Producers \cup Consumers

Nothing == [txn |-> 0, ticket |-> 0]

Init == /\ fifo = << >>
        /\ issued = 0
        /\ submitted = 0
        /\ timeToDie = FALSE
        /\ call = [t \in Threads |-> "idle"]
        /\ arg = [p \in Producers |-> 0]
        /\ result = [t \in Threads |-> Nothing]

CallEnqueue(p) == /\ call[p] = "idle"
                  /\ submitted < MaxTxns
                  /\ submitted' = submitted + 1
                  /\ arg' = [arg EXCEPT ![p] = submitted + 1]
                  /\ call' = [call EXCEPT ![p] = "pending"]
                  /\ result' = [result EXCEPT ![p] = Nothing]
                  /\ UNCHANGED <<fifo, issued, timeToDie>>

CallDequeue(c) == /\ call[c] = "idle"
                  /\ call' = [call EXCEPT ![c] = "pending"]
                  /\ result' = [result EXCEPT ![c] = Nothing]
                  /\ UNCHANGED <<fifo, issued, submitted, timeToDie, arg>>

(* The accepted transaction goes to the end and gets the next ticket.      *)
Accept(p) == LET entry == [txn |-> arg[p], ticket |-> issued + 1]
             IN  /\ call[p] = "pending"
                 /\ Len(fifo) < Size
                 /\ fifo' = Append(fifo, entry)
                 /\ issued' = issued + 1
                 /\ result' = [result EXCEPT ![p] = entry]
                 /\ call' = [call EXCEPT ![p] = "success"]
                 /\ UNCHANGED <<submitted, timeToDie, arg>>

(* The oldest transaction is handed to exactly one consumer.               *)
Deliver(c) == /\ call[c] = "pending"
              /\ fifo # << >>
              /\ fifo' = Tail(fifo)
              /\ result' = [result EXCEPT ![c] = Head(fifo)]
              /\ call' = [call EXCEPT ![c] = "success"]
              /\ UNCHANGED <<issued, submitted, timeToDie, arg>>

GiveUp(t) == /\ call[t] = "pending"
             /\ timeToDie
             /\ call' = [call EXCEPT ![t] = "fail"]
             /\ UNCHANGED <<fifo, issued, submitted, timeToDie, arg, result>>

(* Only a producer may go on when the server has been asked to die.        *)
Return(t) == /\ call[t] \in {"success", "fail"}
             /\ \/ /\ timeToDie
                   /\ call' = [call EXCEPT ![t] = "done"]
                \/ /\ timeToDie => t \in Producers
                   /\ call' = [call EXCEPT ![t] = "idle"]
             /\ UNCHANGED <<fifo, issued, submitted, timeToDie, arg, result>>

AskToDie == /\ ~timeToDie
            /\ timeToDie' = TRUE
            /\ UNCHANGED <<fifo, issued, submitted, call, arg, result>>

Next == \/ \E p \in Producers : CallEnqueue(p) \/ Accept(p)
        \/ \E c \in Consumers : CallDequeue(c) \/ Deliver(c)
        \/ \E t \in Threads : GiveUp(t) \/ Return(t)
        \/ AskToDie

Spec == Init /\ [][Next]_vars
=============================================================================
