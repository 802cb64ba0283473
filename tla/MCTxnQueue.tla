---------------------------- MODULE MCTxnQueue ----------------------------
(***************************************************************************)
(* The ready queue with a few threads and a ring of a few slots.           *)
(***************************************************************************)
EXTENDS TxnQueue
CONSTANTS p1, p2, c1, c2
TwoProducers == {p1, p2}
TwoConsumers == {c1, c2}
OneConsumer == {c1}
=============================================================================
