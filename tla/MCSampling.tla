----------------------------- MODULE MCSampling -----------------------------
(***************************************************************************)
(* The real ring, the real ratio of the bounds, two data items.            *)
(***************************************************************************)
EXTENDS Sampling
(* Updates in each running mode, user transactions with admission control. *)
SomeBuilds == [mode : {"base", "ac", "aup", "full"}, options : {{"updates"}}]
              \cup [mode : {"ac"}, options : {{"txns"}}]
(* 100 ms, which is just in time, and 400 ms; both go over a second.       *)
SomeSpans == {[begin |-> Time(0, 900000000), end |-> Time(1, 0)],
              [begin |-> Time(0, 900000000), end |-> Time(1, 300000000)]}
(* Both queues empty, and both full.                                       *)
SomeEnqueued == {0, 2048}
=============================================================================
