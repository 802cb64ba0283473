-------------------------- MODULE MCChronosServer --------------------------
(***************************************************************************)
(* The thread-per-request server with two client threads.                  *)
(***************************************************************************)
EXTENDS ChronosServer
CONSTANTS c1, c2
TwoClients == {c1, c2}
OneEach == [c \in {c1, c2} |-> 1]
TwoAndOne == [c \in {c1, c2} |-> IF c = c1 THEN 2 ELSE 1]
=============================================================================
