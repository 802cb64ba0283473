--------------------------- MODULE MCQueueServer ---------------------------
(***************************************************************************)
(* The queue server with one or two clients and processing threads.        *)
(***************************************************************************)
EXTENDS QueueServer, TLC
CONSTANTS a, b, p, q
OneClient == {a}
TwoClients == {a, b}
OneProc == {p}
TwoProcs == {p, q}
(* Neither option, as the threads that are always there are made.          *)
Plain == {[options |-> {}, threads |-> Procs,
           requests |-> MaxRequests]}
(* Updates with two threads, two requests with one.                        *)
OneOption == {[options |-> {"updates"}, threads |-> {p, q}, requests |-> 1],
              [options |-> {"sampling"}, threads |-> {p}, requests |-> 2]}
(* Clients and processing threads are interchangeable.                     *)
Symmetry == Permutations(Clients) \cup Permutations(Procs)
=============================================================================
