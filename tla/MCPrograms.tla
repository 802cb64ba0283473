----------------------------- MODULE MCPrograms -----------------------------
(***************************************************************************)
(* The life of the programs: of server processes on the same tables, or of *)
(* a client process.  What they share is companylist.txt, the arithmetic   *)
(* of the cache and a connection, of which neither module looks at more    *)
(* than that the other side can do anything at any time; so it is enough   *)
(* to follow one of the two at a time.                                     *)
(*                                                                         *)
(* Three symbols in each cache: data files in and out of key order, one    *)
(* with more lines than the cache takes, one with a line that is there     *)
(* twice.  Both servers, with and without update threads and -n.           *)
(***************************************************************************)
EXTENDS ServerLife, ClientLife

VARIABLE subject   (* the program that is followed                         *)

vars == <<serverVars, clientVars, subject>>

Init == ServerInit /\ ClientInit /\ subject \in {"server", "client"}

Next == /\ \/ subject = "server" /\ ServerNext /\ UNCHANGED clientVars
           \/ subject = "client" /\ ClientNext /\ UNCHANGED serverVars
        /\ UNCHANGED subject

Spec == Init /\ [][Next]_vars

SomeFiles == {<<1, 2, 3>>, <<1, 2, 3, 4>>, <<2, 1, 3>>, <<1, 2, 1>>}
SomeOptions == [initialLoad : BOOLEAN, numServerThreads : {0, 2},
                numUpdateThreads : {0, 2}]
-----------------------------------------------------------------------------
(* Every variable of either program has a value of its kind.               *)
TypeOK == ServerTypeOK /\ ClientTypeOK
=============================================================================
