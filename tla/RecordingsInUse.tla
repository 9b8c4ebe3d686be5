-------------------------- MODULE RecordingsInUse --------------------------
(***************************************************************************)
(* What replacing the database promises to everyone who works with it.     *)
(*                                                                         *)
(* There is one database at a time.  A user of it (a request, a task, the  *)
(* recorder) may learn ids of its rows and later act on them.  The         *)
(* database is replaced in one step, at which nobody is left with an id of *)
(* the one before: an id is only ever used on the database it came from.   *)
(***************************************************************************)
EXTENDS Naturals

CONSTANT Users

VARIABLES
    gen,  \* which database is in use
    ids   \* which database each user holds ids of, 0 for none

vars == <<gen, ids>>

Init ==
    /\ gen \in Nat \ {0}
    /\ ids = [u \in Users |-> 0]

Learns(u) ==
    /\ ids' = [ids EXCEPT ![u] = gen]
    /\ UNCHANGED gen

Drops ==
    /\ \E users \in SUBSET Users :
          ids' = [u \in Users |-> IF u \in users THEN 0 ELSE ids[u]]
    /\ UNCHANGED gen

Replaced ==
    /\ gen' # gen
    /\ ids' = [u \in Users |-> 0]

Next ==
    \/ \E u \in Users : Learns(u)
    \/ Drops
    \/ Replaced

Spec == Init /\ [][Next]_vars
=============================================================================
