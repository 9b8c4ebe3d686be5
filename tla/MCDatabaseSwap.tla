-------------------------- MODULE MCDatabaseSwap --------------------------
(* Model checking of DatabaseSwap: the values the configurations share.    *)
EXTENDS DatabaseSwap, TLC

CONSTANTS r1, r2, i1, i2, i3
=============================================================================
