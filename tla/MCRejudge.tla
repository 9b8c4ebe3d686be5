------------------------------ MODULE MCRejudge ------------------------------
(* Model checking of Rejudge: one circuit.                                  *)
EXTENDS Rejudge, TLC

CONSTANTS c1

=============================================================================
