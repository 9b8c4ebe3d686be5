-------------------------- MODULE MCClientStreams --------------------------
(* Two browsers, or one that connects again, for TLC.                      *)
EXTENDS ClientStreams, TLC

CONSTANTS s1, s2, A, B

TwoPages == [s \in {s1, s2} |-> IF s = s1 THEN A ELSE B]
OnePage  == [s \in {s1, s2} |-> A]
Filters  == {{"lap", "voice"}}

=============================================================================
