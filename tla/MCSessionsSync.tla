--------------------------- MODULE MCSessionsSync ---------------------------
(* Model checking of SessionsSync: the values the configurations share.    *)
EXTENDS SessionsSync, TLC

CONSTANTS w1, w2

OneWorker  == {w1}
TwoWorkers == {w1, w2}
Every      == {"track_on_patch", "analysis_version"}
=============================================================================
