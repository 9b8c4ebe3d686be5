---------------------------- MODULE MCSupervisor ----------------------------
(* The desktop app's supervisor, for TLC.                                  *)
EXTENDS Supervisor, TLC

=============================================================================
