--------------------------- MODULE MCSurveyBundles ---------------------------
(* One or two installations and their circuits, for TLC.                   *)
EXTENDS SurveyBundles, TLC

CONSTANTS home, away, east, west, wall, road

=============================================================================
