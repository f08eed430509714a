--------------------------- MODULE MCGateSafety ---------------------------
(* Three openings: enough for a stale callback, the opening it disturbs,   *)
(* and a later one that an orphaned timer can disturb.                     *)
EXTENDS GateSafety
=============================================================================
