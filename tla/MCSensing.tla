----------------------------- MODULE MCSensing -----------------------------
(***************************************************************************)
(* Two spots, so that the lot fills step by step.  A bay would only add    *)
(* events that the indicator ignores.                                      *)
(***************************************************************************)
EXTENDS Sensing

CONSTANTS p1, p2
=============================================================================
