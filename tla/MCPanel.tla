------------------------------- MODULE MCPanel -------------------------------
(***************************************************************************)
(* Two cards; a dial that reaches both its ends in two detents and has one *)
(* more beyond each.                                                       *)
(***************************************************************************)
EXTENDS Panel

CONSTANTS u1, u2
=============================================================================
