----------------------------- MODULE MCMegaLink -----------------------------
(***************************************************************************)
(* The link needs no bounds: connections are numbered over, and the board  *)
(* may come and go without end.                                            *)
(***************************************************************************)
EXTENDS MegaLink
=============================================================================
