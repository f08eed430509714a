----------------------------- MODULE MCStorage -----------------------------
(* Small instances of Storage: every handler, any message, any order.      *)
EXTENDS Storage, TLC

\* Cards are interchangeable: nothing in the handlers compares two of them.
CardSymmetry == Permutations(Cards)
=============================================================================
