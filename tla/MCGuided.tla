------------------------------ MODULE MCGuided ------------------------------
(***************************************************************************)
(* The guided demo with one operator, who waits for an answer before the   *)
(* next click, or with two clicks handled at the same time.                *)
(***************************************************************************)
EXTENDS Guided

CONSTANTS r1, r2, t1, t2, s1, s2, s3, s4

OneRequest == {r1}
TwoRequests == {r1, r2}
=============================================================================
