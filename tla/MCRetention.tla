---------------------------- MODULE MCRetention ----------------------------
(***************************************************************************)
(* Retention over a handful of rows, the oldest of which the corpus will   *)
(* not delete: it heads every listing and takes a place in every budget.   *)
(***************************************************************************)
EXTENDS Retention

MCHeld == {1}
=============================================================================
