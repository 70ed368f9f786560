--------------------------- MODULE MCObservations ---------------------------
(***************************************************************************)
(* Two targets, one of which may fail to be signed while the other is not. *)
(***************************************************************************)
EXTENDS Observations

CONSTANTS billing, google

MCTarget == {billing, google}
MCUpDown == {"operational", "outage", "absent"}
=============================================================================
