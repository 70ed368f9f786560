---------------------------- MODULE MCStatusLoop ----------------------------
(***************************************************************************)
(* The status loop over three probed components and a declared pool that   *)
(* nobody measures.  The owner may keep the baked set, drop the pool, or   *)
(* leave so few probes that no verdict about our own network is possible.  *)
(***************************************************************************)
EXTENDS StatusLoop

CONSTANTS registry, google, github, pool

MCComponent == {registry, google, github, pool}
MCUnprobed == {pool}
MCBaked == MCComponent
MCConfigs == {MCBaked, {registry, google, github}, {registry, google}}
=============================================================================
