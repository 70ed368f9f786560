------------------------------ MODULE MCRoster ------------------------------
(***************************************************************************)
(* Two agents: composites of two versions that expire at different times,  *)
(* one without a number, a factor, and a row that never expires.           *)
(***************************************************************************)
EXTENDS Roster

Offered(agent, leaf, version, score, life, stated) ==
  [agent |-> agent, leaf |-> leaf, version |-> version, score |-> score, life |-> life, stated |-> stated]
MCOffers ==
  {Offered("a", "composite", ":v1", 1, 2, TRUE), Offered("a", "composite", ":v2", 2, 1, FALSE),
   Offered("a", "core_identity", ":v1", 1, 1, TRUE), Offered("b", "composite", ":v1", None, 3, TRUE),
   Offered("b", "core_identity", ":v1", 2, None, FALSE)}
=============================================================================
