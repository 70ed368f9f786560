----------------------------- MODULE MCLiveFeed -----------------------------
(* One viewer.                                                             *)
EXTENDS LiveFeed
CONSTANT board

MCAlone == {board}
=============================================================================
