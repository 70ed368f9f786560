----------------------------- MODULE MCCiBoard -----------------------------
(* Two repositories of two organisations; the narrow configuration drops  *)
(* one of them.                                                            *)
EXTENDS CiBoard
CONSTANTS CIRISAI, fork, CIRISEdge, CIRISServer

Conf(owner, repos) == [owner |-> owner, repos |-> repos]
MCOwner == {CIRISAI, fork}
MCRepo == {CIRISEdge, CIRISServer}
MCBaked == Conf(CIRISAI, <<CIRISEdge, CIRISServer>>)
MCStable == {MCBaked, Conf(fork, <<CIRISServer, CIRISEdge>>)}

OneOwner == {CIRISAI}
MCNarrow == Conf(CIRISAI, <<CIRISEdge>>)
MCShrinking == {MCNarrow, MCBaked}
=============================================================================
