------------------------ MODULE MCDiagnosticsWindow ------------------------
(* Two lengths of window, the longer the longest there may be.             *)
EXTENDS DiagnosticsWindow

MCRequests == {1, 2}
=============================================================================
