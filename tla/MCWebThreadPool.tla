--------------------------- MODULE MCWebThreadPool ---------------------------
(* WebThreadPool for TLC.  Symmetry is not used: the run checks liveness.  *)
EXTENDS WebThreadPool
=============================================================================
