----------------------------- MODULE MCHeapTimer -----------------------------
(* HeapTimer for TLC.  Symmetry is not used: the run checks liveness.      *)
EXTENDS HeapTimer
=============================================================================
