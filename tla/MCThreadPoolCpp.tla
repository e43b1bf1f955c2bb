--------------------------- MODULE MCThreadPoolCpp ---------------------------
(* ThreadPoolCpp for TLC.  Symmetry is not used: the run checks liveness.  *)
EXTENDS ThreadPoolCpp
=============================================================================
