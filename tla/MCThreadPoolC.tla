---------------------------- MODULE MCThreadPoolC ----------------------------
(* ThreadPoolC for TLC.  Tasks and producers are interchangeable; workers  *)
(* are not, their places in threadIDs are filled in order.                 *)
EXTENDS ThreadPoolC, TLC

Symmetry == Permutations(Tasks) \cup Permutations(Producers)
=============================================================================
