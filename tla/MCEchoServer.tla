---------------------------- MODULE MCEchoServer ----------------------------
(* EchoServer for TLC.  Symmetry is not used: the run checks liveness.     *)
EXTENDS EchoServer
=============================================================================
