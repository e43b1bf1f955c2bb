----------------------------- MODULE MCLogQueue ------------------------------
EXTENDS LogQueue
=============================================================================
