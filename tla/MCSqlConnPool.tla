--------------------------- MODULE MCSqlConnPool -----------------------------
EXTENDS SqlConnPool, TLC

Symmetry == Permutations(Workers) \cup Permutations(Passwords)
=============================================================================
