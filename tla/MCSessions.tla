----------------------------- MODULE MCSessions -----------------------------
EXTENDS SessionProperties, TLC
CONSTANTS t1, t2
Threads == Permutations({t1, t2})
=============================================================================
