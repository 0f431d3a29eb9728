----------------------------- MODULE MCThrottle -----------------------------
EXTENDS Throttle
CONSTANTS k1, k2, k3, t1, t2, t3
=============================================================================
