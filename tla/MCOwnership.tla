---------------------------- MODULE MCOwnership ----------------------------
EXTENDS OwnershipProperties
CONSTANTS int, c1, c2, pi, p1, p2
MCTenantOf == [p \in Pods |-> CASE p = pi -> int [] p = p1 -> c1 [] p = p2 -> c2]
=============================================================================
