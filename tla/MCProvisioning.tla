--------------------------- MODULE MCProvisioning ---------------------------
(* Two clients' requests for one name: the same request twice, for a        *)
(* machine with a volume or with SSH, two different requests, and one that  *)
(* is over the quota.                                                       *)
EXTENDS ProvisionProperties

CONSTANTS c1, c2
MCCreators == {c1, c2}
Full  == [size |-> 1, ssh |-> TRUE, gpu |-> 1]
Disk  == [size |-> 1, ssh |-> FALSE, gpu |-> 1]
Keyed == [size |-> 0, ssh |-> TRUE, gpu |-> 1]
Other == [size |-> 2, ssh |-> FALSE, gpu |-> 0]
Huge  == [size |-> 0, ssh |-> FALSE, gpu |-> 2]
MCSettings == {Full, Disk, Keyed, Other, Huge}
Pair(v, w) == [c \in MCCreators |-> IF c = c1 THEN v ELSE w]
MCWants == {Pair(Disk, Disk), Pair(Keyed, Keyed), Pair(Full, Other), Pair(Full, Huge)}
=============================================================================
