---------------------------- MODULE CapacityState ----------------------------
(***************************************************************************)
(* The state the capacity controller reads and writes for ONE managed node: *)
(* the NodeOwnership object, the Kubernetes Node with the work bound to it, *)
(* the marketplace's record of the machine, and the controller's own        *)
(* memory.  The controller reconciles its nodes one after another and keeps *)
(* no other state shared between them, so one node is the unit of the model.*)
(*                                                                         *)
(* Values that only appear in log lines, conditions and events are left out.*)
(***************************************************************************)
EXTENDS Naturals, FiniteSets

CONSTANTS
  Tenants,        \* tenant namespaces: every one must be off a node that changes hands
  Customers,      \* the customer-class tenants, the ones a DIRECT reservation can be for
  None,           \* "no tenant named"
  Unbound,        \* owner of a volume whose claimRef was cleared
  Pods,           \* the tenant pods that may come to this node
  TenantOf,       \* TenantOf[p]: the namespace of pod p
  GpuPods,        \* the pods that request GPUs
  VolumeTenants,  \* the tenants whose pods leave a volume on the node's disk
  DesiredOwners,  \* owners an operator of this instance asks for
  AdapterModes,   \* VAST_ADAPTER values the controller may be (re)started with
  Kubectl,        \* TRUE: operators edit the object directly; FALSE: only through the console
  HandEdits,      \* what humans edit on the Node by hand
  LateLists,      \* TRUE: a list request may take effect after the client gave up on it
  MaxTid,         \* bound on the transition ids an operator issues
  MaxContracts,   \* bound on simultaneous rentals
  MaxFaults,      \* bound on failed calls and failed checks
  MaxLosses,      \* bound on the times the node cannot be found
  MaxCrashes,     \* bound on controller restarts
  MaxTampers      \* bound on manual edits of the Node object

ASSUME ConstantsAssumption ==
  /\ Customers \subseteq Tenants
  /\ None \notin Tenants
  /\ Unbound \notin Tenants
  /\ TenantOf \in [Pods -> Tenants]
  /\ GpuPods \subseteq Pods
  /\ VolumeTenants \subseteq Tenants
  /\ DesiredOwners \subseteq {"ARISE", "DIRECT", "VAST", "QUARANTINED", "MAINTENANCE"}
  /\ AdapterModes \subseteq {"mock-v1", "none"}
  /\ Kubectl \in BOOLEAN
  /\ HandEdits \subseteq {"label", "cordon", "taint"}
  /\ LateLists \in BOOLEAN
  /\ MaxTid \in Nat /\ MaxTid > 0
  /\ MaxContracts \in Nat
  /\ MaxFaults \in Nat
  /\ MaxLosses \in Nat
  /\ MaxCrashes \in Nat
  /\ MaxTampers \in Nat

VARIABLES
  spec,      \* NodeOwnership.spec, written by operators
  fleet,     \* the owner label in the console's last list of the Nodes
  status,    \* NodeOwnership.status, written by the controller alone
  node,      \* the Node: found by its node-id label, owner and tenant labels, cordon, taints
  pods,      \* live tenant pods bound to the node
  evicting,  \* those whose eviction the API server accepted
  vols,      \* owners of product volumes pinned to the node
  market,    \* the machine record, the list requests still in flight, and history (stray)
  pc,        \* the next call the controller makes
  tx,        \* what this reconcile has read (TransitionContext)
  clock,     \* the in-memory entry of the state dict for the latest transition
  saved,     \* the same entry as last written to the ConfigMap
  adapter,   \* the adapter the running process was started with
  budget     \* what is left of the bounds on faults, crashes and tampering

orders  == <<spec, fleet>>
cluster == <<node, pods, evicting, vols>>
memory  == <<tx, clock, saved, adapter>>
vars    == <<orders, status, cluster, market, pc, memory, budget>>

Owners == {"ARISE", "DIRECT", "VAST", "QUARANTINED", "MAINTENANCE"}
Phases == {"none", "PENDING", "DRAINING", "VAST_READY", "VAST_RENTED", "DIRECT_ASSIGNED",
           "SANITIZING", "HEALTH_CHECK", "READY", "QUARANTINED", "MAINTENANCE"}
Taints == {"vast", "direct", "transition", "maintenance"}
Tids   == 1..MaxTid

\* Phases a new transitionId does not supersede.
InFlight == {"DRAINING", "SANITIZING", "HEALTH_CHECK"}

NoTx ==
  [desired |-> "ARISE", tid |-> 0, tenant |-> None, gated |-> FALSE, phase |-> "none",
   owner |-> "UNKNOWN", tlabel |-> None, cordoned |-> FALSE, taints |-> {},
   active |-> 0, listed |-> FALSE]

NoClock == [tid |-> 0, overdue |-> FALSE]

-----------------------------------------------------------------------------
(* Which work Kubernetes would place on the node, and what counts as work.  *)

\* The scheduler binds a tenant pod only where its nodeSelector matches and its
\* tolerations cover the taints.  Admission gives an internal pod the selector
\* owner=ARISE and no arise.ai/* toleration, and a customer's pod the selector
\* owner=DIRECT, tenant=<its namespace> with the direct-owned toleration only.
Admits(n, t) ==
  /\ ~n.cordoned
  /\ \/ t \notin Customers /\ n.owner = "ARISE" /\ n.taints = {}
     \/ t \in Customers /\ n.owner = "DIRECT" /\ n.tenant = t /\ n.taints \subseteq {"direct"}

PodsOf(T) == {p \in pods : TenantOf[p] \in T}

GpuHeld == pods \cap GpuPods # {}

\* A volume with no claimRef counts against every filter.
VolumesOf(T) == vols \cap (T \cup {Unbound})

\* The tenant a DIRECT reservation is for: the named customer, or the only one
\* there is when none is named; otherwise nobody.
Reserved(t) ==
  CASE t \in Customers -> t
    [] t = None /\ \E c \in Customers : Customers = {c} -> CHOOSE c \in Customers : TRUE
    [] OTHER -> None

\* The CRD's validation of a status: rentals exclude sanitizing and ARISE.
Accepted(s) == s.active > 0 => s.phase # "SANITIZING" /\ s.owner # "ARISE"

-----------------------------------------------------------------------------
(* Node writes, as functions of the node.                                   *)

Labelled(n, o) == [n EXCEPT !.owner = o, !.tenant = IF o = "DIRECT" THEN @ ELSE None]
BoundTo(n, t)  == [n EXCEPT !.owner = "DIRECT", !.tenant = t]
Cordoned(n)    == [n EXCEPT !.cordoned = TRUE]
Uncordoned(n)  == [n EXCEPT !.cordoned = FALSE]
Retainted(n, add, remove) == [n EXCEPT !.taints = (@ \ remove) \cup add]

-----------------------------------------------------------------------------
(* The marketplace.  A key that was already used is replayed: no effect.    *)

ListEffect(m, key) ==
  IF key \in m.keys THEN m ELSE [m EXCEPT !.listed = TRUE, !.keys = @ \cup {key}]

Unlisted(m) == [m EXCEPT !.listed = FALSE]

=============================================================================
