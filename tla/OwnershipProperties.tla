------------------------ MODULE OwnershipProperties ------------------------
(***************************************************************************)
(* What must be true of CapacityController, and the mapping under which it  *)
(* implements Ownership.                                                   *)
(***************************************************************************)
EXTENDS CapacityController

\* The classes of user: every internal tenant shares the ARISE pool.
ClassOf(t) == IF t \in Customers THEN t ELSE "ARISE"
Classes == Customers \cup {"ARISE", "VAST"}

\* Who may start work on the machine now, and who has work on it.
OpenTo == {ClassOf(t) : t \in {u \in Tenants : Admits(node, u)}}
            \cup (IF market.listed THEN {"VAST"} ELSE {})
UsedBy == {ClassOf(TenantOf[p]) : p \in pods}
            \cup (IF market.contracts > 0 THEN {"VAST"} ELSE {})

Abstract == INSTANCE Ownership WITH open <- OpenTo, users <- UsedBy

\* The machine changes hands only closed and empty: every step of the
\* controller, the schedulers and the marketplace is a step of Ownership.
ImplementsOwnership == Abstract!Spec

\* capacity_controller.py:8: "A node has exactly one owner at any instant" --
\* no two of the pool, a customer and a renter use or may use the machine.
SoleUse == \E c \in Classes : OpenTo \cup UsedBy \subseteq {c}

\* :1357 "list did not take effect; safe to retry next cycle": as long as the
\* request given up on takes effect within its transition.  Only one that arrives
\* when another transition was asked for gives a machine two users.
SoleUseUnlessStray == market.stray \/ SoleUse

SpecType   == [desired : DesiredOwners, tid : Tids, tenant : Tenants \cup {None},
               wait : BOOLEAN]
StatusType == [phase : Phases, owner : Owners \cup {"UNKNOWN"}, active : 0..MaxContracts,
               listed : BOOLEAN, last : Tids \cup {0}, op : BOOLEAN,
               stamp : {"absent", "mock-v1", "none"}]
NodeType   == [seen : BOOLEAN, owner : Owners, tenant : Tenants \cup {None},
               cordoned : BOOLEAN, taints : SUBSET Taints]
MarketType == [listed : BOOLEAN, contracts : 0..MaxContracts, keys : SUBSET Tids,
               late : SUBSET Tids, stray : BOOLEAN]
TxType     == [desired : Owners, tid : Tids \cup {0}, tenant : Tenants \cup {None},
               gated : BOOLEAN, phase : Phases, owner : Owners \cup {"UNKNOWN"},
               tlabel : Tenants \cup {None}, cordoned : BOOLEAN, taints : SUBSET Taints,
               active : 0..MaxContracts, listed : BOOLEAN]
ClockType  == [tid : Tids \cup {0}, overdue : BOOLEAN]
BudgetType == [faults : 0..MaxFaults, losses : 0..MaxLosses, crashes : 0..MaxCrashes,
               tampers : 0..MaxTampers]

\* Every variable stays in its domain.  No status names an owner or a phase the
\* CRD does not know, and no pass holds a transition id nobody issued.
TypeOK ==
  /\ spec \in SpecType /\ fleet \in Owners \cup {"absent"}
  /\ status \in StatusType
  /\ node \in NodeType
  /\ evicting \subseteq pods /\ pods \subseteq Pods
  /\ vols \subseteq Tenants \cup {Unbound}
  /\ market \in MarketType
  /\ tx \in TxType
  /\ tx.tid = 0 => pc \in {"idle", "save"}
  /\ clock \in ClockType /\ saved \in ClockType
  /\ adapter \in AdapterModes
  /\ budget \in BudgetType

-----------------------------------------------------------------------------
(* Safety.                                                                  *)

\* crd.yaml: the status rules exclude SANITIZING and owner ARISE while a
\* contract is active.  The controller never sends a status the API server
\* refuses, so no pass is lost, again and again, to its own validation.
NoRefusedStatus ==
  /\ pc \in {"draining_status", "base_status", "rented_status", "ready_status",
             "pending_status", "reclaim_volumes", "sanitizing_status", "recheck"}
       => ~(tx.active > 0 /\ tx.owner = "ARISE")
  /\ pc \in {"sanitizing_status", "sanitize", "recheck", "flip_status"} => tx.active = 0

\* "unlist is not reclaim": a machine is off the market for as long as it is
\* being sanitized or checked, and none is returned to the pool (labelled,
\* untainted, uncordoned) while a contract on it is live.
ReclaimGate ==
  /\ status.phase \in {"SANITIZING", "HEALTH_CHECK"} => ~market.listed
  /\ pc \in {"flip_label", "flip_taints", "flip_uncordon"} => market.contracts = 0

\* drain_pending: nobody is evicted before the node is fenced, and never the
\* customer whose reservation the drain is for.
EvictFenced ==
  [][\A p \in evicting' \ evicting :
        node.cordoned /\ ~(tx.desired = "DIRECT" /\ TenantOf[p] = Reserved(tx.tenant))]_vars

\* A machine with a live contract never changes hands: its label may only
\* become VAST (the rental's own) or QUARANTINED.
RentalProtected ==
  [][market.contracts > 0 => node'.owner \in {node.owner, "VAST", "QUARANTINED"}]_vars

\* quarantine() "marketplace invariant: a quarantined node must not stay
\* listed": the object never says QUARANTINED while the machine is for sale.
QuarantineUnsold == status.phase = "QUARANTINED" => ~market.listed

\* A transition under way keeps the machine off the pool: once the drain has
\* reported, no internal pod may be placed until the node is ARISE's again.
DrainFenced == status.phase = "DRAINING" => "ARISE" \notin OpenTo

\* tenant_pvs_on_node gates: the machine is never open to one class while the
\* disk still holds a volume of another's (the volume outlives its pods).
DataApart == \A v \in vols \ {Unbound} : OpenTo \subseteq {ClassOf(v)}

-----------------------------------------------------------------------------
(* Liveness.  The loop never stops (main catches everything and restarts    *)
(* after a crash); time passes; rentals and not-before dates end.           *)

FairSpec ==
  /\ Spec
  /\ WF_vars(Controller) /\ WF_vars(TimePasses)
  /\ WF_vars(NotBeforePasses) /\ WF_vars(ContractEnds)

\* A drain ends: in the handover, in QUARANTINED at the deadline, or waiting
\* for a human to deal with a volume.
DrainEnds ==
  status.phase = "DRAINING" ~> (status.phase # "DRAINING" \/ vols # {})

Target(d) ==
  CASE d = "ARISE"       -> {"READY"}
    [] d = "DIRECT"      -> {"DIRECT_ASSIGNED"}
    [] d = "VAST"        -> {"VAST_READY", "VAST_RENTED"}
    [] d = "MAINTENANCE" -> {"MAINTENANCE"}
    [] OTHER             -> {}

\* A transition other than ARISE that was asked for while the node was being
\* sanitized or checked: no handler but the ARISE one has a branch for the phase
\* it finds (991), and it is left there.
Stranded ==
  /\ status.phase \in {"SANITIZING", "HEALTH_CHECK"}
  /\ spec.desired \notin {"ARISE", "QUARANTINED"}

\* The operators ask for no more than MaxTid transitions, and the last is carried
\* out, however it met the ones before, unless the node is quarantined, or a
\* volume or the phase it was found in holds it.
Converges ==
  []<>(status.phase \in Target(spec.desired) \cup {"QUARANTINED"} \/ vols # {} \/ Stranded)

\* The owner label an ended transition leaves behind, by phase.
LabelOf == [READY |-> "ARISE", VAST_RENTED |-> "VAST", DIRECT_ASSIGNED |-> "DIRECT",
            MAINTENANCE |-> "MAINTENANCE", QUARANTINED |-> "QUARANTINED"]

\* Drift correction (OWN-06): a settled node's edited label is put back, unless
\* another transition is asked for first.
Mislabelled ==
  /\ status.phase \in DOMAIN LabelOf /\ node.owner # LabelOf[status.phase]
  /\ spec.tid = status.last
DriftHealed == Mislabelled ~> ~Mislabelled

\* OWN-06 for isolation: a VAST node whose taint or cordon was stripped gets it back.
Stripped ==
  /\ status.phase \in {"VAST_READY", "VAST_RENTED"}
  /\ ~(node.cordoned /\ "vast" \in node.taints)
IsolationHealed == Stripped ~> ~Stripped
=============================================================================
