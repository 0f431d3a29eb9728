------------------------- MODULE CapacityController -------------------------
(***************************************************************************)
(* capacity_controller.py: the single writer of node ownership.            *)
(*                                                                         *)
(* A pass of the control loop lists the objects, and reconcile() then makes *)
(* its calls in order: look the node up, read the marketplace, and let the  *)
(* handler of the desired owner act.  Every call is one step here (pc names *)
(* the next one), so operators, pods, renters, the clock, failures and      *)
(* restarts may fall between any two of them.                              *)
(***************************************************************************)
EXTENDS CapacityState

Init ==
  /\ spec \in [desired : DesiredOwners, tid : {1}, tenant : {None}, wait : BOOLEAN]
  /\ fleet = "absent"
  /\ status = [phase |-> "none", owner |-> "UNKNOWN", active |-> 0, listed |-> FALSE,
               last |-> 0, op |-> FALSE, stamp |-> "absent"]
  /\ node = [seen |-> TRUE, owner |-> "ARISE", tenant |-> None, cordoned |-> FALSE,
             taints |-> {}]
  /\ pods = {} /\ evicting = {} /\ vols = {}
  /\ market = [listed |-> FALSE, contracts |-> 0, keys |-> {}, late |-> {}, stray |-> FALSE]
  /\ pc = "idle" /\ tx = NoTx /\ clock = NoClock /\ saved = NoClock
  /\ adapter \in AdapterModes
  /\ budget = [faults |-> MaxFaults, losses |-> MaxLosses,
               crashes |-> MaxCrashes, tampers |-> MaxTampers]

-----------------------------------------------------------------------------
(* Shapes shared by the controller's steps.                                 *)

\* A step that only moves on to the next call.
Move(from, to) ==
  /\ pc = from /\ pc' = to
  /\ UNCHANGED <<orders, status, cluster, market, memory, budget>>

\* reconcile() returns (or raised: the loop catches it): the pass ends.
Return ==
  /\ pc' = "save" /\ tx' = NoTx

\* A PATCH of the Node object.
NodeStep(from, n, to) ==
  /\ pc = from /\ pc' = to
  /\ node' = n
  /\ UNCHANGED <<orders, status, pods, evicting, vols, market, memory, budget>>

\* base_status merged into the current status: the facts read this cycle.
Base == [status EXCEPT !.owner = tx.owner, !.active = tx.active, !.listed = tx.listed,
                       !.last = tx.tid, !.stamp = adapter]

\* The last call of a reconcile is a PATCH of the status; the API server
\* refuses one that breaks the CRD's rules, which raises.
StatusEnd(from, s, c) ==
  /\ pc = from /\ Return
  /\ IF Accepted(s) THEN status' = s /\ clock' = c ELSE UNCHANGED <<status, clock>>
  /\ UNCHANGED <<orders, cluster, market, saved, adapter, budget>>

Spend(kind) == budget[kind] > 0 /\ budget' = [budget EXCEPT ![kind] = @ - 1]

-----------------------------------------------------------------------------
(* The pass: list, look up, read the marketplace.                           *)

\* The listed object is the snapshot reconcile works on.  A future notBefore
\* holds a transition that has not started.
ListCRs ==
  /\ pc = "idle" /\ pc' = "lookup"
  /\ tx' = [NoTx EXCEPT
              !.desired = spec.desired, !.tid = spec.tid, !.tenant = spec.tenant,
              !.phase = status.phase,
              !.gated = spec.wait /\ \/ status.phase \in {"none", "PENDING"}
                                     \/ status.last # spec.tid]
  /\ UNCHANGED <<orders, status, cluster, market, clock, saved, adapter, budget>>

\* No Node carries the node-id: quarantine() is called without a node and
\* goes straight to the status.
NodeMissing == ~node.seen /\ Move("lookup", "q_status")

FoundNode(to) ==
  /\ pc = "lookup" /\ node.seen /\ pc' = to
  /\ tx' = [tx EXCEPT !.owner = node.owner, !.tlabel = node.tenant,
                      !.cordoned = node.cordoned, !.taints = node.taints]
  /\ UNCHANGED <<orders, status, cluster, market, clock, saved, adapter, budget>>

\* Mutant: only a transition under way is suspected of marketplace state.
InheritedInFlight == tx.phase \in InFlight \cup {"QUARANTINED"} /\ status.stamp # "none"

\* Marketplace state recorded, or possibly left unrecorded, by another adapter.
Inherited ==
  \/ node.owner = "VAST" \/ tx.phase \in {"VAST_READY", "VAST_RENTED"}
  \/ status.listed \/ status.op
  \/ tx.phase \in InFlight \cup {"QUARANTINED"} /\ status.stamp # "none"

\* An operator's quarantine waits for no marketplace fact.
OperatorQuarantine == tx.desired = "QUARANTINED" /\ FoundNode("q_unlist")

HoldInherited ==
  /\ tx.desired # "QUARANTINED" /\ adapter = "none" /\ Inherited
  /\ FoundNode("hold_taint")

\* With no marketplace a handover to it fails before anything is touched.
RefuseListing ==
  /\ tx.desired = "VAST" /\ adapter = "none" /\ ~Inherited
  /\ pc = "lookup" /\ node.seen /\ Return
  /\ UNCHANGED <<orders, status, cluster, market, clock, saved, adapter, budget>>

ProceedToMarket ==
  /\ tx.desired # "QUARANTINED"
  /\ adapter = "none" => ~Inherited /\ tx.desired # "VAST"
  /\ FoundNode("get")

\* Holding re-asserts isolation, best effort.
HoldTaint ==
  NodeStep("hold_taint",
           IF tx.owner = "VAST" \/ tx.phase \in {"VAST_READY", "VAST_RENTED"}
           THEN Retainted(node, {"vast"} \ tx.taints, {}) ELSE node,
           "hold_cordon")

HoldCordon ==
  /\ pc = "hold_cordon" /\ Return
  /\ node' = IF tx.cordoned THEN node ELSE Cordoned(node)
  /\ UNCHANGED <<orders, status, pods, evicting, vols, market, clock, saved, adapter, budget>>

\* What adapter.get() answers; the none adapter states its two facts.
Contracts == IF adapter = "none" THEN 0 ELSE market.contracts
IsListed  == adapter # "none" /\ market.listed

\* A rental on a machine we do not label VAST, unless we listed it ourselves.
RentedElsewhere ==
  /\ Contracts > 0 /\ tx.owner # "VAST"
  /\ ~(tx.desired = "VAST" /\ IsListed /\ tx.phase \in {"DRAINING", "VAST_READY", "VAST_RENTED"})

QuarantineRented ==
  /\ RentedElsewhere
  /\ Move("get", "q_unlist")

\* phase after "a new transitionId supersedes whatever phase the previous one ended in".
Superseded ==
  /\ status.last # 0 /\ status.last # tx.tid /\ ~tx.gated
  /\ tx.phase \notin InFlight

GetMachine ==
  /\ pc = "get" /\ ~RentedElsewhere /\ pc' = "dispatch"
  /\ tx' = [tx EXCEPT !.active = Contracts, !.listed = IsListed,
                      !.phase = IF Superseded \/ @ = "none" THEN "PENDING" ELSE @]
  /\ clock' = IF clock.tid = tx.tid THEN clock ELSE [tid |-> tx.tid, overdue |-> FALSE]
  /\ UNCHANGED <<orders, status, cluster, market, saved, adapter, budget>>

\* Contract state unknown: hold position.
GetFails ==
  /\ pc = "get" /\ adapter # "none" /\ Spend("faults") /\ Return
  /\ UNCHANGED <<orders, status, cluster, market, clock, saved, adapter>>

-----------------------------------------------------------------------------
(* Dispatch: drift correction, the notBefore hold, then the owner's handler. *)

\* Mutant: the map has no entry for MAINTENANCE.
ExpectedOwnerNoMaintenance(ph) ==
  CASE ph = "READY"           -> "ARISE"
    [] ph = "VAST_RENTED"     -> "VAST"
    [] ph = "DIRECT_ASSIGNED" -> "DIRECT"
    [] ph = "QUARANTINED"     -> ph
    [] OTHER                  -> tx.owner

\* Mutant: a phase without an entry is taken for an owner.
ExpectedOwnerByPhase(ph) ==
  CASE ph = "VAST_RENTED"     -> "VAST"
    [] ph = "DIRECT_ASSIGNED" -> "DIRECT"
    [] ph \in {"READY", "MAINTENANCE", "QUARANTINED"} -> ph
    [] OTHER                  -> tx.owner

ExpectedOwner(ph) ==
  CASE ph = "READY"           -> "ARISE"
    [] ph = "VAST_RENTED"     -> "VAST"
    [] ph = "DIRECT_ASSIGNED" -> "DIRECT"
    [] ph \in {"MAINTENANCE", "QUARANTINED"} -> ph
    [] OTHER                  -> tx.owner

Drifted == tx.owner # ExpectedOwner(tx.phase)

DriftFix ==
  /\ pc = "dispatch" /\ Drifted /\ Return
  /\ node' = Labelled(node, ExpectedOwner(tx.phase))
  /\ UNCHANGED <<orders, status, pods, evicting, vols, market, clock, saved, adapter, budget>>

NotOpen == tx.taints # {} \/ tx.cordoned

\* Where an ARISE node reporting READY goes first: taints off, then uncordon.
ReopenFrom(after) ==
  IF tx.taints # {} THEN "reopen_taints" ELSE IF tx.cordoned THEN "reopen_uncordon" ELSE after

HoldGated ==
  /\ ~Drifted /\ tx.gated
  /\ Move("dispatch", IF tx.phase = "READY" /\ tx.owner = "ARISE" THEN ReopenFrom("end")
                      ELSE "end")

Handles(owner) == pc = "dispatch" /\ ~Drifted /\ ~tx.gated /\ tx.desired = owner

End == /\ pc = "end" /\ Return
       /\ UNCHANGED <<orders, status, cluster, market, clock, saved, adapter, budget>>

\* _reopen_ready(): nothing when the node is open already.
ReopenTaints == NodeStep("reopen_taints", Retainted(node, {}, tx.taints), "reopen_uncordon")
ReopenUncordon ==
  NodeStep("reopen_uncordon", Uncordoned(node), IF tx.gated THEN "end" ELSE "ready_status")

\* phase VAST_RENTED: a live rental, or an unlist that failed, blocks the transition.
RentedStatus == StatusEnd("rented_status", [Base EXCEPT !.phase = "VAST_RENTED"], clock)

-----------------------------------------------------------------------------
(* The drain that every handover but the return to ARISE starts with.       *)

DrainCordon == NodeStep("drain_cordon", Cordoned(node), "drain_taint")

\* Mutant: the cordon is thought to be fence enough.
DrainTaintSkipped ==
  /\ pc = "drain_taint" /\ pc' = "draining_status"
  /\ clock' = [tid |-> tx.tid, overdue |-> FALSE]
  /\ UNCHANGED <<orders, status, node, pods, evicting, vols, market, tx, saved, adapter, budget>>

\* The taint, then the start of the deadline (in memory).
DrainTaint ==
  /\ pc = "drain_taint" /\ pc' = "draining_status"
  /\ node' = Retainted(node, {"transition"}, {})
  /\ clock' = [tid |-> tx.tid, overdue |-> FALSE]
  /\ UNCHANGED <<orders, status, pods, evicting, vols, market, tx, saved, adapter, budget>>

DrainingStatus == StatusEnd("draining_status", [Base EXCEPT !.phase = "DRAINING"], clock)

\* Mutant: the reserved customer is drained too.
LeavingEveryone == Tenants

\* Everyone leaves, except the tenant a DIRECT reservation is for.
Leaving == Tenants \ (IF tx.desired = "DIRECT" THEN {Reserved(tx.tenant)} ELSE {})

\* Mutant: a pod that will not go is waited for without a deadline.
DrainPendingForever ==
  /\ pc = "drain_read" /\ PodsOf(Leaving) # {}
  /\ \E refused \in SUBSET PodsOf(Leaving) : evicting' = evicting \cup (PodsOf(Leaving) \ refused)
  /\ pc' = "draining_status"
  /\ UNCHANGED <<orders, status, node, pods, vols, market, memory, budget>>

\* Ask every remaining pod to go; a disruption budget may refuse some.  Past
\* the deadline the node is quarantined, whatever the reason they remain.
DrainPending ==
  /\ pc = "drain_read" /\ PodsOf(Leaving) # {}
  /\ \E refused \in SUBSET PodsOf(Leaving) : evicting' = evicting \cup (PodsOf(Leaving) \ refused)
  /\ pc' = IF clock.overdue THEN "q_unlist" ELSE "draining_status"
  /\ UNCHANGED <<orders, status, node, pods, vols, market, memory, budget>>

Drained ==
  /\ PodsOf(Leaving) = {}
  /\ Move("drain_read", IF tx.desired = "MAINTENANCE" THEN "maintain_taints" ELSE "alloc_read")

\* The allocation gate counts every pod on the node.
AllocationZero == ~GpuHeld /\ Move("alloc_read", "volume_read")
AllocationHeld == GpuHeld /\ Move("alloc_read", "q_unlist")

\* Mutant: the handover is not held by what the drained pods left behind.
VolumesIgnored ==
  Move("volume_read", IF tx.desired = "VAST" THEN "prelist" ELSE "bind_label")

VolumesStranded == VolumesOf(Leaving) # {} /\ Move("volume_read", "draining_status")
VolumesClear ==
  /\ VolumesOf(Leaving) = {}
  /\ Move("volume_read", IF tx.desired = "VAST" THEN "prelist" ELSE "bind_label")

-----------------------------------------------------------------------------
(* _reconcile_arise                                                         *)

\* Mutant: the node is reopened before its status has left DRAINING.
AriseSettledReopening ==
  /\ Handles("ARISE") /\ tx.owner = "ARISE" /\ tx.active = 0 /\ ~tx.listed
  /\ Move("dispatch", ReopenFrom("ready_status"))

AriseSettled ==
  /\ Handles("ARISE") /\ tx.owner = "ARISE" /\ tx.active = 0 /\ ~tx.listed
  /\ Move("dispatch", IF tx.phase = "READY" THEN ReopenFrom("ready_status") ELSE "ready_status")

ReadyStatus == StatusEnd("ready_status", [Base EXCEPT !.phase = "READY"], clock)

\* Mutant: no contract gate.
UngatedAfterArise ==
  CASE tx.phase = "HEALTH_CHECK" -> "recheck"
    [] OTHER -> IF tx.owner # "ARISE" /\ ~tx.cordoned THEN "fence" ELSE "reclaim_volumes"

\* Mutant: the gate forgets a rental once the machine is off the market.
ListedOnlyAfterArise ==
  CASE tx.active > 0 /\ tx.listed -> "rented_status"
    [] tx.phase = "HEALTH_CHECK" -> "recheck"
    [] OTHER -> IF tx.owner # "ARISE" /\ ~tx.cordoned THEN "fence" ELSE "reclaim_volumes"

\* Mutant: a departing customer's node is not fenced before the checks.
UnfencedAfterArise ==
  CASE tx.active > 0 -> "rented_status"
    [] tx.active = 0 /\ tx.phase = "HEALTH_CHECK" -> "recheck"
    [] OTHER -> "reclaim_volumes"

\* Past the settled case: unlist, then the contract gate on the count read
\* at the start of the cycle.
AfterAriseGate ==
  CASE tx.active > 0 -> "rented_status"
    [] tx.active = 0 /\ tx.phase = "HEALTH_CHECK" -> "recheck"
    [] OTHER -> IF tx.owner # "ARISE" /\ ~tx.cordoned THEN "fence" ELSE "reclaim_volumes"

AriseReclaim ==
  /\ Handles("ARISE") /\ ~(tx.owner = "ARISE" /\ tx.active = 0 /\ ~tx.listed)
  /\ Move("dispatch", IF tx.listed THEN "arise_unlist" ELSE AfterAriseGate)

\* Mutant: the unlist is logged but never sent.
AriseUnlistSkipped == Move("arise_unlist", AfterAriseGate)

AriseUnlist ==
  /\ pc = "arise_unlist" /\ pc' = AfterAriseGate
  /\ market' = Unlisted(market)
  /\ UNCHANGED <<orders, status, cluster, memory, budget>>

Fence == NodeStep("fence", Cordoned(node), "reclaim_volumes")

\* A customer's volume holds the reclaim where it is.
ReclaimHeld ==
  /\ VolumesOf(Customers) # {}
  /\ StatusEnd("reclaim_volumes", Base, clock)

ReclaimVolumesClear == VolumesOf(Customers) = {} /\ Move("reclaim_volumes", "sanitizing_status")

SanitizingStatus ==
  LET s == [Base EXCEPT !.phase = "SANITIZING"] IN
  /\ pc = "sanitizing_status"
  /\ IF Accepted(s) THEN status' = s /\ pc' = "sanitize" /\ tx' = tx
                    ELSE UNCHANGED status /\ Return
  /\ UNCHANGED <<orders, cluster, market, clock, saved, adapter, budget>>

\* run_sanitization(): no live tenant pod and no GPU held.
SanitizePassed ==
  /\ pods = {}
  /\ StatusEnd("sanitize", [Base EXCEPT !.phase = "HEALTH_CHECK"], clock)
SanitizeFailed == pods # {} /\ Move("sanitize", "q_unlist")

\* The gate is run again on the cycle that acts on it.
RecheckFailed ==
  /\ pods # {}
  /\ StatusEnd("recheck", [Base EXCEPT !.phase = "SANITIZING"], clock)
RecheckPassed == pods = {} /\ Move("recheck", "flip_label")

\* Label first, taints next, the uncordon last.
FlipLabel    == NodeStep("flip_label", Labelled(node, "ARISE"), "flip_taints")
FlipTaints   == NodeStep("flip_taints", Retainted(node, {}, Taints), "flip_uncordon")
FlipUncordon == NodeStep("flip_uncordon", Uncordoned(node), "flip_status")
FlipStatus   ==
  StatusEnd("flip_status", [Base EXCEPT !.owner = "ARISE", !.phase = "READY"], NoClock)

-----------------------------------------------------------------------------
(* _reconcile_vast                                                          *)

\* Mutant: steady state looks at the taint only.
VastSteadyTaintOnly ==
  /\ Handles("VAST") /\ tx.phase \in {"VAST_READY", "VAST_RENTED"}
  /\ Move("dispatch", IF "vast" \notin tx.taints THEN "vast_taint" ELSE "vast_status")

\* Steady state: taint and cordon are re-asserted on every pass.
VastSteady ==
  /\ Handles("VAST") /\ tx.phase \in {"VAST_READY", "VAST_RENTED"}
  /\ Move("dispatch", IF "vast" \notin tx.taints \/ ~tx.cordoned THEN "vast_taint"
                      ELSE "vast_status")

VastTaint  == NodeStep("vast_taint", Retainted(node, {"vast"}, {}), "vast_cordon")
VastCordon == NodeStep("vast_cordon", Cordoned(node), "vast_status")
VastStatus ==
  StatusEnd("vast_status",
            [Base EXCEPT !.owner = "VAST",
                         !.phase = IF tx.active > 0 THEN "VAST_RENTED" ELSE "VAST_READY"],
            clock)

VastStart == Handles("VAST") /\ tx.phase = "PENDING" /\ Move("dispatch", "drain_cordon")
VastDrain == Handles("VAST") /\ tx.phase = "DRAINING" /\ Move("dispatch", "drain_read")

\* No branch matches any other phase: the cycle does nothing.
VastOther ==
  /\ Handles("VAST")
  /\ tx.phase \notin {"VAST_READY", "VAST_RENTED", "PENDING", "DRAINING"}
  /\ Move("dispatch", "end")

\* The checks look the node up again: one that cannot be found is not Ready.
PrelistPassed == node.seen /\ pods = {} /\ Move("prelist", "list")
PrelistFailed == (~node.seen \/ pods # {}) /\ Move("prelist", "q_unlist")
\* The node is NotReady or under disk pressure.
PrelistUnhealthy ==
  /\ pc = "prelist" /\ pc' = "q_unlist" /\ Spend("faults")
  /\ UNCHANGED <<orders, status, cluster, market, memory>>

ListMachine ==
  /\ pc = "list" /\ pc' = "readback"
  /\ market' = ListEffect(market, tx.tid)
  /\ UNCHANGED <<orders, status, cluster, memory, budget>>

\* No answer: the request had no effect, took effect, or is still on its way.
ListUncertain ==
  /\ pc = "list" /\ pc' = "query" /\ Spend("faults")
  /\ \/ UNCHANGED market
     \/ market' = ListEffect(market, tx.tid)
     \/ LateLists /\ market' = [market EXCEPT !.late = @ \cup {tx.tid}]
  /\ UNCHANGED <<orders, status, cluster, memory>>

\* Never retry blindly: ask first.
QueryListed   == market.listed /\ Move("query", "readback")
QueryUnlisted == ~market.listed /\ Move("query", "draining_status")
QueryFails ==
  /\ pc = "query" /\ pc' = "q_unlist" /\ Spend("faults")
  /\ UNCHANGED <<orders, status, cluster, market, memory>>

ReadbackListed ==
  /\ pc = "readback" /\ market.listed /\ pc' = "handover_taints"
  /\ tx' = [tx EXCEPT !.active = market.contracts, !.listed = TRUE]
  /\ UNCHANGED <<orders, status, cluster, market, clock, saved, adapter, budget>>
ReadbackMismatch == ~market.listed /\ Move("readback", "q_unlist")

HandoverTaints ==
  NodeStep("handover_taints", Retainted(node, {"vast"}, Taints), "handover_label")
HandoverLabel == NodeStep("handover_label", Labelled(node, "VAST"), "handover_status")
HandoverStatus ==
  StatusEnd("handover_status",
            [Base EXCEPT !.owner = "VAST", !.op = TRUE,
                         !.phase = IF tx.active > 0 THEN "VAST_RENTED" ELSE "VAST_READY"],
            clock)

-----------------------------------------------------------------------------
(* _reconcile_direct                                                        *)

DirectListed == Handles("DIRECT") /\ tx.listed /\ Move("dispatch", "direct_unlist")
DirectUnlist ==
  /\ pc = "direct_unlist" /\ pc' = "pending_status"
  /\ market' = Unlisted(market)
  /\ UNCHANGED <<orders, status, cluster, memory, budget>>
PendingStatus == StatusEnd("pending_status", [Base EXCEPT !.phase = "PENDING"], clock)

DirectRented ==
  Handles("DIRECT") /\ ~tx.listed /\ tx.active > 0 /\ Move("dispatch", "rented_status")

\* Mutant: a finished rental's phase is kept.
PhaseKept == tx.phase

\* A finished rental's phase is history.
Phase == IF tx.phase \in {"VAST_RENTED", "VAST_READY"} THEN "PENDING" ELSE tx.phase

DirectFree == Handles("DIRECT") /\ ~tx.listed /\ tx.active = 0

\* The reservation names nobody: hold before touching the node.
DirectAmbiguous ==
  DirectFree /\ Reserved(tx.tenant) = None /\ Move("dispatch", "base_status")
BaseStatus == StatusEnd("base_status", Base, clock)

DirectNamed == DirectFree /\ Reserved(tx.tenant) # None

DirectDrift == IF "direct" \notin tx.taints \/ tx.cordoned THEN "direct_taint" ELSE "direct_status"
DirectSteady ==
  /\ DirectNamed /\ Phase = "DIRECT_ASSIGNED"
  /\ Move("dispatch", IF tx.tlabel # Reserved(tx.tenant) THEN "rebind_cordon" ELSE DirectDrift)

RebindCordon   == NodeStep("rebind_cordon", Cordoned(node), "rebind_label")
RebindLabel    == NodeStep("rebind_label", BoundTo(node, Reserved(tx.tenant)), "rebind_uncordon")
RebindUncordon == NodeStep("rebind_uncordon", Uncordoned(node), DirectDrift)
DirectTaint    ==
  NodeStep("direct_taint", Retainted(node, {"direct"}, {"transition", "vast"}), "direct_uncordon")
DirectUncordon == NodeStep("direct_uncordon", Uncordoned(node), "direct_status")
DirectStatus   ==
  StatusEnd("direct_status", [Base EXCEPT !.owner = "DIRECT", !.phase = "DIRECT_ASSIGNED"], clock)

DirectStart == DirectNamed /\ Phase = "PENDING" /\ Move("dispatch", "drain_cordon")
DirectDrain == DirectNamed /\ Phase = "DRAINING" /\ Move("dispatch", "drain_read")
DirectOther ==
  /\ DirectNamed /\ Phase \notin {"DIRECT_ASSIGNED", "PENDING", "DRAINING"}
  /\ Move("dispatch", "end")

\* Both labels while still cordoned, the taint, then the uncordon.
BindLabel    == NodeStep("bind_label", BoundTo(node, Reserved(tx.tenant)), "bind_taints")
BindTaints   == NodeStep("bind_taints", Retainted(node, {"direct"}, Taints), "bind_uncordon")
BindUncordon == NodeStep("bind_uncordon", Uncordoned(node), "bind_status")
BindStatus   ==
  StatusEnd("bind_status", [Base EXCEPT !.owner = "DIRECT", !.phase = "DIRECT_ASSIGNED"], NoClock)

-----------------------------------------------------------------------------
(* _reconcile_maintenance                                                   *)

\* After the unlist the cycle goes on with the count it read before.
AfterMaintenanceGate ==
  IF tx.active > 0 THEN "rented_status"
  ELSE CASE Phase = "MAINTENANCE" ->
              IF "maintenance" \notin tx.taints \/ ~tx.cordoned THEN "maint_taint"
              ELSE "maint_status"
         [] Phase = "PENDING"  -> "drain_cordon"
         [] Phase = "DRAINING" -> "drain_read"
         [] OTHER              -> "end"

MaintenanceBegin ==
  /\ Handles("MAINTENANCE")
  /\ Move("dispatch", IF tx.listed THEN "maint_unlist" ELSE AfterMaintenanceGate)

MaintenanceUnlist ==
  /\ pc = "maint_unlist" /\ pc' = AfterMaintenanceGate
  /\ market' = Unlisted(market)
  /\ UNCHANGED <<orders, status, cluster, memory, budget>>

MaintTaint  == NodeStep("maint_taint", Retainted(node, {"maintenance"}, {}), "maint_cordon")
MaintCordon == NodeStep("maint_cordon", Cordoned(node), "maint_status")
MaintStatus ==
  StatusEnd("maint_status", [Base EXCEPT !.owner = "MAINTENANCE", !.phase = "MAINTENANCE"], clock)

MaintainTaints ==
  NodeStep("maintain_taints", Retainted(node, {"maintenance"}, {"transition", "vast", "direct"}),
           "maintain_label")
MaintainLabel  == NodeStep("maintain_label", Labelled(node, "MAINTENANCE"), "maintain_status")
MaintainStatus ==
  StatusEnd("maintain_status",
            [Base EXCEPT !.owner = "MAINTENANCE", !.phase = "MAINTENANCE"], NoClock)

-----------------------------------------------------------------------------
(* quarantine(): unlist (best effort), taint, cordon, label, then status.   *)

\* Mutant: isolating the node in Kubernetes is thought to be enough.
QuarantineUnlistSkipped == Move("q_unlist", "q_taint")

QuarantineUnlist ==
  /\ pc = "q_unlist" /\ pc' = "q_taint"
  /\ market' = IF adapter = "none" THEN market ELSE Unlisted(market)
  /\ UNCHANGED <<orders, status, cluster, memory, budget>>
QuarantineTaint  == NodeStep("q_taint", Retainted(node, {"transition"}, {}), "q_cordon")
QuarantineCordon == NodeStep("q_cordon", Cordoned(node), "q_label")
QuarantineLabel  == NodeStep("q_label", Labelled(node, "QUARANTINED"), "q_status")
QuarantineStatus ==
  StatusEnd("q_status", [status EXCEPT !.phase = "QUARANTINED", !.owner = "QUARANTINED",
                                       !.stamp = adapter], clock)

\* The pass ends by writing the state dict to its ConfigMap.
SaveState ==
  /\ pc = "save" /\ pc' = "idle" /\ saved' = clock
  /\ UNCHANGED <<orders, status, cluster, market, tx, clock, adapter, budget>>

-----------------------------------------------------------------------------
(* Failures.                                                                *)

\* An unlist with no answer, whether or not it took effect.
UnlistFails ==
  /\ pc \in {"arise_unlist", "direct_unlist", "maint_unlist", "q_unlist"}
  /\ adapter # "none" /\ Spend("faults")
  /\ market' \in {market, Unlisted(market)}
  /\ pc' = IF pc = "q_unlist" THEN "q_taint" ELSE "rented_status"
  /\ UNCHANGED <<orders, status, cluster, memory>>

\* A Kubernetes call raises.  quarantine() swallows it and still writes the
\* status, a held node's re-assertion is skipped, save_state leaves the
\* ConfigMap as it was, and anything else ends the reconcile.
CallFails ==
  /\ pc \notin {"idle", "get", "dispatch", "end", "list", "query", "arise_unlist",
               "direct_unlist", "maint_unlist", "q_unlist"}
  /\ Spend("faults")
  /\ CASE pc \in {"q_taint", "q_cordon", "q_label"} -> pc' = "q_status" /\ tx' = tx
       [] pc = "save" -> pc' = "idle" /\ tx' = tx
       [] OTHER       -> Return
  /\ UNCHANGED <<orders, status, cluster, market, clock, saved, adapter>>

\* The process dies and is started again; only the ConfigMap survives.
Restart ==
  /\ Spend("crashes")
  /\ pc' = "idle" /\ tx' = NoTx /\ clock' = saved
  /\ adapter' \in AdapterModes
  /\ UNCHANGED <<orders, status, cluster, market, saved>>

-----------------------------------------------------------------------------
(* Everyone else.                                                           *)

\* build_fleet() lists the Nodes first and the objects after them: the label
\* the gate looks at may be older than the status beside it.
ConsoleListsNodes ==
  /\ ~Kubectl
  /\ fleet' = IF node.seen THEN node.owner ELSE "absent"
  /\ UNCHANGED <<spec, status, cluster, market, pc, memory, budget>>

\* The console offers a transition only from a settled node (gate_check).
ConsoleGate(d) ==
  /\ status.last = spec.tid
  /\ fleet \notin {"absent", d, "QUARANTINED"}
  /\ status.active > 0 => d \notin {"ARISE", "DIRECT", "MAINTENANCE"}
  /\ status.phase \notin InFlight

\* A new transition: its id is fresh and a tenant is named only for DIRECT.
\* The console names customers only and never sets a notBefore.
Submit(d, t, w) ==
  /\ spec.tid < MaxTid
  /\ t # None => d = "DIRECT"
  /\ Kubectl \/ (ConsoleGate(d) /\ t \in Customers \cup {None} /\ ~w)
  /\ spec' = [desired |-> d, tid |-> spec.tid + 1, tenant |-> t, wait |-> w]
  /\ fleet' = "absent"
  /\ UNCHANGED <<status, cluster, market, pc, memory, budget>>

NotBeforePasses ==
  /\ spec.wait /\ spec' = [spec EXCEPT !.wait = FALSE]
  /\ UNCHANGED <<fleet, status, cluster, market, pc, memory, budget>>

\* DRAIN_TIMEOUT has gone by since every recorded start; no request to the
\* console takes that long.
TimePasses ==
  /\ clock' = [clock EXCEPT !.overdue = clock.tid # 0]
  /\ saved' = [saved EXCEPT !.overdue = saved.tid # 0]
  /\ fleet' = "absent"
  /\ UNCHANGED <<spec, status, cluster, market, pc, tx, adapter, budget>>

PodBinds(p) ==
  /\ p \notin pods /\ Admits(node, TenantOf[p])
  /\ pods' = pods \cup {p}
  /\ \/ UNCHANGED vols
     \/ TenantOf[p] \in VolumeTenants /\ vols' = vols \cup {TenantOf[p]}
  /\ UNCHANGED <<orders, status, node, evicting, market, pc, memory, budget>>

PodEnds(p) ==
  /\ p \in pods
  /\ pods' = pods \ {p} /\ evicting' = evicting \ {p}
  /\ UNCHANGED <<orders, status, node, vols, market, pc, memory, budget>>

\* A human deletes a volume, or clears its claimRef to rebind it.
VolumeChanges(v) ==
  /\ v \in vols
  /\ \/ vols' = vols \ {v}
     \/ vols' = (vols \ {v}) \cup {Unbound}
  /\ UNCHANGED <<orders, status, node, pods, evicting, market, pc, memory, budget>>

ContractStarts ==
  /\ market.listed /\ market.contracts < MaxContracts
  /\ market' = [market EXCEPT !.contracts = @ + 1]
  /\ UNCHANGED <<orders, status, cluster, pc, memory, budget>>

ContractEnds ==
  /\ market.contracts > 0
  /\ market' = [market EXCEPT !.contracts = @ - 1]
  /\ UNCHANGED <<orders, status, cluster, pc, memory, budget>>

\* `stray` is history: it took effect when another transition was asked for.
ListLands(k) ==
  /\ k \in market.late
  /\ LET stray == market.stray \/ k \notin market.keys \cup {spec.tid} IN
     market' = ListEffect([market EXCEPT !.late = @ \ {k}, !.stray = stray], k)
  /\ UNCHANGED <<orders, status, cluster, pc, memory, budget>>

\* The node-id label is lost (a re-image) or comes back.
NodeVanishes ==
  /\ node.seen /\ Spend("losses")
  /\ node' = [node EXCEPT !.seen = FALSE]
  /\ UNCHANGED <<orders, status, pods, evicting, vols, market, pc, memory>>

NodeReturns ==
  /\ ~node.seen
  /\ node' = [node EXCEPT !.seen = TRUE]
  /\ UNCHANGED <<orders, status, pods, evicting, vols, market, pc, memory, budget>>

\* A manual edit of the Node: relabel, uncordon, cordon or drop a taint.
Tamper ==
  /\ Spend("tampers")
  /\ \/ "label" \in HandEdits /\ \E o \in Owners \ {node.owner} : node' = Labelled(node, o)
     \/ "cordon" \in HandEdits /\ node' = [node EXCEPT !.cordoned = ~@]
     \/ "taint" \in HandEdits /\ \E t \in node.taints : node' = Retainted(node, {}, {t})
  /\ UNCHANGED <<orders, status, pods, evicting, vols, market, pc, memory>>

-----------------------------------------------------------------------------
Pass == \/ ListCRs \/ NodeMissing \/ OperatorQuarantine \/ HoldInherited \/ RefuseListing
        \/ ProceedToMarket \/ HoldTaint \/ HoldCordon \/ QuarantineRented \/ GetMachine
        \/ DriftFix \/ HoldGated \/ End \/ ReopenTaints \/ ReopenUncordon \/ RentedStatus
        \/ SaveState

Drain == \/ DrainCordon \/ DrainTaint \/ DrainingStatus \/ DrainPending \/ Drained
         \/ AllocationZero \/ AllocationHeld \/ VolumesStranded \/ VolumesClear

Arise == \/ AriseSettled \/ ReadyStatus \/ AriseReclaim \/ AriseUnlist \/ Fence \/ ReclaimHeld
         \/ ReclaimVolumesClear \/ SanitizingStatus \/ SanitizePassed \/ SanitizeFailed
         \/ RecheckFailed \/ RecheckPassed \/ FlipLabel \/ FlipTaints \/ FlipUncordon
         \/ FlipStatus

Vast == \/ VastSteady \/ VastTaint \/ VastCordon \/ VastStatus \/ VastStart \/ VastDrain
        \/ VastOther \/ PrelistPassed \/ PrelistFailed \/ ListMachine \/ QueryListed
        \/ QueryUnlisted \/ ReadbackListed \/ ReadbackMismatch \/ HandoverTaints
        \/ HandoverLabel \/ HandoverStatus

Direct == \/ DirectListed \/ DirectUnlist \/ PendingStatus \/ DirectRented \/ DirectAmbiguous
          \/ BaseStatus \/ DirectSteady \/ RebindCordon \/ RebindLabel \/ RebindUncordon
          \/ DirectTaint \/ DirectUncordon \/ DirectStatus \/ DirectStart \/ DirectDrain
          \/ DirectOther \/ BindLabel \/ BindTaints \/ BindUncordon \/ BindStatus

Maintenance == \/ MaintenanceBegin \/ MaintenanceUnlist \/ MaintTaint \/ MaintCordon
               \/ MaintStatus \/ MaintainTaints \/ MaintainLabel \/ MaintainStatus

Quarantine == \/ QuarantineUnlist \/ QuarantineTaint \/ QuarantineCordon \/ QuarantineLabel
              \/ QuarantineStatus

Controller == Pass \/ Drain \/ Arise \/ Vast \/ Direct \/ Maintenance \/ Quarantine

Failures == GetFails \/ PrelistUnhealthy \/ ListUncertain \/ QueryFails \/ UnlistFails
            \/ CallFails \/ Restart \/ NodeVanishes

Environment ==
  \/ \E d \in DesiredOwners, t \in Tenants \cup {None}, w \in BOOLEAN : Submit(d, t, w)
  \/ ConsoleListsNodes \/ NotBeforePasses \/ TimePasses
  \/ \E p \in Pods : PodBinds(p) \/ PodEnds(p)
  \/ \E v \in Tenants \cup {Unbound} : VolumeChanges(v)
  \/ ContractStarts \/ ContractEnds
  \/ \E k \in Tids : ListLands(k)
  \/ NodeReturns \/ Tamper

Next == Controller \/ Failures \/ Environment

Spec == Init /\ [][Next]_vars

=============================================================================
