--------------------------- MODULE OwnershipProofs ---------------------------
(***************************************************************************)
(* "A node has exactly one owner at any instant", for any tenants,          *)
(* customers, pods and volumes and any number of transitions, rentals,      *)
(* failed calls, lost nodes and restarts.  Operators work through the       *)
(* console, or write the object as they like while no call fails and the    *)
(* controller is not restarted; nobody edits the Node by hand, the process  *)
(* has the marketplace adapter, and no list request outlives its call.      *)
(*                                                                         *)
(* None of the properties is inductive: what a pass may do to the node      *)
(* depends on what it has read, what it has read on the status an earlier   *)
(* pass reported, and the status on the calls that pass had made.  OwnInv   *)
(* says how these fit together, in one named part per question.             *)
(***************************************************************************)
EXTENDS ReclaimProofs

\* Operators go through the console's gate.
ByConsole == Kubectl = FALSE

\* The setting of the theorems of this module.  Operators who bypass the console
\* change the transition between any two calls of a pass: then passes must be
\* carried through, for what an interrupted one leaves is only taken up by a
\* later pass of the same transition.
Supervised ==
  /\ ByConsole \/ (MaxFaults = 0 /\ MaxCrashes = 0)
  /\ MaxTampers = 0 /\ LateLists = FALSE /\ AdapterModes = {"mock-v1"}

-----------------------------------------------------------------------------
(* The inductive invariant.                                                 *)

\* No pod of any tenant is placed on such a node.
Shut(n) ==
  \/ n.cordoned
  \/ n.owner \notin {"ARISE", "DIRECT"}
  \/ n.owner = "ARISE" /\ n.taints # {}
  \/ n.owner = "DIRECT" /\ ~(n.taints \subseteq {"direct"})

\* The marketplace has, or may yet have, work on the machine.
Sold == market.listed \/ market.contracts > 0

Bound(t) == t # None /\ node.owner = "DIRECT" /\ node.tenant = t

\* Tenants that the node's labels let in.
Fit(T) ==
  /\ node.owner = "ARISE" => T \cap Customers = {}
  /\ node.owner = "DIRECT" => T \subseteq {node.tenant}

Busy == {TenantOf[p] : p \in pods}

\* Who has pods or volumes on the machine fits its labels, nobody shares it
\* with another class, and it is sold only when shut and empty.
UsersFit ==
  /\ Fit(Busy) /\ Fit(vols \cap Tenants)
  /\ \A t, u \in Busy : ClassOf(t) = ClassOf(u)
  /\ Sold => pods = {} /\ Shut(node)
  /\ market.listed => vols = {}

\* A quarantine has relabelled the node and not reported yet.  Under the console
\* an operator's quarantine is the last transition: it is asked for still, and
\* the pass at work knows it.  Otherwise the report is the pass's next call.
Quarantining ==
  \/ ByConsole /\ spec.desired = "QUARANTINED" /\ (tx.tid # 0 => tx.desired = "QUARANTINED")
  \/ ~ByConsole /\ pc = "q_status"

\* A settled phase is backed by its label and, for a customer, by the tenant the
\* reservation names; only a quarantine is changing it.
SettledFit ==
  /\ status.phase \in {"READY", "DIRECT_ASSIGNED", "MAINTENANCE"} => status.last # 0
  /\ status.phase \in {"READY", "DIRECT_ASSIGNED"} => ~Sold
  /\ status.phase = "MAINTENANCE" /\ ByConsole => ~Sold
  /\ status.phase = "READY" => Quarantining \/ node.owner = "ARISE"
  /\ status.phase = "DIRECT_ASSIGNED" => Quarantining \/ node.owner = "DIRECT"
  /\ status.phase = "MAINTENANCE" => Quarantining \/ node.owner = "MAINTENANCE"
  /\ status.phase = "DIRECT_ASSIGNED" /\ status.last = spec.tid /\ spec.desired = "DIRECT"
       => Reserved(spec.tenant) \in {None, node.tenant}
  /\ status.phase = "DIRECT_ASSIGNED" /\ status.last = tx.tid /\ tx.desired = "DIRECT"
       => Reserved(tx.tenant) \in {None, node.tenant}
  /\ status.phase \in {"none", "PENDING"} /\ status.last = spec.tid => spec.desired # "VAST"
  /\ status.phase \in {"none", "PENDING"} /\ status.last = tx.tid /\ tx.tid # 0
       => tx.desired # "VAST"

\* A transition under way keeps the node shut: a drain by the cordon, until the
\* customer it is for has the node (where operators bypass the console, up to the
\* report that comes next); a reclaim until the label is ARISE's.
FlightFit ==
  /\ status.phase = "DRAINING" =>
       \/ node.cordoned
       \/ ByConsole /\ spec.desired = "DIRECT" /\ Bound(Reserved(spec.tenant)) /\ ~Sold
       \/ ~ByConsole /\ pc = "bind_status"
  /\ ByConsole /\ status.phase = "DRAINING" /\ spec.desired = "MAINTENANCE" => ~market.listed
  /\ status.phase \in {"SANITIZING", "HEALTH_CHECK"} =>
       /\ Shut(node) \/ node.owner = "ARISE"
       /\ vols \cap Customers = {}

\* The pass at work is on the transition in force or on an older one; through
\* the console on the one before it, which it has reported on already, and
\* nothing follows a quarantine.
TidsFit ==
  /\ status.last <= spec.tid /\ tx.tid <= spec.tid
  /\ tx.tid # 0 => status.last <= tx.tid
  /\ tx.tid = spec.tid => tx.desired = spec.desired /\ tx.tenant = spec.tenant
  /\ spec.desired = "QUARANTINED" => status.last # spec.tid
  /\ ByConsole /\ tx.tid \notin {0, spec.tid}
       => status.last = tx.tid /\ tx.desired # "QUARANTINED"
  /\ pc \notin {"idle", "save"} /\ tx.desired = "QUARANTINED" =>
       pc \in {"lookup", "q_unlist", "q_taint", "q_cordon", "q_label", "q_status"}

\* Until the pass acts, what it has read is still so.
ReadFit ==
  /\ pc \in {"lookup", "get"} => tx.phase = status.phase
  /\ pc \in {"dispatch", "maint_unlist"} =>
       \/ tx.phase = status.phase
       \/ tx.phase = "PENDING" /\ status.phase \notin InFlight
  /\ pc = "dispatch" /\ status.phase \notin {"none", "PENDING"} /\ tx.phase = "PENDING"
       => status.last # tx.tid
  /\ pc = "dispatch" /\ tx.phase = "DIRECT_ASSIGNED" => tx.gated \/ status.last = tx.tid
  /\ pc \in {"lookup", "get", "dispatch", "maint_unlist"} /\ tx.phase \in InFlight
       /\ ByConsole => tx.tid = spec.tid
  /\ pc \in {"get", "dispatch", "arise_unlist"} =>
       /\ tx.owner = node.owner /\ tx.tlabel = node.tenant
       /\ tx.cordoned = node.cordoned /\ tx.taints = node.taints
  /\ pc \in {"arise_unlist", "maint_unlist"} => market.listed

\* _reconcile_arise: shut and free of customers' data up to the label, the
\* pool's own from there on.
AriseFit ==
  /\ pc \in {"arise_unlist", "fence", "reclaim_volumes", "sanitizing_status", "sanitize"}
       => tx.desired = "ARISE"
  /\ pc \in {"reclaim_volumes", "sanitizing_status", "sanitize", "recheck", "flip_label"}
       => Shut(node)
  /\ pc \in {"sanitizing_status", "sanitize", "recheck", "flip_label"}
       => vols \cap Customers = {}
  /\ pc = "sanitize" => status.phase = "SANITIZING"
  /\ pc \in {"recheck", "flip_label", "flip_taints", "flip_uncordon", "flip_status"}
       => status.phase = "HEALTH_CHECK"
  /\ pc = "flip_label" => pods = {}
  /\ pc \in {"flip_taints", "flip_uncordon", "flip_status", "ready_status", "reopen_taints",
             "reopen_uncordon"} => node.owner = "ARISE"
  /\ pc \in {"reopen_taints", "reopen_uncordon", "ready_status"} => ~Sold
  /\ pc \in {"reopen_taints", "reopen_uncordon"} => status.phase = "READY"

\* The calls of a handover from the drain's checks to its last status.
ToVast   == {"prelist", "list", "query", "readback", "handover_taints", "handover_label",
             "handover_status"}
ToDirect == {"bind_label", "bind_taints", "bind_uncordon", "bind_status"}
ToMaint  == {"maintain_taints", "maintain_label", "maintain_status"}
InDrain  == {"drain_read", "alloc_read", "volume_read"} \cup ToVast \cup ToDirect \cup ToMaint

\* The drain and the handovers: each call finds what the calls before it left.
DrainFit ==
  /\ pc = "drain_taint" => node.cordoned
  /\ pc = "draining_status" /\ status.phase # "DRAINING" => node.cordoned
  /\ pc \in {"drain_cordon", "drain_taint", "draining_status"} =>
       /\ tx.desired \in {"DIRECT", "VAST", "MAINTENANCE"}
       /\ tx.desired = "DIRECT" => ~Sold
       /\ tx.desired = "MAINTENANCE" /\ ByConsole => ~market.listed
       /\ tx.desired = "VAST" /\ status.phase # "DRAINING"
            => status.last # tx.tid /\ (ByConsole => tx.tid = spec.tid)
       /\ status.phase \in InFlight
            => /\ pc = "draining_status" /\ status.phase = "DRAINING"
               /\ ByConsole => tx.tid = spec.tid
  /\ pc \in InDrain =>
       /\ status.phase = "DRAINING" /\ (ByConsole => tx.tid = spec.tid)
       /\ tx.desired \in {"DIRECT", "VAST", "MAINTENANCE"}
       /\ tx.desired = "DIRECT" => ~Sold
       /\ tx.desired = "MAINTENANCE" /\ ByConsole => ~Sold
       /\ tx.desired = "DIRECT" => Reserved(tx.tenant) # None
  /\ pc \in {"alloc_read", "volume_read"} => tx.desired # "MAINTENANCE"
  /\ pc \in ToVast => tx.desired = "VAST"
  /\ pc \in ToDirect => tx.desired = "DIRECT"
  /\ pc \in ToMaint => tx.desired = "MAINTENANCE"
  /\ pc \in {"alloc_read", "volume_read", "bind_label"} /\ tx.desired = "DIRECT"
       => Busy \subseteq {Reserved(tx.tenant)}
  /\ pc = "bind_label" => vols \subseteq {Reserved(tx.tenant), Unbound}
  /\ pc \in {"prelist", "list"} => vols = {}
  /\ pc = "list" => pods = {}
  /\ pc \in {"bind_taints", "bind_uncordon", "bind_status"} => Bound(Reserved(tx.tenant))
  /\ pc = "maintain_status" => node.owner = "MAINTENANCE"

\* The remaining calls.  Rebinding and holding never happen: a reservation is
\* not changed in place, and the adapter is always there.
OtherFit ==
  /\ pc \notin {"rebind_cordon", "rebind_label", "rebind_uncordon", "hold_taint",
                "hold_cordon"}
  /\ pc \in {"direct_unlist", "pending_status"} => tx.desired = "DIRECT"
  /\ pc = "maint_unlist" => tx.desired = "MAINTENANCE"
  /\ pc = "base_status" => tx.desired = "DIRECT" /\ Reserved(tx.tenant) = None
  /\ pc \in {"direct_taint", "direct_uncordon", "direct_status"} =>
       /\ ~Sold /\ tx.desired = "DIRECT"
       /\ status.phase = "DIRECT_ASSIGNED" /\ Bound(Reserved(tx.tenant))
  /\ pc \in {"maint_taint", "maint_cordon", "maint_status"} => status.phase = "MAINTENANCE"
  /\ pc \in {"q_unlist", "q_taint", "q_cordon", "q_label"} /\ tx.desired # "QUARANTINED"
       => /\ status.phase \notin {"READY", "DIRECT_ASSIGNED"}
          /\ ByConsole => status.phase # "MAINTENANCE"
  /\ pc = "q_label" => node.cordoned

OwnInv ==
  /\ ReclaimInv
  /\ UsersFit /\ SettledFit /\ FlightFit /\ TidsFit
  /\ ReadFit /\ AriseFit /\ DrainFit /\ OtherFit

\* What every step of the proof looks into.
USE
DEF ReclaimInv, StatusUnsold, PathUnsold, PhaseCurrent, MarketCurrent, SanitizePath, FlipPath,
   DrainPath, Choosing, InFlight, SettledFit, FlightFit, TidsFit, ReadFit, AriseFit, DrainFit,
   OtherFit, Bound, Quarantining, Sold, InDrain, ToVast, ToDirect, ToMaint, ByConsole, Supervised


\* Fewer users, on a node that is no more open than before.
LEMMA UsersFewer ==
  ASSUME UsersFit, pods' \subseteq pods, vols' \subseteq vols \cup {Unbound},
         \/ node'.owner \notin {"ARISE", "DIRECT"}
         \/ node'.owner = node.owner /\ node'.tenant = node.tenant,
         Sold' => Sold /\ (Shut(node) => Shut(node')),
         market'.listed => market.listed /\ vols' \subseteq vols
  PROVE  UsersFit'
BY ConstantsAssumption DEF UsersFit, Fit, Busy

LEMMA BusyFewer == pods' \subseteq pods => Busy' \subseteq Busy
BY DEF Busy

\* How most reconciles end: a phase is reported, or the report is refused.
Reported(from, ph) ==
  /\ pc = from /\ pc' = "save" /\ tx' = NoTx
  /\ UNCHANGED <<spec, fleet, node, pods, evicting, vols, market>>
  /\ status' = status \/ (status'.phase = ph /\ status'.last = tx.tid)

LEMMA Reports ==
  ASSUME TypeOK, NEW from, NEW p, NEW c, StatusEnd(from, [Base EXCEPT !.phase = p], c)
  PROVE  Reported(from, p)
BY DEF Reported, StatusEnd, Base, Return, orders, cluster, TypeOK, StatusType

LEMMA ReportsOwner ==
  ASSUME TypeOK, NEW from, NEW p, NEW o, NEW c,
         StatusEnd(from, [Base EXCEPT !.owner = o, !.phase = p], c)
  PROVE  Reported(from, p)
BY DEF Reported, StatusEnd, Base, Return, orders, cluster, TypeOK, StatusType

LEMMA ReportsListed ==
  ASSUME TypeOK, NEW from, NEW p, NEW o, NEW c,
         StatusEnd(from, [Base EXCEPT !.owner = o, !.op = TRUE, !.phase = p], c)
  PROVE  Reported(from, p)
BY DEF Reported, StatusEnd, Base, Return, orders, cluster, TypeOK, StatusType

LEMMA ReportsBase ==
  ASSUME TypeOK, NEW from, NEW c, StatusEnd(from, Base, c)
  PROVE  Reported(from, status.phase)
BY DEF Reported, StatusEnd, Base, Return, orders, cluster, TypeOK, StatusType

\* A pass that ends with nothing done.
LEMMA ReturnOwn ==
  ASSUME OwnInv, pc' \in {"idle", "save"}, tx' = NoTx,
         UNCHANGED <<spec, status, node, pods, vols, market>>, ReclaimInv',
         ByConsole \/ pc \notin {"q_status", "bind_status"}
  PROVE  OwnInv'
<1>1. UsersFit'
  BY UsersFewer DEF OwnInv
<1>2. tx'.tid = 0 /\ spec.tid # 0 /\ spec.tid >= 0
  BY DEF OwnInv, TypeOK, SpecType, Tids, NoTx
<1>3. SettledFit' /\ FlightFit' /\ TidsFit'
  BY <1>2 DEF OwnInv
<1>4. ReadFit' /\ AriseFit'
  BY <1>2 DEF OwnInv
<1>5. DrainFit' /\ OtherFit'
  BY <1>2 DEF OwnInv
<1>6. QED
  BY <1>1, <1>3, <1>4, <1>5 DEF OwnInv

\* The pass: list, look up, read the marketplace, correct drift, save.
LEMMA PassOwn ==
  ASSUME OwnInv, ReclaimInv', Pass, Supervised
  PROVE  OwnInv'
<1>0. TypeOK
  BY DEF OwnInv
<1>1. CASE ListCRs
  <2>1. /\ tx'.desired = spec.desired /\ tx'.tid = spec.tid /\ tx'.tenant = spec.tenant
        /\ tx'.phase = status.phase /\ pc = "idle" /\ pc' = "lookup"
        /\ UNCHANGED <<orders, status, cluster, market>>
    BY <1>1 DEF ListCRs, NoTx
  <2>2. UsersFit'
    BY <2>1, UsersFewer DEF OwnInv, orders, cluster
  <2>3. QED
    BY <2>1, <2>2 DEF OwnInv, TypeOK, SpecType, Tids, orders, cluster
<1>2. CASE NodeMissing
  BY <1>2, UsersFewer DEF OwnInv, NodeMissing, Move, orders, cluster, memory
<1>3. CASE OperatorQuarantine
  BY <1>3, UsersFewer
  DEF OwnInv, OperatorQuarantine, FoundNode, TypeOK, TxType, orders, cluster, memory
<1>4. CASE HoldInherited
  BY <1>4 DEF OwnInv, HoldInherited, FoundNode, TypeOK, orders, cluster, memory
<1>5. CASE RefuseListing
  BY <1>5, ReturnOwn DEF OwnInv, RefuseListing, Return, TypeOK, orders, cluster, memory
<1>6. CASE ProceedToMarket
  BY <1>6, UsersFewer
  DEF OwnInv, ProceedToMarket, FoundNode, TypeOK, TxType, orders, cluster, memory
<1>7. CASE HoldTaint
  BY <1>7 DEF OwnInv, HoldTaint, NodeStep, orders, memory
<1>8. CASE HoldCordon
  BY <1>8 DEF OwnInv, HoldCordon, Return, orders, cluster, memory
<1>9. CASE QuarantineRented
  BY <1>9, UsersFewer
  DEF OwnInv, QuarantineRented, RentedElsewhere, Contracts, IsListed, Move, orders, cluster,
      memory
<1>10. CASE GetMachine
  BY <1>10, UsersFewer
  DEF OwnInv, GetMachine, Contracts, IsListed, Superseded, RentedElsewhere, TypeOK, TxType,
      MarketType, orders, cluster, memory
<1>11. CASE DriftFix
  <2>1. /\ pc = "dispatch" /\ pc' = "save" /\ tx' = NoTx
        /\ tx.phase \in {"VAST_RENTED", "QUARANTINED"}
        /\ node'.owner \in {"VAST", "QUARANTINED"} /\ node'.cordoned = node.cordoned
        /\ UNCHANGED <<spec, fleet, status, pods, evicting, vols, market>>
    BY <1>11
    DEF OwnInv, DriftFix, Return, Drifted, ExpectedOwner, Labelled, orders, TypeOK, NodeType,
        TxType
  <2>3. UsersFit'
    BY <2>1, UsersFewer DEF OwnInv, Shut
  <2>2. QED
    BY <2>1, <2>3 DEF OwnInv, Reported, TypeOK, SpecType, NoTx, Tids, Shut
<1>12. CASE HoldGated
  BY <1>12, UsersFewer
  DEF OwnInv, HoldGated, Move, ReopenFrom, Drifted, ExpectedOwner, orders, cluster, memory
<1>13. CASE End
  BY <1>13, ReturnOwn DEF OwnInv, End, Return, orders, cluster, memory
<1>14. CASE ReopenTaints
  BY <1>14, UsersFewer
  DEF OwnInv, ReopenTaints, NodeStep, Retainted, TypeOK, NodeType, orders, memory
<1>15. CASE ReopenUncordon
  BY <1>15, UsersFewer
  DEF OwnInv, ReopenUncordon, NodeStep, Uncordoned, TypeOK, NodeType, orders, memory
<1>16. CASE RentedStatus
  <2>1. Reported("rented_status", "VAST_RENTED")
    BY <1>16, Reports DEF OwnInv, RentedStatus
  <2>2. QED
    BY <2>1, UsersFewer DEF OwnInv, Reported, TypeOK, SpecType, NoTx, Tids
<1>17. CASE SaveState
  BY <1>17, UsersFewer DEF OwnInv, SaveState, NoTx, orders, cluster, memory
<1>18. QED
  BY <1>1, <1>2, <1>3, <1>4, <1>5, <1>6, <1>7, <1>8, <1>9, <1>10, <1>11, <1>12, <1>13, <1>14,
     <1>15, <1>16, <1>17
  DEF Pass

\* The drain.
LEMMA DrainOwn ==
  ASSUME OwnInv, ReclaimInv', Drain, Supervised
  PROVE  OwnInv'
<1>0. TypeOK
  BY DEF OwnInv
<1>1. CASE DrainCordon
  BY <1>1, UsersFewer
  DEF OwnInv, DrainCordon, NodeStep, Cordoned, Uncordoned, Labelled, BoundTo, Retainted, Shut,
      TypeOK, NodeType, orders, memory
<1>2. CASE DrainTaint
  BY <1>2, UsersFewer, BusyFewer
  DEF OwnInv, DrainTaint, Retainted, TypeOK, NodeType, Shut, orders, cluster, memory
<1>3. CASE DrainingStatus
  <2>1. Reported("draining_status", "DRAINING")
    BY <1>3, Reports DEF DrainingStatus, OwnInv
  <2>2. QED
    BY <2>1, UsersFewer DEF OwnInv, Reported, TypeOK, SpecType, NoTx, Tids
<1>4. CASE DrainPending
  BY <1>4, UsersFewer DEF OwnInv, DrainPending, orders, cluster, memory
<1>5. CASE Drained
  <2>1. tx.desired = "DIRECT" => Busy \subseteq {Reserved(tx.tenant)}
    BY <1>0, <1>5, ConstantsAssumption DEF Drained, PodsOf, Leaving, Busy, TypeOK
  <2>2. QED
    BY <1>5, <2>1, UsersFewer, BusyFewer DEF OwnInv, Drained, Move, orders, cluster, memory
<1>6. CASE AllocationZero
  BY <1>6, UsersFewer, BusyFewer DEF OwnInv, AllocationZero, Move, orders, cluster, memory
<1>7. CASE AllocationHeld
  BY <1>7, UsersFewer DEF OwnInv, AllocationHeld, Move, orders, cluster, memory
<1>8. CASE VolumesStranded
  BY <1>8, UsersFewer DEF OwnInv, VolumesStranded, Move, orders, cluster, memory
<1>9. CASE VolumesClear
  <2>1. /\ tx.desired = "DIRECT" => vols \subseteq {Reserved(tx.tenant), Unbound}
        /\ tx.desired = "VAST" => vols = {}
    BY <1>0, <1>9 DEF VolumesClear, VolumesOf, Leaving, TypeOK
  <2>2. QED
    BY <1>9, <2>1, UsersFewer, BusyFewer
    DEF OwnInv, VolumesClear, Move, orders, cluster, memory
<1>10. QED
  BY <1>1, <1>2, <1>3, <1>4, <1>5, <1>6, <1>7, <1>8, <1>9 DEF Drain

\* What the contract gate of a reclaim leads to.
LEMMA AriseGate ==
  /\ AfterAriseGate \in {"rented_status", "recheck", "fence", "reclaim_volumes"}
  /\ AfterAriseGate = "recheck" => tx.active = 0 /\ tx.phase = "HEALTH_CHECK"
  /\ AfterAriseGate # "rented_status" => ~(tx.active > 0)
  /\ AfterAriseGate = "reclaim_volumes" => tx.owner = "ARISE" \/ tx.cordoned
BY DEF AfterAriseGate

\* _reconcile_arise.
LEMMA AriseHandlerOwn ==
  ASSUME OwnInv, ReclaimInv', Arise, Supervised
  PROVE  OwnInv'
<1>0. TypeOK
  BY DEF OwnInv
<1>1. CASE AriseSettled
  BY <1>1, UsersFewer
  DEF OwnInv, AriseSettled, Move, Handles, ReopenFrom, orders, cluster, memory
<1>2. CASE ReadyStatus
  <2>1. Reported("ready_status", "READY")
    BY <1>2, Reports DEF ReadyStatus, OwnInv
  <2>2. QED
    BY <2>1, UsersFewer DEF OwnInv, Reported, TypeOK, SpecType, NoTx, Tids
<1>3. CASE AriseReclaim
  <2>1. /\ pc = "dispatch" /\ tx.desired = "ARISE" /\ ~tx.gated
        /\ UNCHANGED <<orders, status, cluster, market, tx>>
    BY <1>3 DEF AriseReclaim, Move, Handles, memory
  <2>2. CASE tx.listed /\ pc' = "arise_unlist"
    <3>1. UsersFit'
      BY <2>1, UsersFewer DEF OwnInv, orders, cluster
    <3>2. SettledFit' /\ FlightFit' /\ TidsFit'
      BY <2>1, <2>2 DEF OwnInv, orders, cluster
    <3>3. ReadFit' /\ AriseFit'
      BY <2>1, <2>2 DEF OwnInv, orders, cluster
    <3>4. DrainFit' /\ OtherFit'
      BY <2>1, <2>2 DEF OwnInv, orders, cluster
    <3>5. QED
      BY <3>1, <3>2, <3>3, <3>4 DEF OwnInv
  <2>3. CASE ~tx.listed /\ pc' = AfterAriseGate
    <3>1. pc' \in {"recheck", "reclaim_volumes"} => Shut(node)
      BY <1>0, <1>3, <2>1, <2>3, AriseGate DEF OwnInv, AriseReclaim, Shut, TypeOK, TxType
    <3>2. pc' = "recheck" => status.phase = "HEALTH_CHECK"
      BY <2>1, <2>3, AriseGate DEF OwnInv
    <3>3. QED
      BY <2>1, <2>3, <3>1, <3>2, AriseGate, UsersFewer DEF OwnInv, orders, cluster
  <2>4. QED
    BY <1>3, <2>2, <2>3 DEF AriseReclaim, Move
<1>4. CASE AriseUnlist
  <2>1. /\ pc = "arise_unlist" /\ pc' = AfterAriseGate
        /\ ~market'.listed /\ market'.contracts = market.contracts
        /\ UNCHANGED <<orders, status, cluster, tx>>
    BY <1>0, <1>4 DEF AriseUnlist, Unlisted, TypeOK, MarketType, memory
  <2>2. UsersFit' /\ Shut(node)
    BY <2>1, UsersFewer DEF OwnInv, UsersFit, orders, cluster
  <2>3. pc' # "recheck"
    BY <2>1, AriseGate DEF OwnInv
  <2>4. QED
    BY <2>1, <2>2, <2>3, AriseGate DEF OwnInv, orders, cluster
<1>5. CASE Fence
  BY <1>5, UsersFewer
  DEF OwnInv, Fence, NodeStep, Cordoned, Uncordoned, Labelled, BoundTo, Retainted, Shut,
      TypeOK, NodeType, orders, memory
<1>6. CASE ReclaimHeld
  <2>1. Reported("reclaim_volumes", status.phase)
    BY <1>6, ReportsBase DEF ReclaimHeld, OwnInv
  <2>2. QED
    BY <2>1, UsersFewer DEF OwnInv, Reported, TypeOK, SpecType, NoTx, Tids
<1>7. CASE ReclaimVolumesClear
  BY <1>7, UsersFewer, BusyFewer
  DEF OwnInv, ReclaimVolumesClear, Move, VolumesOf, orders, cluster, memory
<1>8. CASE SanitizingStatus
  <2>1. /\ pc = "sanitizing_status"
        /\ UNCHANGED <<spec, fleet, node, pods, evicting, vols, market>>
        /\ \/ pc' = "save" /\ tx' = NoTx /\ status' = status
           \/ /\ pc' = "sanitize" /\ tx' = tx
              /\ status'.phase = "SANITIZING" /\ status'.last = tx.tid
    BY <1>0, <1>8, ZenonT(30)
    DEF SanitizingStatus, Return, Base, TypeOK, StatusType, orders, cluster
  <2>2. CASE pc' = "save" /\ tx' = NoTx /\ status' = status
    BY <2>1, <2>2, ReturnOwn DEF OwnInv
  <2>3. CASE pc' = "sanitize" /\ tx' = tx /\ status'.phase = "SANITIZING" /\ status'.last = tx.tid
    <3>1. UsersFit'
      BY <2>1, UsersFewer DEF OwnInv
    <3>2. SettledFit' /\ FlightFit' /\ TidsFit'
      BY <2>1, <2>3 DEF OwnInv, TypeOK, SpecType, TxType, Tids
    <3>3. ReadFit' /\ AriseFit' /\ DrainFit' /\ OtherFit'
      BY <2>1, <2>3 DEF OwnInv
    <3>4. QED
      BY <3>1, <3>2, <3>3 DEF OwnInv
  <2>4. QED
    BY <2>1, <2>2, <2>3
<1>9. CASE SanitizePassed
  <2>1. Reported("sanitize", "HEALTH_CHECK")
    BY <1>9, Reports DEF SanitizePassed, OwnInv
  <2>2. QED
    BY <2>1, UsersFewer DEF OwnInv, Reported, TypeOK, SpecType, NoTx, Tids
<1>10. CASE SanitizeFailed
  BY <1>10, UsersFewer DEF OwnInv, SanitizeFailed, Move, orders, cluster, memory
<1>11. CASE RecheckFailed
  <2>1. Reported("recheck", "SANITIZING")
    BY <1>11, Reports DEF RecheckFailed, OwnInv
  <2>2. QED
    BY <2>1, UsersFewer DEF OwnInv, Reported, TypeOK, SpecType, NoTx, Tids
<1>12. CASE RecheckPassed
  BY <1>12, UsersFewer DEF OwnInv, RecheckPassed, Move, orders, cluster, memory
<1>13. CASE FlipLabel
  <2>1. UsersFit'
    BY <1>13
    DEF OwnInv, FlipLabel, NodeStep, Labelled, UsersFit, Fit, Busy, TypeOK, NodeType, orders,
        memory
  <2>2. QED
    BY <1>13, <2>1 DEF OwnInv, FlipLabel, NodeStep, Labelled, TypeOK, NodeType, orders, memory
<1>14. CASE FlipTaints
  BY <1>14, UsersFewer
  DEF OwnInv, FlipTaints, NodeStep, Cordoned, Uncordoned, Labelled, BoundTo, Retainted, Shut,
      TypeOK, NodeType, orders, memory
<1>15. CASE FlipUncordon
  BY <1>15, UsersFewer
  DEF OwnInv, FlipUncordon, NodeStep, Cordoned, Uncordoned, Labelled, BoundTo, Retainted,
      Shut, TypeOK, NodeType, orders, memory
<1>16. CASE FlipStatus
  <2>1. Reported("flip_status", "READY")
    BY <1>16, ReportsOwner, ZenonT(30) DEF FlipStatus, OwnInv
  <2>2. QED
    BY <2>1, UsersFewer DEF OwnInv, Reported, TypeOK, SpecType, NoTx, Tids
<1>17. QED
  BY <1>1, <1>2, <1>3, <1>4, <1>5, <1>6, <1>7, <1>8, <1>9, <1>10, <1>11, <1>12, <1>13, <1>14,
     <1>15, <1>16
  DEF Arise

\* _reconcile_vast.
LEMMA VastOwn ==
  ASSUME OwnInv, ReclaimInv', Vast, Supervised
  PROVE  OwnInv'
<1>0. TypeOK
  BY DEF OwnInv
<1>1. CASE VastSteady
  BY <1>1, UsersFewer DEF OwnInv, VastSteady, Move, Handles, orders, cluster, memory
<1>2. CASE VastTaint
  BY <1>2, UsersFewer
  DEF OwnInv, VastTaint, NodeStep, Cordoned, Uncordoned, Labelled, BoundTo, Retainted, Shut,
      TypeOK, NodeType, orders, memory
<1>3. CASE VastCordon
  BY <1>3, UsersFewer
  DEF OwnInv, VastCordon, NodeStep, Cordoned, Uncordoned, Labelled, BoundTo, Retainted, Shut,
      TypeOK, NodeType, orders, memory
<1>4. CASE VastStatus
  <2> DEFINE ph == IF tx.active > 0 THEN "VAST_RENTED" ELSE "VAST_READY"
  <2>1. Reported("vast_status", ph)
    BY <1>0, <1>4, ReportsOwner, ZenonT(30) DEF VastStatus
  <2>2. QED
    BY <2>1, UsersFewer DEF OwnInv, Reported, TypeOK, SpecType, NoTx, Tids
<1>5. CASE VastStart
  <2>1. /\ pc = "dispatch" /\ pc' = "drain_cordon" /\ tx.desired = "VAST" /\ tx.phase = "PENDING"
        /\ tx.tid # 0
        /\ UNCHANGED <<orders, status, cluster, market, tx>>
    BY <1>0, <1>5 DEF VastStart, Move, Handles, TypeOK, memory
  <2>2. /\ status.phase \notin InFlight /\ status.last # tx.tid
        /\ ByConsole => tx.tid = spec.tid
    BY <2>1 DEF OwnInv
  <2>3. QED
    BY <2>1, <2>2, UsersFewer DEF OwnInv, orders, cluster
<1>6. CASE VastDrain
  BY <1>6, UsersFewer DEF OwnInv, VastDrain, Move, Handles, orders, cluster, memory
<1>7. CASE VastOther
  BY <1>7, UsersFewer DEF OwnInv, VastOther, Move, Handles, orders, cluster, memory
<1>8. CASE PrelistPassed
  BY <1>8, UsersFewer DEF OwnInv, PrelistPassed, Move, orders, cluster, memory
<1>9. CASE PrelistFailed
  BY <1>9, UsersFewer DEF OwnInv, PrelistFailed, Move, orders, cluster, memory
<1>10. CASE ListMachine
  <2>1. pods = {} /\ vols = {} /\ node.cordoned
    BY <1>10 DEF OwnInv, ListMachine
  <2>2. UsersFit'
    BY <1>10, <2>1
    DEF OwnInv, ListMachine, ListEffect, UsersFit, Fit, Busy, Shut, orders, cluster, memory
  <2>3. QED
    BY <1>10, <2>1, <2>2 DEF OwnInv, ListMachine, orders, cluster, memory
<1>11. CASE QueryListed
  BY <1>11, UsersFewer DEF OwnInv, QueryListed, Move, orders, cluster, memory
<1>12. CASE QueryUnlisted
  BY <1>12, UsersFewer DEF OwnInv, QueryUnlisted, Move, orders, cluster, memory
<1>13. CASE ReadbackListed
  BY <1>13, UsersFewer DEF OwnInv, ReadbackListed, orders, cluster, memory
<1>14. CASE ReadbackMismatch
  BY <1>14, UsersFewer DEF OwnInv, ReadbackMismatch, Move, orders, cluster, memory
<1>15. CASE HandoverTaints
  BY <1>15, UsersFewer
  DEF OwnInv, HandoverTaints, NodeStep, Cordoned, Uncordoned, Labelled, BoundTo, Retainted,
      Shut, TypeOK, NodeType, orders, memory
<1>16. CASE HandoverLabel
  BY <1>16, UsersFewer
  DEF OwnInv, HandoverLabel, NodeStep, Cordoned, Uncordoned, Labelled, BoundTo, Retainted,
      Shut, TypeOK, NodeType, orders, memory
<1>17. CASE HandoverStatus
  <2> DEFINE ph == IF tx.active > 0 THEN "VAST_RENTED" ELSE "VAST_READY"
  <2>1. Reported("handover_status", ph)
    BY <1>0, <1>17, ReportsListed, ZenonT(30) DEF HandoverStatus
  <2>2. QED
    BY <2>1, UsersFewer DEF OwnInv, Reported, TypeOK, SpecType, NoTx, Tids
<1>18. QED
  BY <1>1, <1>2, <1>3, <1>4, <1>5, <1>6, <1>7, <1>8, <1>9, <1>10, <1>11, <1>12, <1>13, <1>14,
     <1>15, <1>16, <1>17
  DEF Vast

\* _reconcile_direct.
LEMMA DirectOwn ==
  ASSUME OwnInv, ReclaimInv', Direct, Supervised
  PROVE  OwnInv'
<1>0. TypeOK
  BY DEF OwnInv
<1>1. CASE DirectListed
  BY <1>1, UsersFewer DEF OwnInv, DirectListed, Move, Handles, orders, cluster, memory
<1>2. CASE DirectUnlist
  BY <1>2, UsersFewer, BusyFewer
  DEF OwnInv, DirectUnlist, Unlisted, TypeOK, TxType, MarketType, orders, cluster, memory
<1>3. CASE PendingStatus
  <2>1. Reported("pending_status", "PENDING")
    BY <1>3, Reports DEF PendingStatus, OwnInv
  <2>2. QED
    BY <2>1, UsersFewer DEF OwnInv, Reported, TypeOK, SpecType, NoTx, Tids
<1>4. CASE DirectRented
  BY <1>4, UsersFewer DEF OwnInv, DirectRented, Move, Handles, orders, cluster, memory
<1>5. CASE DirectAmbiguous
  BY <1>5, UsersFewer
  DEF OwnInv, DirectAmbiguous, Move, DirectFree, Handles, orders, cluster, memory
<1>6. CASE BaseStatus
  <2>1. Reported("base_status", status.phase)
    BY <1>6, ReportsBase DEF BaseStatus, OwnInv
  <2>2. QED
    BY <2>1, UsersFewer DEF OwnInv, Reported, TypeOK, SpecType, NoTx, Tids
<1>7. CASE DirectSteady
  <2>1. /\ pc = "dispatch" /\ ~tx.gated /\ tx.desired = "DIRECT" /\ ~tx.listed /\ tx.active = 0
        /\ tx.phase = "DIRECT_ASSIGNED" /\ Reserved(tx.tenant) # None
        /\ UNCHANGED <<orders, status, cluster, market, tx>>
    BY <1>7 DEF DirectSteady, DirectNamed, DirectFree, Handles, Phase, Move, memory
  <2>2. Bound(Reserved(tx.tenant)) /\ ~Sold /\ status.phase = "DIRECT_ASSIGNED"
    BY <2>1 DEF OwnInv, TypeOK, TxType
  <2>3. pc' \in {"direct_taint", "direct_status"}
    BY <1>7, <2>1, <2>2 DEF OwnInv, DirectSteady, Move, DirectDrift
  <2>4. QED
    BY <2>1, <2>2, <2>3, UsersFewer DEF OwnInv, orders, cluster
<1>8. CASE RebindCordon
  BY <1>8, UsersFewer
  DEF OwnInv, RebindCordon, NodeStep, Cordoned, Uncordoned, Labelled, BoundTo, Retainted,
      Shut, TypeOK, NodeType, orders, memory
<1>9. CASE RebindLabel
  BY <1>9, UsersFewer
  DEF OwnInv, RebindLabel, NodeStep, Cordoned, Uncordoned, Labelled, BoundTo, Retainted, Shut,
      TypeOK, NodeType, orders, memory
<1>10. CASE RebindUncordon
  BY <1>10, UsersFewer
  DEF OwnInv, RebindUncordon, DirectDrift, NodeStep, Cordoned, Uncordoned, Labelled, BoundTo,
      Retainted, Shut, TypeOK, NodeType, orders, memory
<1>11. CASE DirectTaint
  BY <1>11, UsersFewer
  DEF OwnInv, DirectTaint, NodeStep, Cordoned, Uncordoned, Labelled, BoundTo, Retainted, Shut,
      TypeOK, NodeType, orders, memory
<1>12. CASE DirectUncordon
  BY <1>12, UsersFewer
  DEF OwnInv, DirectUncordon, NodeStep, Cordoned, Uncordoned, Labelled, BoundTo, Retainted,
      Shut, TypeOK, NodeType, orders, memory
<1>13. CASE DirectStatus
  <2>1. Reported("direct_status", "DIRECT_ASSIGNED")
    BY <1>13, ReportsOwner, ZenonT(30) DEF DirectStatus, OwnInv
  <2>2. QED
    BY <2>1, UsersFewer DEF OwnInv, Reported, TypeOK, SpecType, NoTx, Tids
<1>14. CASE DirectStart
  BY <1>14, UsersFewer
  DEF OwnInv, DirectStart, Move, DirectNamed, DirectFree, Handles, Phase, TypeOK, orders,
      cluster, memory
<1>15. CASE DirectDrain
  BY <1>15, UsersFewer
  DEF OwnInv, DirectDrain, Move, DirectNamed, DirectFree, Handles, Phase, orders, cluster,
      memory
<1>16. CASE DirectOther
  BY <1>16, UsersFewer
  DEF OwnInv, DirectOther, Move, DirectNamed, DirectFree, Handles, orders, cluster, memory
<1>17. CASE BindLabel
  <2>1. /\ pc = "bind_label" /\ pc' = "bind_taints"
        /\ node'.owner = "DIRECT" /\ node'.tenant = Reserved(tx.tenant)
        /\ node'.cordoned = node.cordoned /\ node'.taints = node.taints
        /\ UNCHANGED <<orders, status, pods, evicting, vols, market, tx>>
    BY <1>0, <1>17 DEF BindLabel, NodeStep, BoundTo, TypeOK, NodeType, memory
  <2>2. /\ ~Sold /\ Busy \subseteq {Reserved(tx.tenant)}
        /\ vols \cap Tenants \subseteq {Reserved(tx.tenant)}
    BY <2>1, ConstantsAssumption DEF OwnInv
  <2>3. UsersFit'
    BY <2>1, <2>2 DEF UsersFit, Fit, Busy
  <2>4. QED
    BY <2>1, <2>2, <2>3 DEF OwnInv, orders
<1>18. CASE BindTaints
  BY <1>18, UsersFewer
  DEF OwnInv, BindTaints, NodeStep, Cordoned, Uncordoned, Labelled, BoundTo, Retainted, Shut,
      TypeOK, NodeType, orders, memory
<1>19. CASE BindUncordon
  BY <1>19, UsersFewer
  DEF OwnInv, BindUncordon, NodeStep, Cordoned, Uncordoned, Labelled, BoundTo, Retainted,
      Shut, TypeOK, NodeType, orders, memory
<1>20. CASE BindStatus
  <2>1. Reported("bind_status", "DIRECT_ASSIGNED")
    BY <1>20, ReportsOwner, ZenonT(30) DEF BindStatus, OwnInv
  <2>2. status'.phase = "DIRECT_ASSIGNED"
    <3>1. Accepted([Base EXCEPT !.owner = "DIRECT", !.phase = "DIRECT_ASSIGNED"])
      BY <1>0 DEF Accepted, Base, TypeOK, StatusType
    <3>2. status' = [Base EXCEPT !.owner = "DIRECT", !.phase = "DIRECT_ASSIGNED"]
      BY <1>20, <3>1 DEF BindStatus, StatusEnd
    <3>3. QED
      BY <1>0, <3>2 DEF Base, TypeOK, StatusType
  <2>3. QED
    BY <2>1, <2>2, UsersFewer DEF OwnInv, Reported, TypeOK, SpecType, NoTx, Tids
<1>21. QED
  BY <1>1, <1>2, <1>3, <1>4, <1>5, <1>6, <1>7, <1>8, <1>9, <1>10, <1>11, <1>12, <1>13, <1>14,
     <1>15, <1>16, <1>17, <1>18, <1>19, <1>20
  DEF Direct

\* What the gates of _reconcile_maintenance lead to.
LEMMA MaintenanceGate ==
  /\ AfterMaintenanceGate \in {"rented_status", "maint_taint", "maint_status", "drain_cordon",
                                "drain_read", "end"}
  /\ AfterMaintenanceGate \in {"maint_taint", "maint_status"} => tx.phase = "MAINTENANCE"
  /\ AfterMaintenanceGate = "drain_cordon"
       => tx.phase \in {"PENDING", "VAST_RENTED", "VAST_READY"}
  /\ AfterMaintenanceGate = "drain_read" => tx.phase = "DRAINING" /\ ~(tx.active > 0)
BY DEF AfterMaintenanceGate, Phase

\* _reconcile_maintenance.
LEMMA MaintenanceOwn ==
  ASSUME OwnInv, ReclaimInv', Maintenance, Supervised
  PROVE  OwnInv'
<1>0. TypeOK
  BY DEF OwnInv
<1>1. CASE MaintenanceBegin
  BY <1>1, UsersFewer, MaintenanceGate
  DEF OwnInv, MaintenanceBegin, Move, Handles, TypeOK, TxType, MarketType, orders, cluster,
      memory
<1>2. CASE MaintenanceUnlist
  <2>1. /\ pc = "maint_unlist" /\ pc' = AfterMaintenanceGate
        /\ ~market'.listed /\ market'.contracts = market.contracts
        /\ UNCHANGED <<orders, status, cluster, tx>>
    BY <1>0, <1>2 DEF MaintenanceUnlist, Unlisted, TypeOK, MarketType, memory
  <2>2. UsersFit'
    BY <2>1, UsersFewer DEF OwnInv, orders, cluster
  <2>3. /\ ByConsole => pc' \in {"rented_status", "drain_cordon", "end"}
        /\ pc' \in {"maint_taint", "maint_status"} => status.phase = "MAINTENANCE"
        /\ pc' = "drain_read" => status.phase = "DRAINING"
    <3>1. ByConsole => tx.phase \notin {"DRAINING", "MAINTENANCE"}
      BY <2>1 DEF OwnInv
    <3>2. tx.phase \in {"MAINTENANCE", "DRAINING"} => status.phase = tx.phase
      BY <2>1 DEF OwnInv
    <3>3. QED
      BY <2>1, <3>1, <3>2, MaintenanceGate
  <2>4. pc' = "drain_cordon" => status.phase \notin InFlight
    <3>1. pc' = "drain_cordon" => tx.phase \in {"PENDING", "VAST_RENTED", "VAST_READY"}
      BY <2>1, MaintenanceGate
    <3>2. QED
      BY <2>1, <3>1 DEF OwnInv
  <2>5. pc' \in {"rented_status", "maint_taint", "maint_status", "drain_cordon", "drain_read",
                  "end"} /\ tx.desired = "MAINTENANCE"
    BY <2>1, MaintenanceGate DEF OwnInv
  <2>6. QED
    BY <2>1, <2>2, <2>3, <2>4, <2>5 DEF OwnInv, orders, cluster
<1>3. CASE MaintTaint
  BY <1>3, UsersFewer
  DEF OwnInv, MaintTaint, NodeStep, Cordoned, Uncordoned, Labelled, BoundTo, Retainted, Shut,
      TypeOK, NodeType, orders, memory
<1>4. CASE MaintCordon
  BY <1>4, UsersFewer
  DEF OwnInv, MaintCordon, NodeStep, Cordoned, Uncordoned, Labelled, BoundTo, Retainted, Shut,
      TypeOK, NodeType, orders, memory
<1>5. CASE MaintStatus
  <2>1. Reported("maint_status", "MAINTENANCE")
    BY <1>5, ReportsOwner, ZenonT(30) DEF MaintStatus, OwnInv
  <2>2. QED
    BY <2>1, UsersFewer DEF OwnInv, Reported, TypeOK, SpecType, NoTx, Tids
<1>6. CASE MaintainTaints
  BY <1>6, UsersFewer
  DEF OwnInv, MaintainTaints, NodeStep, Cordoned, Uncordoned, Labelled, BoundTo, Retainted,
      Shut, TypeOK, NodeType, orders, memory
<1>7. CASE MaintainLabel
  BY <1>7, UsersFewer
  DEF OwnInv, MaintainLabel, NodeStep, Cordoned, Uncordoned, Labelled, BoundTo, Retainted,
      Shut, TypeOK, NodeType, orders, memory
<1>8. CASE MaintainStatus
  <2>1. Reported("maintain_status", "MAINTENANCE")
    BY <1>8, ReportsOwner, ZenonT(30) DEF MaintainStatus, OwnInv
  <2>2. QED
    BY <2>1, UsersFewer DEF OwnInv, Reported, TypeOK, SpecType, NoTx, Tids
<1>9. QED
  BY <1>1, <1>2, <1>3, <1>4, <1>5, <1>6, <1>7, <1>8 DEF Maintenance

\* quarantine.
LEMMA QuarantineOwn ==
  ASSUME OwnInv, ReclaimInv', Quarantine, Supervised
  PROVE  OwnInv'
<1>0. TypeOK
  BY DEF OwnInv
<1>1. CASE QuarantineUnlist
  BY <1>1, UsersFewer
  DEF OwnInv, QuarantineUnlist, Unlisted, TypeOK, TxType, MarketType, orders, cluster, memory
<1>2. CASE QuarantineTaint
  BY <1>2, UsersFewer
  DEF OwnInv, QuarantineTaint, NodeStep, Cordoned, Uncordoned, Labelled, BoundTo, Retainted,
      Shut, TypeOK, NodeType, orders, memory
<1>3. CASE QuarantineCordon
  BY <1>3, UsersFewer
  DEF OwnInv, QuarantineCordon, NodeStep, Cordoned, Uncordoned, Labelled, BoundTo, Retainted,
      Shut, TypeOK, NodeType, orders, memory
<1>4. CASE QuarantineLabel
  <2>1. /\ pc = "q_label" /\ pc' = "q_status" /\ node'.owner = "QUARANTINED"
        /\ UNCHANGED <<orders, status, pods, evicting, vols, market, tx>>
    BY <1>0, <1>4 DEF QuarantineLabel, NodeStep, Labelled, TypeOK, NodeType, memory
  <2>2. status.phase \in {"READY", "DIRECT_ASSIGNED", "MAINTENANCE"} => Quarantining'
    <3>1. tx.tid # 0
      BY <1>0, <2>1 DEF TypeOK
    <3>2. QED
      BY <2>1, <3>1 DEF OwnInv, orders
  <2>3. node'.cordoned = node.cordoned
    BY <1>0, <1>4 DEF QuarantineLabel, NodeStep, Labelled, TypeOK, NodeType
  <2>4. status.phase = "DIRECT_ASSIGNED" => spec.desired # "DIRECT" \/ status.last # spec.tid
    BY <1>0, <2>1 DEF OwnInv, TypeOK, SpecType, StatusType, TxType, Tids
  <2>5. SettledFit'
    BY <2>1, <2>2, <2>4 DEF OwnInv, orders
  <2>6. QED
    BY <2>1, <2>3, <2>5, UsersFewer DEF OwnInv, Shut, orders
<1>5. CASE QuarantineStatus
  <2>1. /\ pc = "q_status" /\ pc' = "save" /\ tx' = NoTx
        /\ UNCHANGED <<spec, fleet, node, pods, evicting, vols, market>>
        /\ status'.phase = "QUARANTINED" /\ status'.last = status.last
    <3> DEFINE q == [status EXCEPT !.phase = "QUARANTINED", !.owner = "QUARANTINED",
                                   !.stamp = adapter]
    <3>1. /\ pc = "q_status" /\ pc' = "save" /\ tx' = NoTx
          /\ UNCHANGED <<spec, fleet, node, pods, evicting, vols, market>>
      BY <1>5 DEF QuarantineStatus, StatusEnd, Return, orders, cluster
    <3>2. Accepted(q)
      BY <1>0 DEF Accepted, TypeOK, StatusType
    <3>3. status' = q
      BY <1>5, <3>2 DEF QuarantineStatus, StatusEnd
    <3>4. QED
      BY <1>0, <3>1, <3>3 DEF TypeOK, StatusType
  <2>2. QED
    BY <2>1, UsersFewer DEF OwnInv, TypeOK, SpecType, NoTx, Tids
<1>6. QED
  BY <1>1, <1>2, <1>3, <1>4, <1>5 DEF Quarantine

\* Failed calls, restarts and lost nodes.
LEMMA FailuresOwn ==
  ASSUME OwnInv, ReclaimInv', Failures, Supervised
  PROVE  OwnInv'
<1>0. TypeOK
  BY DEF OwnInv
<1>a. CallFails \/ Restart => ByConsole
  BY <1>0 DEF CallFails, Restart, Spend, TypeOK, BudgetType
<1>1. CASE GetFails
  BY <1>1, ReturnOwn DEF OwnInv, GetFails, Return, orders, cluster
<1>2. CASE PrelistUnhealthy
  BY <1>2, UsersFewer DEF OwnInv, PrelistUnhealthy, orders, cluster, memory
<1>3. CASE ListUncertain
  <2>1. pods = {} /\ vols = {} /\ node.cordoned
    BY <1>3 DEF OwnInv, ListUncertain
  <2>2. UsersFit'
    BY <1>3, <2>1
    DEF OwnInv, ListUncertain, ListEffect, UsersFit, Fit, Busy, Shut, orders, cluster, memory
  <2>3. QED
    BY <1>3, <2>1, <2>2 DEF OwnInv, ListUncertain, orders, cluster, memory
<1>4. CASE QueryFails
  BY <1>4, UsersFewer DEF OwnInv, QueryFails, orders, cluster, memory
<1>5. CASE UnlistFails
  BY <1>5, UsersFewer
  DEF OwnInv, UnlistFails, Unlisted, TypeOK, TxType, MarketType, orders, cluster, memory
<1>6. CASE CallFails
  <2>1. UNCHANGED <<spec, status, node, pods, vols, market>>
    BY <1>6 DEF CallFails, orders, cluster
  <2>2. CASE pc' \in {"idle", "save"} /\ tx' = NoTx
    BY <1>a, <1>6, <2>1, <2>2, ReturnOwn DEF OwnInv
  <2>3. CASE pc \in {"q_taint", "q_cordon", "q_label"} /\ pc' = "q_status" /\ tx' = tx
    BY <2>1, <2>3, UsersFewer DEF OwnInv
  <2>4. CASE pc = "save" /\ pc' = "idle" /\ tx' = tx
    BY <2>1, <2>4, UsersFewer DEF OwnInv
  <2>5. QED
    BY <1>6, <2>2, <2>3, <2>4 DEF CallFails, Return
<1>7. CASE Restart
  BY <1>a, <1>7, ReturnOwn DEF OwnInv, Restart, orders, cluster
<1>8. CASE NodeVanishes
  BY <1>8, UsersFewer, BusyFewer
  DEF OwnInv, NodeVanishes, TypeOK, NodeType, Shut, orders, cluster, memory
<1>9. QED
  BY <1>1, <1>2, <1>3, <1>4, <1>5, <1>6, <1>7, <1>8 DEF Failures

\* Operators, the scheduler, renters and time.
LEMMA EnvironmentOwn ==
  ASSUME OwnInv, ReclaimInv', Environment, Supervised
  PROVE  OwnInv'
<1>0. TypeOK
  BY DEF OwnInv
<1>1. CASE \E d \in DesiredOwners, t \in Tenants \cup {None}, w \in BOOLEAN : Submit(d, t, w)
  <2>1. /\ ByConsole => status.last = spec.tid /\ status.phase \notin InFlight
        /\ spec'.tid = spec.tid + 1 /\ UNCHANGED <<status, cluster, market, pc, tx>>
    BY <1>1 DEF Submit, ConsoleGate, ByConsole, memory
  <2>2. spec.tid \in Nat /\ spec.tid > 0
    BY <1>0 DEF TypeOK, SpecType, Tids
  <2>3. UsersFit'
    BY <2>1, UsersFewer DEF OwnInv, cluster
  <2>4. /\ status.last \in Nat /\ tx.tid \in Nat
        /\ status.last < spec'.tid /\ tx.tid < spec'.tid
    BY <1>0, <2>1, <2>2 DEF OwnInv, TypeOK, StatusType, TxType, Tids
  <2>8. SettledFit'
    BY <2>1, <2>2, <2>4 DEF OwnInv, cluster
  <2>9. FlightFit' /\ TidsFit'
    BY <2>1, <2>2, <2>4 DEF OwnInv, cluster
  <2>5. ReadFit' /\ AriseFit' /\ OtherFit'
    BY <2>1, <2>2 DEF OwnInv, cluster
  <2>6. DrainFit'
    BY <2>1, <2>2, BusyFewer DEF OwnInv, cluster
  <2>7. QED
    BY <2>3, <2>5, <2>6, <2>8, <2>9 DEF OwnInv
<1>2. CASE ConsoleListsNodes
  BY <1>2, UsersFewer, BusyFewer DEF OwnInv, ConsoleListsNodes, orders, cluster, memory
<1>3. CASE NotBeforePasses
  BY <1>3, UsersFewer, BusyFewer
  DEF OwnInv, NotBeforePasses, TypeOK, SpecType, orders, cluster, memory
<1>4. CASE TimePasses
  BY <1>4, UsersFewer, BusyFewer DEF OwnInv, TimePasses, orders, cluster, memory
<1>5. CASE \E p \in Pods : PodBinds(p) \/ PodEnds(p)
  <2>1. ASSUME NEW p \in Pods, PodBinds(p)
        PROVE  OwnInv'
    <3>1. /\ pods' = pods \cup {p} /\ Busy' = Busy \cup {TenantOf[p]}
          /\ vols' \subseteq vols \cup {TenantOf[p]}
          /\ TenantOf[p] \in Tenants
          /\ UNCHANGED <<spec, status, node, market, pc, tx>>
      BY <2>1, ConstantsAssumption DEF PodBinds, Busy, orders, memory
    <3>2. /\ ~Shut(node)
          /\ \/ TenantOf[p] \notin Customers /\ node.owner = "ARISE"
             \/ TenantOf[p] \in Customers /\ node.owner = "DIRECT" /\ node.tenant = TenantOf[p]
      BY <2>1 DEF PodBinds, Admits, Shut
    <3>3. UsersFit'
      <4>1. ~Sold
        BY <3>2 DEF OwnInv, UsersFit
      <4>2. Fit(Busy)' /\ Fit(vols \cap Tenants)'
        BY <3>1, <3>2 DEF OwnInv, UsersFit, Fit
      <4>3. \A t, u \in Busy' : ClassOf(t) = ClassOf(u)
        BY <3>1, <3>2 DEF OwnInv, UsersFit, Fit, ClassOf
      <4>4. QED
        BY <3>1, <4>1, <4>2, <4>3 DEF UsersFit
    <3>4. FlightFit' /\ AriseFit'
      BY <3>1, <3>2 DEF OwnInv, Shut
    <3>5. DrainFit'
      BY <3>1, <3>2 DEF OwnInv, Shut
    <3>6. QED
      BY <3>1, <3>3, <3>4, <3>5 DEF OwnInv
  <2>2. ASSUME NEW p \in Pods, PodEnds(p)
        PROVE  OwnInv'
    BY <2>2, UsersFewer, BusyFewer DEF OwnInv, PodEnds, orders, memory
  <2>3. QED
    BY <1>5, <2>1, <2>2
<1>6. CASE \E v \in Tenants \cup {Unbound} : VolumeChanges(v)
  <2>1. /\ vols # {} /\ vols' \subseteq vols \cup {Unbound} /\ Unbound \notin Customers
        /\ UNCHANGED <<spec, status, node, pods, market, pc, tx>>
    BY <1>6, ConstantsAssumption DEF VolumeChanges, orders, memory
  <2>2. UsersFit'
    <3>1. ~market.listed
      BY <2>1 DEF OwnInv, UsersFit
    <3>2. QED
      BY <2>1, <3>1, UsersFewer DEF OwnInv
  <2>3. FlightFit' /\ AriseFit' /\ DrainFit'
    BY <2>1, BusyFewer DEF OwnInv
  <2>4. QED
    BY <2>1, <2>2, <2>3 DEF OwnInv
<1>7. CASE ContractStarts
  BY <1>7, UsersFewer
  DEF OwnInv, ContractStarts, TypeOK, TxType, MarketType, orders, cluster, memory
<1>8. CASE ContractEnds
  BY <1>8, UsersFewer
  DEF OwnInv, ContractEnds, TypeOK, TxType, MarketType, orders, cluster, memory
<1>9. CASE \E k \in Tids : ListLands(k)
  BY <1>9, UsersFewer DEF OwnInv, ListLands
<1>10. CASE NodeReturns
  BY <1>10, UsersFewer, BusyFewer
  DEF OwnInv, NodeReturns, TypeOK, NodeType, Shut, orders, cluster, memory
<1>11. CASE Tamper
  BY <1>11 DEF OwnInv, Tamper, Spend, TypeOK, BudgetType
<1>12. QED
  BY <1>1, <1>2, <1>3, <1>4, <1>5, <1>6, <1>7, <1>8, <1>9, <1>10, <1>11 DEF Environment
\* The first pass finds a machine that is the pool's, or nobody's.
LEMMA InitOwn == Init => OwnInv
<1>1. Init => ReclaimInv
  BY InitType DEF Init
<1>2. Init => UsersFit /\ SettledFit /\ FlightFit /\ TidsFit
  BY DEF Init, UsersFit, Fit, Busy, NoTx, Tids
<1>3. Init => ReadFit /\ AriseFit /\ DrainFit /\ OtherFit
  BY DEF Init, NoTx
<1>4. QED
  BY <1>1, <1>2, <1>3 DEF OwnInv

LEMMA StepOwn ==
  ASSUME OwnInv, ReclaimInv', [Next]_vars, Supervised
  PROVE  OwnInv'
<1>1. CASE Controller
  BY <1>1, PassOwn, DrainOwn, AriseHandlerOwn, VastOwn, DirectOwn, MaintenanceOwn,
     QuarantineOwn DEF Controller
<1>2. CASE Failures
  BY <1>2, FailuresOwn
<1>3. CASE Environment
  BY <1>3, EnvironmentOwn
<1>4. CASE UNCHANGED vars
  BY <1>4, UsersFewer, BusyFewer DEF OwnInv, vars, orders, cluster, memory
<1>5. QED
  BY <1>1, <1>2, <1>3, <1>4 DEF Next

LEMMA OwnInvariant == ASSUME Supervised PROVE Spec => []OwnInv
<1>1. Spec => []ReclaimInv
  BY ReclaimInvariant DEF Supervised
<1>2. ASSUME OwnInv, ReclaimInv', [Next]_vars PROVE OwnInv'
  BY <1>2, StepOwn
<1>3. QED
  BY <1>1, <1>2, InitOwn, PTL DEF Spec

-----------------------------------------------------------------------------
(* What the invariant gives.                                                *)

LEMMA Admission ==
  \A n, t : Admits(n, t) =>
    /\ ~Shut(n)
    /\ \/ t \notin Customers /\ n.owner = "ARISE"
       \/ t \in Customers /\ n.owner = "DIRECT" /\ n.tenant = t
BY DEF Admits, Shut

LEMMA ClassesOf ==
  /\ \A t : ClassOf(t) \in Classes
  /\ "ARISE" \in Classes /\ "VAST" \in Classes
BY DEF ClassOf, Classes

\* No two of the pool, a customer and a renter use or may use the machine.
LEMMA OwnSole == ASSUME OwnInv PROVE SoleUse
<1>1. CASE Sold
  <2>1. OpenTo \cup UsedBy \subseteq {"VAST"}
    BY <1>1, Admission DEF OwnInv, UsersFit, OpenTo, UsedBy
  <2>2. QED
    BY <2>1, ClassesOf DEF SoleUse
<1>2. CASE ~Sold
  <2>1. /\ OpenTo = {ClassOf(t) : t \in {u \in Tenants : Admits(node, u)}}
        /\ UsedBy = {ClassOf(t) : t \in Busy}
    BY <1>2 DEF OpenTo, UsedBy, Busy
  <2>2. CASE OpenTo = {}
    <3>1. \A c, d \in UsedBy : c = d
      BY <2>1 DEF OwnInv, UsersFit
    <3>2. UsedBy \subseteq Classes
      BY <2>1, ClassesOf
    <3>3. QED
      BY <2>2, <3>1, <3>2, ClassesOf DEF SoleUse
  <2>3. ASSUME NEW u \in Tenants, Admits(node, u)
        PROVE  SoleUse
    <3>1. \A t \in Tenants : Admits(node, t) => ClassOf(t) = ClassOf(u)
      BY <2>3, Admission DEF ClassOf
    <3>2. \A t \in Busy : ClassOf(t) = ClassOf(u)
      BY <2>3, Admission DEF OwnInv, UsersFit, Fit, ClassOf
    <3>3. OpenTo \cup UsedBy \subseteq {ClassOf(u)}
      BY <2>1, <3>1, <3>2
    <3>4. QED
      BY <3>3, ClassesOf DEF SoleUse
  <2>4. QED
    BY <2>1, <2>2, <2>3
<1>3. QED
  BY <1>1, <1>2

LEMMA OwnApart == ASSUME OwnInv PROVE DataApart
<1>1. ASSUME NEW v \in vols \ {Unbound}, NEW c \in OpenTo PROVE c = ClassOf(v)
  <2>1. ~market.listed /\ v \in Tenants
    BY <1>1 DEF OwnInv, UsersFit, TypeOK
  <2>2. PICK u \in Tenants : Admits(node, u) /\ c = ClassOf(u)
    BY <1>1, <2>1 DEF OpenTo
  <2>3. QED
    BY <1>1, <2>1, <2>2, Admission DEF OwnInv, UsersFit, Fit, ClassOf
<1>2. QED
  BY <1>1 DEF DataApart


-----------------------------------------------------------------------------
(* What a step may do.                                                      *)

\* A step of the controller or of the Node object: it starts and ends nobody's
\* work, changes the node or the marketplace but not both, moves the labels of
\* a shut node or by shutting it, those of a rented one (under the console) to
\* VAST or QUARANTINED only, and evicts from a fenced node nobody but those who must leave.
Careful ==
  /\ pods' = pods /\ market'.contracts = market.contracts
  /\ market' = market \/ node' = node
  /\ \/ node'.owner = node.owner /\ node'.tenant = node.tenant
     \/ /\ Shut(node) \/ Shut(node')
        /\ ByConsole /\ market.contracts > 0 => node'.owner \in {"VAST", "QUARANTINED"}
  /\ \A p \in evicting' \ evicting :
       node.cordoned /\ ~(tx.desired = "DIRECT" /\ TenantOf[p] = Reserved(tx.tenant))

LEMMA QuietCareful == ASSUME UNCHANGED <<node, pods, evicting, market>> PROVE Careful
BY DEF Careful

LEMMA PassCareful == ASSUME OwnInv, Pass, Supervised PROVE Careful
<1>0. TypeOK
  BY DEF OwnInv
<1>1. CASE \/ ListCRs \/ NodeMissing \/ OperatorQuarantine \/ HoldInherited \/ RefuseListing
           \/ ProceedToMarket \/ QuarantineRented \/ GetMachine \/ HoldGated \/ End
           \/ RentedStatus \/ SaveState
  BY <1>1, QuietCareful
  DEF ListCRs, NodeMissing, OperatorQuarantine, HoldInherited, RefuseListing, ProceedToMarket,
      QuarantineRented, GetMachine, HoldGated, End, RentedStatus, SaveState, FoundNode, Move,
      StatusEnd, cluster
<1>2. CASE HoldTaint \/ HoldCordon
  BY <1>2 DEF OwnInv, HoldTaint, HoldCordon, NodeStep
<1>3. CASE DriftFix
  <2>1. /\ tx.phase \in {"VAST_RENTED", "QUARANTINED"}
        /\ node'.owner \in {"VAST", "QUARANTINED"}
        /\ UNCHANGED <<pods, evicting, market>>
    BY <1>0, <1>3
    DEF OwnInv, DriftFix, Drifted, ExpectedOwner, Labelled, TypeOK, NodeType, TxType
  <2>2. QED
    BY <2>1 DEF Careful, Shut
<1>4. CASE ReopenTaints \/ ReopenUncordon
  BY <1>0, <1>4
  DEF Careful, ReopenTaints, ReopenUncordon, NodeStep, Retainted, Uncordoned, TypeOK, NodeType
<1>5. QED
  BY <1>1, <1>2, <1>3, <1>4 DEF Pass

LEMMA DrainCareful == ASSUME OwnInv, Drain, Supervised PROVE Careful
<1>0. TypeOK
  BY DEF OwnInv
<1>1. CASE \/ DrainingStatus \/ Drained \/ AllocationZero \/ AllocationHeld
           \/ VolumesStranded \/ VolumesClear
  BY <1>1, QuietCareful
  DEF DrainingStatus, Drained, AllocationZero, AllocationHeld, VolumesStranded, VolumesClear,
      Move, StatusEnd, cluster
<1>2. CASE DrainCordon \/ DrainTaint
  BY <1>0, <1>2
  DEF Careful, DrainCordon, DrainTaint, NodeStep, Retainted, Cordoned, TypeOK, NodeType
<1>3. CASE DrainPending
  <2>1. pc = "drain_read" /\ UNCHANGED <<node, pods, market>>
    BY <1>3 DEF DrainPending
  <2>2. evicting' \ evicting \subseteq PodsOf(Leaving) /\ PodsOf(Leaving) # {}
    BY <1>3 DEF DrainPending
  <2>3. ByConsole => tx.desired = spec.desired /\ tx.tenant = spec.tenant
    BY <2>1 DEF OwnInv
  <2>4. \A p \in PodsOf(Leaving) :
          ~(tx.desired = "DIRECT" /\ TenantOf[p] = Reserved(tx.tenant))
    BY DEF PodsOf, Leaving
  <2>5. node.cordoned
    <3>1. SUFFICES ASSUME tx.desired = "DIRECT", Bound(Reserved(tx.tenant)) PROVE FALSE
      BY <2>1, <2>3 DEF OwnInv
    <3>2. Busy \subseteq {Reserved(tx.tenant)}
      BY <3>1 DEF OwnInv, UsersFit, Fit
    <3>3. PICK p \in pods : TenantOf[p] \in Leaving
      BY <2>2 DEF PodsOf
    <3>4. QED
      BY <3>1, <3>2, <3>3 DEF Busy, Leaving
  <2>6. QED
    BY <2>1, <2>2, <2>4, <2>5 DEF Careful
<1>4. QED
  BY <1>1, <1>2, <1>3 DEF Drain

LEMMA AriseCareful == ASSUME OwnInv, Arise, Supervised PROVE Careful
<1>0. TypeOK
  BY DEF OwnInv
<1>1. CASE \/ AriseSettled \/ ReadyStatus \/ AriseReclaim \/ ReclaimHeld
           \/ ReclaimVolumesClear \/ SanitizingStatus \/ SanitizePassed \/ SanitizeFailed
           \/ RecheckFailed \/ RecheckPassed \/ FlipStatus
  BY <1>1, QuietCareful
  DEF AriseSettled, ReadyStatus, AriseReclaim, ReclaimHeld, ReclaimVolumesClear,
      SanitizingStatus, SanitizePassed, SanitizeFailed, RecheckFailed, RecheckPassed,
      FlipStatus, Move, StatusEnd, cluster
<1>2. CASE AriseUnlist
  BY <1>0, <1>2 DEF Careful, AriseUnlist, Unlisted, TypeOK, MarketType, cluster
<1>3. CASE Fence \/ FlipTaints \/ FlipUncordon
  BY <1>0, <1>3
  DEF Careful, Fence, FlipTaints, FlipUncordon, NodeStep, Cordoned, Uncordoned, Retainted,
      TypeOK, NodeType
<1>4. CASE FlipLabel
  <2>1. Shut(node) /\ market.contracts = 0
    BY <1>0, <1>4 DEF OwnInv, FlipLabel, NodeStep, TypeOK, MarketType
  <2>2. QED
    BY <1>4, <2>1 DEF Careful, FlipLabel, NodeStep
<1>5. QED
  BY <1>1, <1>2, <1>3, <1>4 DEF Arise

LEMMA VastCareful == ASSUME OwnInv, Vast, Supervised PROVE Careful
<1>0. TypeOK
  BY DEF OwnInv
<1>1. CASE \/ VastSteady \/ VastStatus \/ VastStart \/ VastDrain \/ VastOther \/ PrelistPassed
           \/ PrelistFailed \/ QueryListed \/ QueryUnlisted \/ ReadbackListed
           \/ ReadbackMismatch \/ HandoverStatus
  BY <1>1, QuietCareful
  DEF VastSteady, VastStatus, VastStart, VastDrain, VastOther, PrelistPassed, PrelistFailed,
      QueryListed, QueryUnlisted, ReadbackListed, ReadbackMismatch, HandoverStatus, Move,
      StatusEnd, cluster
<1>2. CASE ListMachine
  BY <1>0, <1>2 DEF Careful, ListMachine, ListEffect, TypeOK, MarketType, cluster
<1>3. CASE VastTaint \/ VastCordon \/ HandoverTaints
  BY <1>0, <1>3
  DEF Careful, VastTaint, VastCordon, HandoverTaints, NodeStep, Cordoned, Retainted, TypeOK,
      NodeType
<1>4. CASE HandoverLabel
  BY <1>0, <1>4 DEF Careful, HandoverLabel, NodeStep, Labelled, Shut, TypeOK, NodeType
<1>5. QED
  BY <1>1, <1>2, <1>3, <1>4 DEF Vast

LEMMA DirectCareful == ASSUME OwnInv, Direct, Supervised PROVE Careful
<1>0. TypeOK
  BY DEF OwnInv
<1>1. CASE \/ DirectListed \/ PendingStatus \/ DirectRented \/ DirectAmbiguous \/ BaseStatus
           \/ DirectSteady \/ DirectStatus \/ DirectStart \/ DirectDrain \/ DirectOther
           \/ BindStatus
  BY <1>1, QuietCareful
  DEF DirectListed, PendingStatus, DirectRented, DirectAmbiguous, BaseStatus, DirectSteady,
      DirectStatus, DirectStart, DirectDrain, DirectOther, BindStatus, Move, StatusEnd, cluster
<1>2. CASE DirectUnlist
  BY <1>0, <1>2 DEF Careful, DirectUnlist, Unlisted, TypeOK, MarketType, cluster
<1>3. CASE RebindCordon \/ RebindLabel \/ RebindUncordon
  BY <1>3 DEF OwnInv, RebindCordon, RebindLabel, RebindUncordon, NodeStep
<1>4. CASE DirectTaint \/ DirectUncordon \/ BindTaints \/ BindUncordon
  BY <1>0, <1>4
  DEF Careful, DirectTaint, DirectUncordon, BindTaints, BindUncordon, NodeStep, Uncordoned,
      Retainted, TypeOK, NodeType
<1>5. CASE BindLabel
  <2>1. /\ pc = "bind_label" /\ UNCHANGED <<pods, evicting, market>>
        /\ node'.owner = "DIRECT" /\ node'.tenant = Reserved(tx.tenant)
    BY <1>0, <1>5 DEF BindLabel, NodeStep, BoundTo, TypeOK, NodeType
  <2>2. ~Sold /\ (ByConsole => tx.desired = spec.desired /\ tx.tenant = spec.tenant)
    BY <2>1 DEF OwnInv
  <2>3. node.cordoned \/ Bound(Reserved(tx.tenant))
    BY <2>1, <2>2 DEF OwnInv
  <2>4. QED
    BY <2>1, <2>2, <2>3 DEF Careful, Shut
<1>6. QED
  BY <1>1, <1>2, <1>3, <1>4, <1>5 DEF Direct

LEMMA MaintenanceCareful == ASSUME OwnInv, Maintenance, Supervised PROVE Careful
<1>0. TypeOK
  BY DEF OwnInv
<1>1. CASE MaintenanceBegin \/ MaintStatus \/ MaintainStatus
  BY <1>1, QuietCareful
  DEF MaintenanceBegin, MaintStatus, MaintainStatus, Move, StatusEnd, cluster
<1>2. CASE MaintenanceUnlist
  BY <1>0, <1>2 DEF Careful, MaintenanceUnlist, Unlisted, TypeOK, MarketType, cluster
<1>3. CASE MaintTaint \/ MaintCordon \/ MaintainTaints
  BY <1>0, <1>3
  DEF Careful, MaintTaint, MaintCordon, MaintainTaints, NodeStep, Cordoned, Retainted, TypeOK,
      NodeType
<1>4. CASE MaintainLabel
  <2>1. ByConsole => ~(market.contracts > 0)
    BY <1>4 DEF OwnInv, MaintainLabel, NodeStep
  <2>2. QED
    BY <1>0, <1>4, <2>1 DEF Careful, MaintainLabel, NodeStep, Labelled, Shut, TypeOK, NodeType
<1>5. QED
  BY <1>1, <1>2, <1>3, <1>4 DEF Maintenance

LEMMA QuarantineCareful == ASSUME OwnInv, Quarantine, Supervised PROVE Careful
<1>0. TypeOK
  BY DEF OwnInv
<1>1. CASE QuarantineUnlist
  BY <1>0, <1>1 DEF Careful, QuarantineUnlist, Unlisted, TypeOK, MarketType, cluster
<1>2. CASE QuarantineTaint \/ QuarantineCordon
  BY <1>0, <1>2
  DEF Careful, QuarantineTaint, QuarantineCordon, NodeStep, Cordoned, Retainted, TypeOK,
      NodeType
<1>3. CASE QuarantineLabel
  BY <1>0, <1>3 DEF Careful, QuarantineLabel, NodeStep, Labelled, Shut, TypeOK, NodeType
<1>4. CASE QuarantineStatus
  BY <1>4, QuietCareful DEF QuarantineStatus, StatusEnd, cluster
<1>5. QED
  BY <1>1, <1>2, <1>3, <1>4 DEF Quarantine

LEMMA FailuresCareful == ASSUME OwnInv, Failures, Supervised PROVE Careful
<1>0. TypeOK
  BY DEF OwnInv
<1>1. CASE GetFails \/ PrelistUnhealthy \/ QueryFails \/ CallFails \/ Restart
  BY <1>1, QuietCareful DEF GetFails, PrelistUnhealthy, QueryFails, CallFails, Restart, cluster
<1>2. CASE ListUncertain
  BY <1>0, <1>2 DEF Careful, ListUncertain, ListEffect, TypeOK, MarketType, cluster
<1>3. CASE UnlistFails
  BY <1>0, <1>3 DEF Careful, UnlistFails, Unlisted, TypeOK, MarketType, cluster
<1>4. CASE NodeVanishes
  BY <1>0, <1>4 DEF Careful, NodeVanishes, TypeOK, NodeType
<1>5. QED
  BY <1>1, <1>2, <1>3, <1>4 DEF Failures

\* Everybody else: work of a tenant or a renter starts and ends.
Work ==
  \/ \E p \in Pods : PodBinds(p) \/ PodEnds(p)
  \/ ContractStarts \/ ContractEnds

LEMMA StepCareful ==
  ASSUME OwnInv, [Next]_vars, Supervised
  PROVE  Careful \/ Work
<1>0. TypeOK
  BY DEF OwnInv
<1>1. CASE Controller
  BY <1>1, PassCareful, DrainCareful, AriseCareful, VastCareful, DirectCareful,
     MaintenanceCareful, QuarantineCareful
  DEF Controller
<1>2. CASE Failures
  BY <1>2, FailuresCareful
<1>3. CASE Environment
  <2>1. CASE \E d \in DesiredOwners, t \in Tenants \cup {None}, w \in BOOLEAN : Submit(d, t, w)
    BY <2>1, QuietCareful DEF Submit, cluster
  <2>2. CASE ConsoleListsNodes \/ NotBeforePasses \/ TimePasses
    BY <2>2, QuietCareful DEF ConsoleListsNodes, NotBeforePasses, TimePasses, cluster
  <2>3. CASE \E v \in Tenants \cup {Unbound} : VolumeChanges(v)
    BY <2>3, QuietCareful DEF VolumeChanges
  <2>4. CASE \E k \in Tids : ListLands(k)
    BY <2>4 DEF OwnInv, ListLands
  <2>5. CASE NodeReturns
    BY <1>0, <2>5 DEF Careful, NodeReturns, TypeOK, NodeType
  <2>6. CASE Tamper
    BY <1>0, <2>6 DEF Tamper, Spend, TypeOK, BudgetType
  <2>7. QED
    BY <1>3, <2>1, <2>2, <2>3, <2>4, <2>5, <2>6 DEF Environment, Work
<1>4. CASE UNCHANGED vars
  BY <1>4, QuietCareful DEF vars, cluster
<1>5. QED
  BY <1>1, <1>2, <1>3, <1>4 DEF Next

\* Work of one class starts on an open machine, and nobody's work moves it.
LEMMA WorkOwnership ==
  ASSUME OwnInv, Work
  PROVE  [Abstract!Next]_(Abstract!vars)
<1>0. TypeOK
  BY DEF OwnInv
<1>1. ASSUME NEW p \in Pods, PodBinds(p) PROVE Abstract!Next
  <2>1. TenantOf[p] \in Tenants /\ Admits(node, TenantOf[p])
    BY <1>1, ConstantsAssumption DEF PodBinds
  <2>2. OpenTo' = OpenTo /\ UsedBy' = UsedBy \cup {ClassOf(TenantOf[p])}
    BY <1>1 DEF PodBinds, OpenTo, UsedBy, Admits
  <2>3. ClassOf(TenantOf[p]) \in OpenTo
    BY <2>1 DEF OpenTo
  <2>4. Abstract!Begin(ClassOf(TenantOf[p]))
    BY <2>2, <2>3 DEF Abstract!Begin
  <2>5. QED
    BY <2>4, ClassesOf DEF Abstract!Next
<1>2. ASSUME NEW p \in Pods, PodEnds(p) PROVE [Abstract!Next]_(Abstract!vars)
  <2> DEFINE c == ClassOf(TenantOf[p])
  <2>1. OpenTo' = OpenTo /\ p \in pods /\ pods' = pods \ {p} /\ UNCHANGED market
    BY <1>2 DEF PodEnds, OpenTo, Admits
  <2>2. market.contracts = 0
    BY <1>0, <2>1 DEF OwnInv, UsersFit, TypeOK, MarketType
  <2>3. UsedBy \subseteq {c}
    BY <2>1, <2>2 DEF OwnInv, UsersFit, UsedBy, Busy
  <2>4. UsedBy' = UsedBy \/ UsedBy' = UsedBy \ {c}
    BY <2>1, <2>2, <2>3 DEF UsedBy
  <2>5. Abstract!Leave(c) \/ UNCHANGED Abstract!vars
    BY <2>1, <2>4 DEF Abstract!Leave, Abstract!vars
  <2>6. QED
    BY <2>5, ClassesOf DEF Abstract!Next
<1>3. CASE ContractStarts
  <2>1. OpenTo' = OpenTo /\ UsedBy' = UsedBy \cup {"VAST"} /\ "VAST" \in OpenTo
    BY <1>0, <1>3
    DEF ContractStarts, OpenTo, UsedBy, Admits, TypeOK, MarketType, cluster
  <2>2. Abstract!Begin("VAST")
    BY <2>1 DEF Abstract!Begin
  <2>3. QED
    BY <2>2, ClassesOf DEF Abstract!Next
<1>4. CASE ContractEnds
  <2>1. OpenTo' = OpenTo /\ pods = {} /\ pods' = {} /\ market.contracts > 0
    BY <1>0, <1>4
    DEF OwnInv, UsersFit, ContractEnds, OpenTo, Admits, TypeOK, MarketType, cluster
  <2>2. UsedBy = {"VAST"} /\ (UsedBy' = UsedBy \/ UsedBy' = {})
    BY <2>1 DEF UsedBy
  <2>3. Abstract!Leave("VAST") \/ UNCHANGED Abstract!vars
    BY <2>1, <2>2 DEF Abstract!Leave, Abstract!vars
  <2>4. QED
    BY <2>3, ClassesOf DEF Abstract!Next
<1>5. QED
  BY <1>1, <1>2, <1>3, <1>4 DEF Work

\* A careful step leaves the machine open as it was, closes it, or opens a
\* closed one.
LEMMA CarefulOpens ==
  ASSUME OwnInv, OwnInv', Careful
  PROVE  OpenTo' = OpenTo \/ OpenTo' = {} \/ OpenTo = {}
<1>1. CASE node' = node
  <2>1. CASE Shut(node)
    <3>1. \A t \in Tenants : ~Admits(node, t) /\ ~Admits(node, t)'
      BY <1>1, <2>1, Admission DEF Admits
    <3>2. OpenTo \in {{}, {"VAST"}} /\ OpenTo' \in {{}, {"VAST"}}
      BY <3>1 DEF OpenTo
    <3>3. QED
      BY <3>2
  <2>2. CASE ~Shut(node)
    <3>1. ~market.listed /\ ~market'.listed
      BY <1>1, <2>2 DEF OwnInv, UsersFit, Shut
    <3>2. QED
      BY <1>1, <3>1 DEF OpenTo, Admits
  <2>3. QED
    BY <2>1, <2>2
<1>2. CASE market' = market
  <2>1. CASE market.listed
    <3>1. Shut(node) /\ Shut(node')
      BY <1>2, <2>1 DEF OwnInv, UsersFit, Shut
    <3>2. \A t \in Tenants : ~Admits(node, t) /\ ~Admits(node, t)'
      BY <3>1, Admission DEF Admits, Shut
    <3>3. QED
      BY <1>2, <3>2 DEF OpenTo
  <2>2. CASE ~market.listed
    <3>1. CASE Shut(node) \/ Shut(node')
      <4>1. \/ \A t \in Tenants : ~Admits(node, t)
            \/ \A t \in Tenants : ~Admits(node', t)
        BY <3>1, Admission
      <4>2. QED
        BY <1>2, <2>2, <4>1 DEF OpenTo, Admits
    <3>2. CASE ~Shut(node) /\ ~Shut(node')
      <4>1. node'.owner = node.owner /\ node'.tenant = node.tenant
        BY <3>2 DEF Careful
      <4>2. \A t \in Tenants : Admits(node', t) <=> Admits(node, t)
        BY <3>2, <4>1 DEF Admits, Shut
      <4>3. QED
        BY <1>2, <2>2, <4>2 DEF OpenTo, Admits
    <3>3. QED
      BY <3>1, <3>2
  <2>3. QED
    BY <2>1, <2>2
<1>3. QED
  BY <1>1, <1>2 DEF Careful

LEMMA CarefulOwnership ==
  ASSUME OwnInv, OwnInv', Careful, SoleUse'
  PROVE  [Abstract!Next]_(Abstract!vars)
<1>1. UsedBy' = UsedBy
  BY DEF Careful, UsedBy
<1>2. CASE OpenTo' = OpenTo
  BY <1>1, <1>2 DEF Abstract!vars
<1>3. CASE OpenTo' = {}
  BY <1>1, <1>3 DEF Abstract!Next, Abstract!Close
<1>4. CASE OpenTo = {} /\ OpenTo' # {}
  <2>1. PICK c \in Classes : OpenTo' \cup UsedBy' \subseteq {c}
    BY DEF SoleUse, Classes
  <2>2. Abstract!Grant(c)
    BY <1>1, <1>4, <2>1 DEF Abstract!Grant
  <2>3. QED
    BY <2>2 DEF Abstract!Next
<1>5. QED
  BY <1>2, <1>3, <1>4, CarefulOpens

-----------------------------------------------------------------------------
(* The theorems.                                                            *)

\* capacity_controller.py:8, "a node has exactly one owner at any instant":
\* the pool, a customer and a renter never share the machine, whatever the
\* passes, failed calls, lost nodes and restarts in between, or whatever
\* operators write past the console while no pass is interrupted.
THEOREM OneOwner == ASSUME Supervised PROVE Spec => []SoleUse
<1>1. OwnInv => SoleUse
  BY OwnSole
<1>2. QED
  BY <1>1, OwnInvariant, PTL

\* tenant_pvs_on_node(): the machine is never open to one class while its disk
\* holds a volume of another's, however many transitions lie between.
THEOREM DataStaysApart == ASSUME Supervised PROVE Spec => []DataApart
<1>1. OwnInv => DataApart
  BY OwnApart
<1>2. QED
  BY <1>1, OwnInvariant, PTL

\* drain_pending(): the controller evicts from a fenced node only, and never
\* the customer whose reservation the drain is for.
THEOREM EvictionsFenced == ASSUME Supervised PROVE Spec => EvictFenced
<1>1. ASSUME OwnInv, [Next]_vars
      PROVE  \A p \in evicting' \ evicting :
               node.cordoned /\ ~(tx.desired = "DIRECT" /\ TenantOf[p] = Reserved(tx.tenant))
  <2>1. Work => evicting' \subseteq evicting
    BY DEF Work, PodBinds, PodEnds, ContractStarts, ContractEnds, cluster
  <2>2. QED
    BY <1>1, <2>1, StepCareful DEF Careful
<1>2. QED
  BY <1>1, OwnInvariant, PTL DEF Spec, EvictFenced

\* No step gives a machine with a live contract to anybody else: its label may
\* become VAST, the rental's own, or QUARANTINED.  Operators must use the console:
\* a MAINTENANCE transition written while a listed machine drains goes on with
\* the contract count read before the unlist.
THEOREM RentalsProtected == ASSUME Supervised, ByConsole PROVE Spec => RentalProtected
<1>1. ASSUME OwnInv, [Next]_vars
      PROVE  market.contracts > 0 => node'.owner \in {node.owner, "VAST", "QUARANTINED"}
  <2>1. Work => node' = node
    BY DEF Work, PodBinds, PodEnds, ContractStarts, ContractEnds, cluster
  <2>2. QED
    BY <1>1, <2>1, StepCareful DEF Careful
<1>2. QED
  BY <1>1, OwnInvariant, PTL DEF Spec, RentalProtected

\* Every step of the controller, the scheduler, the marketplace and the
\* failures is a step of Ownership under the mapping of OwnershipProperties:
\* the machine changes hands only by being closed, emptied and opened again.
THEOREM OwnershipImplemented == ASSUME Supervised PROVE Spec => ImplementsOwnership
<1>1. Init => Abstract!Init
  <2>1. SUFFICES ASSUME Init PROVE Abstract!Init
    OBVIOUS
  <2>2. UsedBy = {}
    BY <2>1 DEF Init, UsedBy
  <2>3. OpenTo \subseteq {"ARISE"}
    BY <2>1 DEF Init, OpenTo, Admits, ClassOf
  <2>4. QED
    BY <2>2, <2>3, ClassesOf DEF Abstract!Init
<1>2. ASSUME OwnInv, OwnInv', [Next]_vars PROVE [Abstract!Next]_(Abstract!vars)
  <2>1. SoleUse'
    BY <1>2, OwnSole, PTL
  <2>2. QED
    BY <1>2, <2>1, StepCareful, WorkOwnership, CarefulOwnership
<1>3. QED
  BY <1>1, <1>2, OwnInvariant, PTL DEF Spec, ImplementsOwnership, Abstract!Spec

-----------------------------------------------------------------------------
(* The controller's reports against the CRD's rules, when no call fails.     *)
(* (An unlist that fails makes the pass report VAST_RENTED whatever the      *)
(* label is, and from there on the rules may refuse a report.)               *)

AriseRented == tx.active > 0 /\ tx.owner = "ARISE"

\* A rental on a machine labelled ARISE is the one this handover has just
\* made: nothing is reported before its label is VAST, or before the pass
\* has quarantined the node.  Every other rental is on a machine labelled
\* VAST, and a pass past the contract gate of a reclaim has seen none.
AcceptInv ==
  /\ pc \in {"lookup", "get"} => tx.active = 0
  /\ AriseRented =>
       \/ pc \in {"end", "q_unlist", "q_taint", "q_cordon", "q_label", "q_status"}
       \/ /\ tx.desired = "VAST" /\ market.listed
          /\ \/ pc = "dispatch" /\ tx.phase = "DRAINING"
             \/ pc \in {"drain_read", "alloc_read", "volume_read"} \cup ToVast
  /\ pc \in {"dispatch", "arise_unlist", "maint_unlist"} /\ tx.active > 0 /\ tx.desired # "VAST"
       => tx.owner = "VAST" /\ node.owner = "VAST"
  /\ status.phase \in {"VAST_READY", "VAST_RENTED"} => node.owner \in {"VAST", "QUARANTINED"}
  /\ pc \in {"rented_status", "vast_taint", "vast_cordon", "vast_status", "handover_status"}
       => node.owner \in {"VAST", "QUARANTINED"}
  /\ pc \in {"fence", "reclaim_volumes", "sanitizing_status", "sanitize", "recheck",
             "flip_label", "flip_taints", "flip_uncordon", "flip_status"} => tx.active = 0

\* A pass that ends by reporting a phase.
LEMMA ReportedAccept ==
  ASSUME OwnInv, AcceptInv, NEW from, NEW ph, Reported(from, ph),
         ph \in {"VAST_READY", "VAST_RENTED"} => node.owner \in {"VAST", "QUARANTINED"}
  PROVE  AcceptInv'
BY DEF AcceptInv, AriseRented, Reported, NoTx

LEMMA ReturnAccept ==
  ASSUME OwnInv, AcceptInv, pc' \in {"idle", "save"}, tx' = NoTx, UNCHANGED status,
         node'.owner = node.owner \/ node'.owner \in {"VAST", "QUARANTINED"}
  PROVE  AcceptInv'
BY DEF AcceptInv, AriseRented, NoTx

LEMMA PassAccept ==
  ASSUME OwnInv, AcceptInv, Pass, Supervised, ByConsole, MaxFaults = 0
  PROVE  AcceptInv'
<1>0. TypeOK
  BY DEF OwnInv
<1>a. adapter = "mock-v1"
  BY <1>0 DEF TypeOK
<1> USE <1>0 DEF AcceptInv, AriseRented, Move, Return
<1>1. CASE ListCRs
  BY <1>1 DEF OwnInv, ListCRs, NoTx, orders, cluster
<1>2. CASE NodeMissing
  BY <1>2 DEF NodeMissing, cluster, memory
<1>3. CASE OperatorQuarantine \/ ProceedToMarket
  <2>1. /\ pc = "lookup" /\ pc' \in {"q_unlist", "get"} /\ tx'.active = tx.active
        /\ UNCHANGED <<node, status, market>>
    BY <1>3 DEF OperatorQuarantine, ProceedToMarket, FoundNode, TypeOK, TxType, cluster
  <2>2. QED
    BY <2>1
<1>4. CASE HoldInherited \/ RefuseListing
  BY <1>4, <1>a DEF HoldInherited, RefuseListing
<1>5. CASE HoldTaint \/ HoldCordon
  BY <1>5 DEF OwnInv, HoldTaint, HoldCordon, NodeStep
<1>6. CASE QuarantineRented
  BY <1>6 DEF OwnInv, QuarantineRented, cluster, memory
<1>7. CASE GetMachine
  <2>1. /\ pc = "get" /\ pc' = "dispatch"
        /\ tx'.active = market.contracts /\ tx'.owner = tx.owner /\ tx'.desired = tx.desired
        /\ UNCHANGED <<node, status, market>>
    BY <1>7 DEF OwnInv, GetMachine, Contracts, TypeOK, TxType, cluster
  <2>2. tx.owner = node.owner /\ tx.phase = status.phase
    BY <2>1 DEF OwnInv
  <2>3. market.contracts > 0 /\ tx.owner # "VAST" =>
          /\ tx.desired = "VAST" /\ market.listed
          /\ tx.phase \in {"DRAINING", "VAST_READY", "VAST_RENTED"}
    BY <1>7, <1>a DEF GetMachine, RentedElsewhere, Contracts, IsListed
  <2>4. tx.phase = "DRAINING" => tx'.phase = "DRAINING"
    BY <1>7 DEF GetMachine, Superseded, TypeOK, TxType
  <2>5. QED
    BY <2>1, <2>2, <2>3, <2>4 DEF OwnInv
<1>8. CASE DriftFix
  <2>1. node'.owner \in {"VAST", "QUARANTINED"}
    BY <1>8
    DEF OwnInv, DriftFix, Drifted, ExpectedOwner, Labelled, TypeOK, NodeType, TxType
  <2>2. QED
    BY <1>8, <2>1, ReturnAccept DEF DriftFix
<1>9. CASE HoldGated
  BY <1>9 DEF OwnInv, HoldGated, ReopenFrom, cluster, memory
<1>10. CASE End
  BY <1>10, ReturnAccept DEF End, cluster
<1>11. CASE ReopenTaints \/ ReopenUncordon
  BY <1>11
  DEF OwnInv, ReopenTaints, ReopenUncordon, NodeStep, Retainted, Uncordoned, NodeType, TypeOK,
      memory
<1>12. CASE RentedStatus
  <2>1. Reported("rented_status", "VAST_RENTED")
    BY <1>12, Reports DEF RentedStatus
  <2>2. QED
    BY <2>1, ReportedAccept DEF Reported
<1>13. CASE SaveState
  BY <1>13 DEF OwnInv, SaveState, cluster
<1>14. QED
  BY <1>1, <1>2, <1>3, <1>4, <1>5, <1>6, <1>7, <1>8, <1>9, <1>10, <1>11, <1>12, <1>13 DEF Pass

LEMMA DrainAccept ==
  ASSUME OwnInv, AcceptInv, Drain, Supervised, ByConsole, MaxFaults = 0
  PROVE  AcceptInv'
<1>0. TypeOK
  BY DEF OwnInv
<1> USE <1>0 DEF AcceptInv, AriseRented, Move, Return
<1>1. CASE DrainCordon \/ DrainTaint
  BY <1>1
  DEF OwnInv, DrainCordon, DrainTaint, NodeStep, Cordoned, Retainted, TypeOK, NodeType, memory
<1>2. CASE DrainingStatus
  <2>1. Reported("draining_status", "DRAINING")
    BY <1>2, Reports DEF DrainingStatus
  <2>2. QED
    BY <2>1, ReportedAccept
<1>3. CASE DrainPending
  <2>1. pods # {} /\ pc = "drain_read"
    BY <1>3 DEF DrainPending, PodsOf
  <2>2. ~AriseRented
    BY <2>1 DEF OwnInv, UsersFit
  <2>3. QED
    BY <1>3, <2>1, <2>2 DEF DrainPending, memory
<1>4. CASE Drained \/ AllocationZero \/ AllocationHeld \/ VolumesClear
  BY <1>4 DEF OwnInv, Drained, AllocationZero, AllocationHeld, VolumesClear, cluster, memory
<1>5. CASE VolumesStranded
  <2>1. vols # {} /\ pc = "volume_read"
    BY <1>5 DEF VolumesStranded, VolumesOf
  <2>2. ~AriseRented
    BY <2>1 DEF OwnInv, UsersFit
  <2>3. QED
    BY <1>5, <2>1, <2>2 DEF VolumesStranded, cluster, memory
<1>6. QED
  BY <1>1, <1>2, <1>3, <1>4, <1>5 DEF Drain

LEMMA AriseAccept ==
  ASSUME OwnInv, AcceptInv, Arise, Supervised, ByConsole, MaxFaults = 0
  PROVE  AcceptInv'
<1>0. TypeOK
  BY DEF OwnInv
<1> USE <1>0 DEF AcceptInv, AriseRented, Move, Return
<1>1. CASE AriseSettled
  BY <1>1 DEF AriseSettled, Handles, ReopenFrom, cluster, memory
<1>2. CASE ReadyStatus
  <2>1. Reported("ready_status", "READY")
    BY <1>2, Reports DEF ReadyStatus
  <2>2. QED
    BY <2>1, ReportedAccept
<1>3. CASE AriseReclaim
  <2>1. /\ pc = "dispatch" /\ tx.desired = "ARISE"
        /\ pc' = "arise_unlist" \/ pc' = AfterAriseGate
        /\ UNCHANGED <<status, node, market, tx>>
    BY <1>3 DEF AriseReclaim, Handles, cluster, memory
  <2>2. tx.active \in Nat
    BY DEF TypeOK, TxType
  <2>3. CASE tx.active > 0
    <3>1. tx.owner = "VAST" /\ node.owner = "VAST"
      BY <2>1, <2>3
    <3>2. pc' \in {"arise_unlist", "rented_status"}
      BY <2>1, <2>3, AriseGate
    <3>3. QED
      BY <2>1, <3>1, <3>2
  <2>4. CASE tx.active = 0
    <3>1. AfterAriseGate # "rented_status"
      BY <2>4 DEF AfterAriseGate
    <3>2. QED
      BY <2>1, <2>4, <3>1, AriseGate
  <2>5. QED
    BY <2>2, <2>3, <2>4
<1>4. CASE AriseUnlist
  <2>1. pc = "arise_unlist" /\ pc' = AfterAriseGate /\ UNCHANGED <<status, node, tx>>
    BY <1>4 DEF AriseUnlist, cluster, memory
  <2>2. tx.active \in Nat /\ tx.desired = "ARISE"
    BY <2>1 DEF TypeOK, TxType, OwnInv
  <2>3. CASE tx.active > 0
    <3>1. tx.owner = "VAST" /\ node.owner = "VAST"
      BY <2>1, <2>2, <2>3
    <3>2. pc' = "rented_status"
      BY <2>1, <2>3, AriseGate
    <3>3. QED
      BY <2>1, <3>1, <3>2
  <2>4. CASE tx.active = 0
    <3>1. AfterAriseGate # "rented_status"
      BY <2>4 DEF AfterAriseGate
    <3>2. QED
      BY <2>1, <2>4, <3>1, AriseGate
  <2>5. QED
    BY <2>2, <2>3, <2>4
<1>5. CASE Fence \/ FlipTaints \/ FlipUncordon
  BY <1>5
  DEF Fence, FlipTaints, FlipUncordon, NodeStep, Cordoned, Uncordoned, Retainted, TypeOK,
      NodeType, memory
<1>6. CASE ReclaimHeld
  <2>1. Reported("reclaim_volumes", status.phase)
    BY <1>6, ReportsBase DEF ReclaimHeld
  <2>2. QED
    BY <2>1, ReportedAccept
<1>7. CASE ReclaimVolumesClear \/ SanitizeFailed \/ RecheckPassed
  BY <1>7 DEF ReclaimVolumesClear, SanitizeFailed, RecheckPassed, cluster, memory
<1>8. CASE SanitizingStatus
  <2>1. /\ pc = "sanitizing_status" /\ UNCHANGED <<node, market>>
        /\ \/ pc' = "save" /\ tx' = NoTx /\ status' = status
           \/ pc' = "sanitize" /\ tx' = tx /\ status'.phase = "SANITIZING"
    BY <1>8, ZenonT(30) DEF SanitizingStatus, Base, TypeOK, StatusType, cluster
  <2>2. QED
    BY <2>1 DEF NoTx
<1>9. CASE SanitizePassed
  <2>1. Reported("sanitize", "HEALTH_CHECK")
    BY <1>9, Reports DEF SanitizePassed
  <2>2. QED
    BY <2>1, ReportedAccept
<1>10. CASE RecheckFailed
  <2>1. Reported("recheck", "SANITIZING")
    BY <1>10, Reports DEF RecheckFailed
  <2>2. QED
    BY <2>1, ReportedAccept
<1>11. CASE FlipLabel
  BY <1>11 DEF OwnInv, FlipLabel, NodeStep, memory
<1>12. CASE FlipStatus
  <2>1. Reported("flip_status", "READY")
    BY <1>12, ReportsOwner, ZenonT(30) DEF FlipStatus
  <2>2. QED
    BY <2>1, ReportedAccept
<1>13. QED
  BY <1>1, <1>2, <1>3, <1>4, <1>5, <1>6, <1>7, <1>8, <1>9, <1>10, <1>11, <1>12 DEF Arise

LEMMA VastAccept ==
  ASSUME OwnInv, AcceptInv, Vast, Supervised, ByConsole, MaxFaults = 0
  PROVE  AcceptInv'
<1>0. TypeOK
  BY DEF OwnInv
<1> USE <1>0 DEF AcceptInv, AriseRented, Move, Return
<1>1. CASE VastSteady \/ VastStart \/ VastDrain \/ VastOther
  BY <1>1 DEF OwnInv, VastSteady, VastStart, VastDrain, VastOther, Handles, cluster, memory
<1>2. CASE VastTaint \/ VastCordon \/ HandoverTaints
  BY <1>2
  DEF OwnInv, VastTaint, VastCordon, HandoverTaints, NodeStep, Cordoned, Retainted, TypeOK,
      NodeType, memory
<1>3. CASE VastStatus
  <2> DEFINE ph == IF tx.active > 0 THEN "VAST_RENTED" ELSE "VAST_READY"
  <2>1. Reported("vast_status", ph)
    BY <1>3, ReportsOwner, ZenonT(30) DEF VastStatus
  <2>2. QED
    BY <2>1, ReportedAccept DEF Reported
<1>4. CASE HandoverStatus
  <2> DEFINE ph == IF tx.active > 0 THEN "VAST_RENTED" ELSE "VAST_READY"
  <2>1. Reported("handover_status", ph)
    BY <1>4, ReportsListed, ZenonT(30) DEF HandoverStatus
  <2>2. QED
    BY <2>1, ReportedAccept DEF Reported
<1>5. CASE PrelistPassed \/ PrelistFailed \/ QueryListed \/ QueryUnlisted \/ ReadbackMismatch
  BY <1>5
  DEF OwnInv, PrelistPassed, PrelistFailed, QueryListed, QueryUnlisted, ReadbackMismatch,
      cluster, memory
<1>6. CASE ListMachine
  BY <1>6 DEF OwnInv, ListMachine, ListEffect, TypeOK, MarketType, cluster, memory
<1>7. CASE ReadbackListed
  BY <1>7 DEF OwnInv, ReadbackListed, TypeOK, TxType, cluster
<1>8. CASE HandoverLabel
  BY <1>8 DEF OwnInv, HandoverLabel, NodeStep, Labelled, TypeOK, NodeType, memory
<1>9. QED
  BY <1>1, <1>2, <1>3, <1>4, <1>5, <1>6, <1>7, <1>8 DEF Vast

LEMMA DirectAccept ==
  ASSUME OwnInv, AcceptInv, Direct, Supervised, ByConsole, MaxFaults = 0
  PROVE  AcceptInv'
<1>0. TypeOK
  BY DEF OwnInv
<1> USE <1>0 DEF AcceptInv, AriseRented, Move, Return
<1>1. CASE DirectListed \/ DirectAmbiguous \/ DirectStart \/ DirectDrain \/ DirectOther
  BY <1>1
  DEF OwnInv, DirectListed, DirectAmbiguous, DirectStart, DirectDrain, DirectOther,
      DirectNamed, DirectFree, Handles, cluster, memory
<1>2. CASE DirectRented
  BY <1>2 DEF OwnInv, DirectRented, Handles, cluster, memory
<1>3. CASE DirectSteady
  BY <1>3
  DEF OwnInv, DirectSteady, DirectDrift, DirectNamed, DirectFree, Handles, cluster, memory
<1>4. CASE DirectUnlist
  BY <1>4 DEF OwnInv, DirectUnlist, cluster, memory
<1>5. CASE PendingStatus
  <2>1. Reported("pending_status", "PENDING")
    BY <1>5, Reports DEF PendingStatus
  <2>2. QED
    BY <2>1, ReportedAccept
<1>6. CASE BaseStatus
  <2>1. Reported("base_status", status.phase)
    BY <1>6, ReportsBase DEF BaseStatus
  <2>2. QED
    BY <2>1, ReportedAccept
<1>7. CASE RebindCordon \/ RebindLabel \/ RebindUncordon
  BY <1>7 DEF OwnInv, RebindCordon, RebindLabel, RebindUncordon, NodeStep
<1>8. CASE DirectTaint \/ DirectUncordon \/ BindLabel \/ BindTaints \/ BindUncordon
  BY <1>8
  DEF OwnInv, DirectTaint, DirectUncordon, BindLabel, BindTaints, BindUncordon, NodeStep,
      Uncordoned, Retainted, BoundTo, TypeOK, NodeType, memory
<1>9. CASE DirectStatus
  <2>1. Reported("direct_status", "DIRECT_ASSIGNED")
    BY <1>9, ReportsOwner, ZenonT(30) DEF DirectStatus
  <2>2. QED
    BY <2>1, ReportedAccept
<1>10. CASE BindStatus
  <2>1. Reported("bind_status", "DIRECT_ASSIGNED")
    BY <1>10, ReportsOwner, ZenonT(30) DEF BindStatus
  <2>2. QED
    BY <2>1, ReportedAccept
<1>11. QED
  BY <1>1, <1>2, <1>3, <1>4, <1>5, <1>6, <1>7, <1>8, <1>9, <1>10 DEF Direct

LEMMA MaintenanceAccept ==
  ASSUME OwnInv, AcceptInv, Maintenance, Supervised, ByConsole, MaxFaults = 0
  PROVE  AcceptInv'
<1>0. TypeOK
  BY DEF OwnInv
<1> USE <1>0 DEF AcceptInv, AriseRented, Move, Return
<1>1. CASE MaintenanceBegin \/ MaintenanceUnlist
  <2>1. /\ pc \in {"dispatch", "maint_unlist"} /\ tx.desired = "MAINTENANCE"
        /\ pc' \in {"maint_unlist", AfterMaintenanceGate}
        /\ UNCHANGED <<node, status, tx>>
    BY <1>1 DEF OwnInv, MaintenanceBegin, MaintenanceUnlist, Handles, cluster, memory
  <2>2. ~AriseRented
    BY <2>1
  <2>3. pc' = "rented_status" => tx.active > 0
    BY <2>1 DEF AfterMaintenanceGate, Phase
  <2>4. QED
    BY <2>1, <2>2, <2>3, MaintenanceGate
<1>2. CASE MaintTaint \/ MaintCordon \/ MaintainTaints \/ MaintainLabel
  BY <1>2
  DEF OwnInv, MaintTaint, MaintCordon, MaintainTaints, MaintainLabel, NodeStep, Cordoned,
      Retainted, Labelled, TypeOK, NodeType, memory
<1>3. CASE MaintStatus
  <2>1. Reported("maint_status", "MAINTENANCE")
    BY <1>3, ReportsOwner, ZenonT(30) DEF MaintStatus
  <2>2. QED
    BY <2>1, ReportedAccept
<1>4. CASE MaintainStatus
  <2>1. Reported("maintain_status", "MAINTENANCE")
    BY <1>4, ReportsOwner, ZenonT(30) DEF MaintainStatus
  <2>2. QED
    BY <2>1, ReportedAccept
<1>5. QED
  BY <1>1, <1>2, <1>3, <1>4 DEF Maintenance

LEMMA QuarantineAccept ==
  ASSUME OwnInv, AcceptInv, Quarantine, Supervised, ByConsole, MaxFaults = 0
  PROVE  AcceptInv'
<1>0. TypeOK
  BY DEF OwnInv
<1> USE <1>0 DEF AcceptInv, AriseRented, Move, Return
<1>1. CASE QuarantineUnlist
  BY <1>1 DEF QuarantineUnlist, cluster, memory
<1>2. CASE QuarantineTaint \/ QuarantineCordon \/ QuarantineLabel
  BY <1>2
  DEF QuarantineTaint, QuarantineCordon, QuarantineLabel, NodeStep, Cordoned, Retainted,
      Labelled, TypeOK, NodeType, memory
<1>3. CASE QuarantineStatus
  <2>1. /\ pc = "q_status" /\ pc' = "save" /\ tx' = NoTx /\ UNCHANGED <<node, market>>
        /\ status' = status \/ status'.phase = "QUARANTINED"
    BY <1>3, ZenonT(30) DEF QuarantineStatus, StatusEnd, TypeOK, StatusType, cluster
  <2>2. QED
    BY <2>1 DEF NoTx
<1>4. QED
  BY <1>1, <1>2, <1>3 DEF Quarantine

LEMMA StepAccept ==
  ASSUME OwnInv, AcceptInv, [Next]_vars, Supervised, ByConsole, MaxFaults = 0
  PROVE  AcceptInv'
<1>0. TypeOK
  BY DEF OwnInv
<1>1. CASE Controller
  BY <1>1, PassAccept, DrainAccept, AriseAccept, VastAccept, DirectAccept, MaintenanceAccept,
     QuarantineAccept
  DEF Controller
<1>2. CASE Failures
  <2>1. budget.faults = 0
    BY <1>0 DEF TypeOK, BudgetType
  <2>2. CASE Restart
    BY <2>2, ReturnAccept DEF Restart, cluster
  <2>3. CASE NodeVanishes
    BY <1>0, <2>3 DEF AcceptInv, AriseRented, NodeVanishes, TypeOK, NodeType, memory
  <2>4. QED
    BY <1>2, <2>1, <2>2, <2>3
    DEF Failures, GetFails, PrelistUnhealthy, ListUncertain, QueryFails, UnlistFails, CallFails,
        Spend
<1>3. CASE Environment
  <2>1. CASE \/ \E d \in DesiredOwners, t \in Tenants \cup {None}, w \in BOOLEAN : Submit(d, t, w)
             \/ ConsoleListsNodes \/ NotBeforePasses \/ TimePasses
             \/ \E p \in Pods : PodBinds(p) \/ PodEnds(p)
             \/ \E v \in Tenants \cup {Unbound} : VolumeChanges(v)
    BY <2>1
    DEF AcceptInv, AriseRented, Submit, ConsoleListsNodes, NotBeforePasses, TimePasses,
        PodBinds, PodEnds, VolumeChanges, cluster, memory
  <2>2. CASE ContractStarts \/ ContractEnds
    BY <1>0, <2>2
    DEF AcceptInv, AriseRented, ContractStarts, ContractEnds, TypeOK, MarketType, cluster, memory
  <2>3. CASE \E k \in Tids : ListLands(k)
    BY <2>3 DEF OwnInv, ListLands
  <2>4. CASE NodeReturns
    BY <1>0, <2>4 DEF AcceptInv, AriseRented, NodeReturns, TypeOK, NodeType, memory
  <2>5. CASE Tamper
    BY <1>0, <2>5 DEF Tamper, Spend, TypeOK, BudgetType
  <2>6. QED
    BY <1>3, <2>1, <2>2, <2>3, <2>4, <2>5 DEF Environment
<1>4. CASE UNCHANGED vars
  BY <1>4 DEF AcceptInv, AriseRented, vars, cluster, memory
<1>5. QED
  BY <1>1, <1>2, <1>3, <1>4 DEF Next

\* crd.yaml's x-kubernetes-validations: as long as every call is answered, the
\* controller reports nothing the API server refuses, so no pass is lost to
\* its own validation, whatever the rentals, restarts and lost nodes.
THEOREM StatusNeverRefused ==
  ASSUME Supervised, ByConsole, MaxFaults = 0
  PROVE  Spec => []NoRefusedStatus
<1>1. Init => AcceptInv
  BY DEF Init, AcceptInv, AriseRented, NoTx
<1>2. ASSUME OwnInv, AcceptInv, [Next]_vars PROVE AcceptInv'
  BY <1>2, StepAccept
<1>3. AcceptInv => NoRefusedStatus
  BY DEF AcceptInv, AriseRented, NoRefusedStatus
<1>4. QED
  BY <1>1, <1>2, <1>3, OwnInvariant, PTL DEF Spec

=============================================================================
