--------------------------- MODULE ReclaimProofs ---------------------------
(***************************************************************************)
(* "Unlist is not reclaim", for every value of the constants: any tenants,  *)
(* any operators (console or direct edits), any number of failed calls,     *)
(* restarts, lost nodes and manual edits, as long as every restart has the  *)
(* marketplace adapter and no list request outlives the call that made it.  *)
(* The controller's types come first, for it and for OwnershipProofs.       *)
(* Last come two results for the same operators: a quarantined machine    *)
(* stays off the market, a drain stays fenced.                              *)
(*                                                                         *)
(* ReclaimGate is not inductive: it speaks of the reported phase, and the   *)
(* next pass acts on what it read of it.  ReclaimInv adds what a pass knows *)
(* between its calls, from the read of the marketplace on.                  *)
(***************************************************************************)
EXTENDS OwnershipProperties, TLAPS

-----------------------------------------------------------------------------
(* Type correctness.  The lemmas follow the shapes the controller's steps   *)
(* share (Move, NodeStep, StatusEnd); each group of actions then has one    *)
(* step per action.                                                         *)

LEMMA NodeWrites ==
  ASSUME NEW n \in NodeType
  PROVE  /\ \A o \in Owners : Labelled(n, o) \in NodeType
         /\ \A t \in Tenants \cup {None} : BoundTo(n, t) \in NodeType
         /\ Cordoned(n) \in NodeType /\ Uncordoned(n) \in NodeType
         /\ \A add, remove \in SUBSET Taints : Retainted(n, add, remove) \in NodeType
BY DEF NodeType, Labelled, BoundTo, Cordoned, Uncordoned, Retainted, Owners, Taints

LEMMA MoveType ==
  ASSUME TypeOK, NEW from, NEW to, Move(from, to), from \notin {"idle", "save"}
  PROVE  TypeOK'
BY DEF TypeOK, Move, orders, cluster, memory

LEMMA NodeStepType ==
  ASSUME TypeOK, NEW from, NEW to, NEW n, NodeStep(from, n, to),
         from \notin {"idle", "save"}, n \in NodeType
  PROVE  TypeOK'
BY DEF TypeOK, NodeStep, orders, memory

LEMMA NoTxType == NoTx \in TxType /\ NoTx.tid = 0
BY ConstantsAssumption DEF NoTx, TxType, Owners, Phases

LEMMA StatusEndType ==
  ASSUME TypeOK, NEW from, NEW s, NEW c, StatusEnd(from, s, c),
         s \in StatusType, c \in ClockType
  PROVE  TypeOK'
BY NoTxType DEF TypeOK, StatusEnd, Return, orders, cluster

LEMMA BaseType == ASSUME TypeOK PROVE Base \in StatusType
BY ConstantsAssumption DEF TypeOK, Base, StatusType, TxType

LEMMA InitType == Init => TypeOK
BY ConstantsAssumption, NoTxType
DEF Init, TypeOK, SpecType, StatusType, NodeType, MarketType, ClockType, BudgetType, NoClock,
    Phases, Owners, Tids, Taints

\* What the node's phase, the reservation and the budget can be.
LEMMA NoClockType == NoClock \in ClockType
BY DEF NoClock, ClockType

LEMMA Listing ==
  /\ \A m \in MarketType, k \in Tids : ListEffect(m, k) \in MarketType
  /\ \A m \in MarketType, k \in Tids :
       /\ [m EXCEPT !.late = @ \cup {k}] \in MarketType
       /\ \A b \in BOOLEAN :
            [m EXCEPT !.late = @ \ {k}, !.stray = b] \in MarketType
  /\ TypeOK /\ pc = "list" => tx.tid \in Tids
<1>1. ASSUME NEW m \in MarketType, NEW k \in Tids
      PROVE  /\ ListEffect(m, k) \in MarketType
             /\ [m EXCEPT !.late = @ \cup {k}] \in MarketType
  BY DEF ListEffect, MarketType
<1>2. ASSUME NEW m \in MarketType, NEW k \in Tids, NEW b \in BOOLEAN
      PROVE  [m EXCEPT !.late = @ \ {k}, !.stray = b] \in MarketType
  BY DEF MarketType
<1>3. TypeOK /\ pc = "list" => tx.tid \in Tids
  BY DEF TypeOK, TxType
<1> QED
  BY <1>1, <1>2, <1>3

LEMMA DriftTarget == ASSUME TypeOK, Drifted PROVE ExpectedOwner(tx.phase) \in Owners
BY DEF TypeOK, Drifted, ExpectedOwner, TxType, Owners

LEMMA ReservedType == \A t \in Tenants \cup {None} : Reserved(t) \in Tenants \cup {None}
BY ConstantsAssumption DEF Reserved

LEMMA BudgetSpent ==
  ASSUME TypeOK, NEW kind \in {"faults", "losses", "crashes", "tampers"}, Spend(kind)
  PROVE  budget' \in BudgetType
BY ConstantsAssumption DEF TypeOK, Spend, BudgetType

\* The pass: look up, read the marketplace, correct drift, save.
LEMMA PassType == ASSUME TypeOK, Pass PROVE TypeOK'
<1>1. CASE ListCRs
  <2> DEFINE gate ==
        spec.wait /\ (status.phase \in {"none", "PENDING"} \/ status.last # spec.tid)
  <2>1. gate \in BOOLEAN
    BY DEF TypeOK, SpecType
  <2>2. tx' = [NoTx EXCEPT !.desired = spec.desired, !.tid = spec.tid, !.tenant = spec.tenant,
                          !.phase = status.phase, !.gated = gate]
    BY <1>1, Zenon DEF ListCRs
  <2>3. spec.desired \in Owners /\ spec.tid \in Tids /\ spec.tenant \in Tenants \cup {None}
    BY ConstantsAssumption DEF TypeOK, SpecType, Owners
  <2>4. status.phase \in Phases
    BY DEF TypeOK, StatusType
  <2> HIDE DEF gate
  <2>5. tx' \in TxType /\ tx'.tid = spec.tid
    BY <2>1, <2>2, <2>3, <2>4, NoTxType DEF TxType
  <2>6. tx'.tid # 0
    BY <2>3, <2>5 DEF Tids
  <2>7. QED
    BY <1>1, <2>5, <2>6 DEF ListCRs, TypeOK, orders, cluster
<1>2. CASE NodeMissing
  BY <1>2, MoveType DEF NodeMissing
<1>3. CASE OperatorQuarantine
  BY <1>3 DEF OperatorQuarantine, FoundNode, TypeOK, orders, cluster, memory, NodeType, TxType
<1>4. CASE HoldInherited
  BY <1>4 DEF HoldInherited, FoundNode, TypeOK, orders, cluster, memory, NodeType, TxType
<1>5. CASE RefuseListing
  BY <1>5, NoTxType DEF RefuseListing, Return, TypeOK, orders, cluster, memory
<1>6. CASE ProceedToMarket
  BY <1>6 DEF ProceedToMarket, FoundNode, TypeOK, orders, cluster, memory, NodeType, TxType
<1>7. CASE HoldTaint
  BY <1>7, NodeStepType, NodeWrites DEF HoldTaint, TxType, TypeOK, Taints, Owners
<1>8. CASE HoldCordon
  BY <1>8, NoTxType, NodeWrites DEF HoldCordon, Return, TypeOK, orders, cluster, memory
<1>9. CASE QuarantineRented
  BY <1>9, MoveType DEF QuarantineRented
<1>10. CASE GetMachine
  <2>1. Contracts \in 0..MaxContracts /\ IsListed \in BOOLEAN
    BY ConstantsAssumption DEF TypeOK, MarketType, Contracts, IsListed
  <2>2. tx' \in TxType /\ tx'.tid = tx.tid
    BY <1>10, <2>1 DEF GetMachine, TypeOK, TxType, Phases
  <2>3. clock' \in ClockType
    BY <1>10 DEF GetMachine, TypeOK, TxType, ClockType
  <2>4. QED
    BY <1>10, <2>2, <2>3 DEF GetMachine, TypeOK, orders, cluster
<1>11. CASE DriftFix
  BY <1>11, NoTxType, NodeWrites, DriftTarget DEF DriftFix, Return, TypeOK, orders
<1>12. CASE HoldGated
  BY <1>12, MoveType DEF HoldGated
<1>13. CASE End
  BY <1>13, NoTxType DEF End, Return, TypeOK, orders, cluster, memory
<1>14. CASE ReopenTaints
  BY <1>14, NodeStepType, NodeWrites DEF ReopenTaints, TxType, TypeOK, Taints, Owners
<1>15. CASE ReopenUncordon
  BY <1>15, NodeStepType, NodeWrites DEF ReopenUncordon, TypeOK, Taints, Owners
<1>16. CASE RentedStatus
  BY <1>16, StatusEndType, BaseType DEF RentedStatus, TypeOK, StatusType, Phases, Owners
<1>17. CASE SaveState
  BY <1>17 DEF SaveState, TypeOK, orders, cluster, memory
<1>18. QED
  BY <1>1, <1>2, <1>3, <1>4, <1>5, <1>6, <1>7, <1>8, <1>9, <1>10, <1>11, <1>12, <1>13, <1>14,
     <1>15, <1>16, <1>17
  DEF Pass

\* The drain.
LEMMA DrainType == ASSUME TypeOK, Drain PROVE TypeOK'
<1>1. CASE DrainCordon
  BY <1>1, NodeStepType, NodeWrites DEF DrainCordon, TypeOK, Taints, Owners
<1>2. CASE DrainTaint
  BY <1>2, NodeWrites DEF DrainTaint, TypeOK, orders, TxType, ClockType, Taints
<1>3. CASE DrainingStatus
  BY <1>3, StatusEndType, BaseType DEF DrainingStatus, TypeOK, StatusType, Phases, Owners
<1>4. CASE DrainPending
  BY <1>4 DEF DrainPending, TypeOK, orders, cluster, memory, PodsOf
<1>5. CASE Drained
  BY <1>5, MoveType DEF Drained
<1>6. CASE AllocationZero
  BY <1>6, MoveType DEF AllocationZero
<1>7. CASE AllocationHeld
  BY <1>7, MoveType DEF AllocationHeld
<1>8. CASE VolumesStranded
  BY <1>8, MoveType DEF VolumesStranded
<1>9. CASE VolumesClear
  BY <1>9, MoveType DEF VolumesClear
<1>10. QED
  BY <1>1, <1>2, <1>3, <1>4, <1>5, <1>6, <1>7, <1>8, <1>9 DEF Drain

\* _reconcile_arise.
LEMMA AriseType == ASSUME TypeOK, Arise PROVE TypeOK'
<1>1. CASE AriseSettled
  BY <1>1, MoveType DEF AriseSettled
<1>2. CASE ReadyStatus
  BY <1>2, StatusEndType, BaseType DEF ReadyStatus, TypeOK, StatusType, Phases, Owners
<1>3. CASE AriseReclaim
  BY <1>3, MoveType DEF AriseReclaim
<1>4. CASE AriseUnlist
  BY <1>4 DEF AriseUnlist, TypeOK, orders, cluster, memory, Unlisted, MarketType
<1>5. CASE Fence
  BY <1>5, NodeStepType, NodeWrites DEF Fence, TypeOK, Taints, Owners
<1>6. CASE ReclaimHeld
  BY <1>6, StatusEndType, BaseType DEF ReclaimHeld, TypeOK, StatusType, Phases, Owners
<1>7. CASE ReclaimVolumesClear
  BY <1>7, MoveType DEF ReclaimVolumesClear
<1>8. CASE SanitizingStatus
  BY <1>8, NoTxType, BaseType
  DEF SanitizingStatus, Return, TypeOK, orders, cluster, memory, StatusType, Phases
<1>9. CASE SanitizePassed
  BY <1>9, StatusEndType, BaseType DEF SanitizePassed, TypeOK, StatusType, Phases, Owners
<1>10. CASE SanitizeFailed
  BY <1>10, MoveType DEF SanitizeFailed
<1>11. CASE RecheckFailed
  BY <1>11, StatusEndType, BaseType DEF RecheckFailed, TypeOK, StatusType, Phases, Owners
<1>12. CASE RecheckPassed
  BY <1>12, MoveType DEF RecheckPassed
<1>13. CASE FlipLabel
  BY <1>13, NodeStepType, NodeWrites DEF FlipLabel, TypeOK, Taints, Owners
<1>14. CASE FlipTaints
  BY <1>14, NodeStepType, NodeWrites DEF FlipTaints, TypeOK, Taints, Owners
<1>15. CASE FlipUncordon
  BY <1>15, NodeStepType, NodeWrites DEF FlipUncordon, TypeOK, Taints, Owners
<1>16. CASE FlipStatus
  BY <1>16, StatusEndType, BaseType, NoClockType, ZenonT(30)
  DEF FlipStatus, TypeOK, StatusType, Phases, Owners
<1>17. QED
  BY <1>1, <1>2, <1>3, <1>4, <1>5, <1>6, <1>7, <1>8, <1>9, <1>10, <1>11, <1>12, <1>13, <1>14,
     <1>15, <1>16
  DEF Arise

\* _reconcile_vast.
LEMMA VastType == ASSUME TypeOK, Vast PROVE TypeOK'
<1>1. CASE VastSteady
  BY <1>1, MoveType DEF VastSteady
<1>2. CASE VastTaint
  BY <1>2, NodeStepType, NodeWrites DEF VastTaint, TypeOK, Taints, Owners
<1>3. CASE VastCordon
  BY <1>3, NodeStepType, NodeWrites DEF VastCordon, TypeOK, Taints, Owners
<1>4. CASE VastStatus
  BY <1>4, StatusEndType, BaseType, ZenonT(30) DEF VastStatus, TypeOK, StatusType, Phases, Owners
<1>5. CASE VastStart
  BY <1>5, MoveType DEF VastStart
<1>6. CASE VastDrain
  BY <1>6, MoveType DEF VastDrain
<1>7. CASE VastOther
  BY <1>7, MoveType DEF VastOther
<1>8. CASE PrelistPassed
  BY <1>8, MoveType DEF PrelistPassed
<1>9. CASE PrelistFailed
  BY <1>9, MoveType DEF PrelistFailed
<1>10. CASE ListMachine
  BY <1>10, Listing DEF ListMachine, TypeOK, orders, cluster, memory
<1>11. CASE QueryListed
  BY <1>11, MoveType DEF QueryListed
<1>12. CASE QueryUnlisted
  BY <1>12, MoveType DEF QueryUnlisted
<1>13. CASE ReadbackListed
  BY <1>13 DEF ReadbackListed, TypeOK, orders, cluster, memory, MarketType, TxType
<1>14. CASE ReadbackMismatch
  BY <1>14, MoveType DEF ReadbackMismatch
<1>15. CASE HandoverTaints
  BY <1>15, NodeStepType, NodeWrites DEF HandoverTaints, TypeOK, Taints, Owners
<1>16. CASE HandoverLabel
  BY <1>16, NodeStepType, NodeWrites DEF HandoverLabel, TypeOK, Taints, Owners
<1>17. CASE HandoverStatus
  BY <1>17, StatusEndType, BaseType, ZenonT(30) DEF HandoverStatus, TypeOK, StatusType, Phases, Owners
<1>18. QED
  BY <1>1, <1>2, <1>3, <1>4, <1>5, <1>6, <1>7, <1>8, <1>9, <1>10, <1>11, <1>12, <1>13, <1>14,
     <1>15, <1>16, <1>17
  DEF Vast

\* _reconcile_direct.
LEMMA DirectType == ASSUME TypeOK, Direct PROVE TypeOK'
<1>1. CASE DirectListed
  BY <1>1, MoveType DEF DirectListed
<1>2. CASE DirectUnlist
  BY <1>2 DEF DirectUnlist, TypeOK, orders, cluster, memory, Unlisted, MarketType
<1>3. CASE PendingStatus
  BY <1>3, StatusEndType, BaseType DEF PendingStatus, TypeOK, StatusType, Phases, Owners
<1>4. CASE DirectRented
  BY <1>4, MoveType DEF DirectRented, DirectFree
<1>5. CASE DirectAmbiguous
  BY <1>5, MoveType DEF DirectAmbiguous, DirectFree
<1>6. CASE BaseStatus
  BY <1>6, StatusEndType, BaseType DEF BaseStatus, TypeOK, StatusType, Phases, Owners
<1>7. CASE DirectSteady
  BY <1>7, MoveType DEF DirectSteady
<1>8. CASE RebindCordon
  BY <1>8, NodeStepType, NodeWrites DEF RebindCordon, TypeOK, Taints, Owners
<1>9. CASE RebindLabel
  BY <1>9, NodeStepType, NodeWrites, ReservedType
  DEF RebindLabel, TxType, TypeOK, Taints, Owners
<1>10. CASE RebindUncordon
  BY <1>10, NodeStepType, NodeWrites DEF RebindUncordon, TypeOK, Taints, Owners
<1>11. CASE DirectTaint
  BY <1>11, NodeStepType, NodeWrites DEF DirectTaint, TypeOK, Taints, Owners
<1>12. CASE DirectUncordon
  BY <1>12, NodeStepType, NodeWrites DEF DirectUncordon, TypeOK, Taints, Owners
<1>13. CASE DirectStatus
  BY <1>13, StatusEndType, BaseType, ZenonT(30) DEF DirectStatus, TypeOK, StatusType, Phases, Owners
<1>14. CASE DirectStart
  BY <1>14, MoveType DEF DirectStart
<1>15. CASE DirectDrain
  BY <1>15, MoveType DEF DirectDrain
<1>16. CASE DirectOther
  BY <1>16, MoveType DEF DirectOther
<1>17. CASE BindLabel
  BY <1>17, NodeStepType, NodeWrites, ReservedType DEF BindLabel, TxType, TypeOK, Taints, Owners
<1>18. CASE BindTaints
  BY <1>18, NodeStepType, NodeWrites DEF BindTaints, TypeOK, Taints, Owners
<1>19. CASE BindUncordon
  BY <1>19, NodeStepType, NodeWrites DEF BindUncordon, TypeOK, Taints, Owners
<1>20. CASE BindStatus
  BY <1>20, StatusEndType, BaseType, NoClockType, ZenonT(30)
  DEF BindStatus, TypeOK, StatusType, Phases, Owners
<1>21. QED
  BY <1>1, <1>2, <1>3, <1>4, <1>5, <1>6, <1>7, <1>8, <1>9, <1>10, <1>11, <1>12, <1>13, <1>14,
     <1>15, <1>16, <1>17, <1>18, <1>19, <1>20
  DEF Direct

\* _reconcile_maintenance.
LEMMA MaintenanceType == ASSUME TypeOK, Maintenance PROVE TypeOK'
<1>1. CASE MaintenanceBegin
  BY <1>1, MoveType DEF MaintenanceBegin
<1>2. CASE MaintenanceUnlist
  BY <1>2 DEF MaintenanceUnlist, TypeOK, orders, cluster, memory, Unlisted, MarketType
<1>3. CASE MaintTaint
  BY <1>3, NodeStepType, NodeWrites DEF MaintTaint, TypeOK, Taints, Owners
<1>4. CASE MaintCordon
  BY <1>4, NodeStepType, NodeWrites DEF MaintCordon, TypeOK, Taints, Owners
<1>5. CASE MaintStatus
  BY <1>5, StatusEndType, BaseType, ZenonT(30) DEF MaintStatus, TypeOK, StatusType, Phases, Owners
<1>6. CASE MaintainTaints
  BY <1>6, NodeStepType, NodeWrites DEF MaintainTaints, TypeOK, Taints, Owners
<1>7. CASE MaintainLabel
  BY <1>7, NodeStepType, NodeWrites DEF MaintainLabel, TypeOK, Taints, Owners
<1>8. CASE MaintainStatus
  BY <1>8, StatusEndType, BaseType, NoClockType, ZenonT(30)
  DEF MaintainStatus, TypeOK, StatusType, Phases, Owners
<1>9. QED
  BY <1>1, <1>2, <1>3, <1>4, <1>5, <1>6, <1>7, <1>8 DEF Maintenance

\* quarantine.
LEMMA QuarantineType == ASSUME TypeOK, Quarantine PROVE TypeOK'
<1>1. CASE QuarantineUnlist
  BY <1>1 DEF QuarantineUnlist, TypeOK, orders, cluster, memory, Unlisted, MarketType
<1>2. CASE QuarantineTaint
  BY <1>2, NodeStepType, NodeWrites DEF QuarantineTaint, TypeOK, Taints, Owners
<1>3. CASE QuarantineCordon
  BY <1>3, NodeStepType, NodeWrites DEF QuarantineCordon, TypeOK, Taints, Owners
<1>4. CASE QuarantineLabel
  BY <1>4, NodeStepType, NodeWrites DEF QuarantineLabel, TypeOK, Taints, Owners
<1>5. CASE QuarantineStatus
  <2> DEFINE s == [status EXCEPT !.phase = "QUARANTINED", !.owner = "QUARANTINED",
                              !.stamp = adapter]
  <2>1. s \in StatusType
    BY ConstantsAssumption DEF TypeOK, StatusType, Phases, Owners
  <2> HIDE DEF s
  <2>2. StatusEnd("q_status", s, clock)
    BY <1>5 DEF QuarantineStatus, s
  <2>3. QED
    BY <2>1, <2>2, StatusEndType DEF TypeOK
<1>6. QED
  BY <1>1, <1>2, <1>3, <1>4, <1>5 DEF Quarantine

\* Failed calls, restarts and lost nodes.
LEMMA FailuresType == ASSUME TypeOK, Failures PROVE TypeOK'
<1>1. CASE GetFails
  BY <1>1, NoTxType, BudgetSpent
  DEF GetFails, TypeOK, orders, cluster, memory, Return, Spend, BudgetType
<1>2. CASE PrelistUnhealthy
  BY <1>2, BudgetSpent DEF PrelistUnhealthy, TypeOK, orders, cluster, memory, Spend, BudgetType
<1>3. CASE ListUncertain
  BY <1>3, Listing, BudgetSpent DEF ListUncertain, TypeOK, orders, cluster, memory
<1>4. CASE QueryFails
  BY <1>4, BudgetSpent DEF QueryFails, TypeOK, orders, cluster, memory, Spend, BudgetType
<1>5. CASE UnlistFails
  BY <1>5, BudgetSpent
  DEF UnlistFails, TypeOK, orders, cluster, memory, Spend, BudgetType, Unlisted, MarketType
<1>6. CASE CallFails
  BY <1>6, NoTxType, BudgetSpent
  DEF CallFails, TypeOK, orders, cluster, memory, Spend, BudgetType, Return
<1>7. CASE Restart
  BY <1>7, NoTxType, BudgetSpent DEF Restart, TypeOK, orders, cluster, memory, Spend, BudgetType
<1>8. CASE NodeVanishes
  BY <1>8, BudgetSpent
  DEF NodeVanishes, TypeOK, orders, cluster, memory, Spend, BudgetType, NodeType
<1>9. QED
  BY <1>1, <1>2, <1>3, <1>4, <1>5, <1>6, <1>7, <1>8 DEF Failures

\* Operators, the scheduler, renters, time and manual edits.
LEMMA EnvironmentType == ASSUME TypeOK, Environment PROVE TypeOK'
<1>1. CASE \E d \in DesiredOwners, t \in Tenants \cup {None}, w \in BOOLEAN : Submit(d, t, w)
  <2>1. PICK d \in DesiredOwners, t \in Tenants \cup {None}, w \in BOOLEAN : Submit(d, t, w)
    BY <1>1
  <2>2. spec.tid + 1 \in Tids
    BY <2>1, ConstantsAssumption DEF Submit, TypeOK, SpecType, Tids
  <2>3. spec' \in SpecType
    BY <2>1, <2>2 DEF Submit, SpecType
  <2>4. QED
    BY <2>1, <2>3 DEF Submit, TypeOK, cluster, memory
<1>2. CASE ConsoleListsNodes
  BY <1>2 DEF ConsoleListsNodes, TypeOK, orders, cluster, memory, NodeType
<1>3. CASE NotBeforePasses
  BY <1>3 DEF NotBeforePasses, TypeOK, orders, cluster, memory, SpecType
<1>4. CASE TimePasses
  BY <1>4 DEF TimePasses, TypeOK, orders, cluster, memory, ClockType
<1>5. CASE \E p \in Pods : PodBinds(p) \/ PodEnds(p)
  BY <1>5, ConstantsAssumption DEF PodBinds, PodEnds, TypeOK, orders, memory
<1>6. CASE \E v \in Tenants \cup {Unbound} : VolumeChanges(v)
  BY <1>6 DEF VolumeChanges, TypeOK, orders, memory
<1>7. CASE ContractStarts
  BY <1>7, ConstantsAssumption DEF ContractStarts, TypeOK, orders, cluster, memory, MarketType
<1>8. CASE ContractEnds
  BY <1>8, ConstantsAssumption DEF ContractEnds, TypeOK, orders, cluster, memory, MarketType
<1>9. CASE \E k \in Tids : ListLands(k)
  <2> PICK k \in Tids : ListLands(k)
    BY <1>9
  <2> DEFINE stray == market.stray \/ k \notin market.keys \cup {spec.tid}
             m == [market EXCEPT !.late = @ \ {k}, !.stray = stray]
  <2>1. market \in MarketType /\ stray \in BOOLEAN
    BY DEF TypeOK, MarketType
  <2> HIDE DEF stray
  <2>2. m \in MarketType
    BY <2>1, Listing
  <2> HIDE DEF m
  <2>3. ListEffect(m, k) \in MarketType
    BY <2>2, Listing
  <2> USE DEF m, stray
  <2> QED
    BY <2>3 DEF ListLands, TypeOK, orders, cluster, memory
<1>10. CASE NodeReturns
  BY <1>10 DEF NodeReturns, TypeOK, orders, cluster, memory, NodeType
<1>11. CASE Tamper
  <2>1. node' \in NodeType
    <3>1. CASE \E o \in Owners \ {node.owner} : node' = Labelled(node, o)
      BY <3>1, NodeWrites DEF TypeOK
    <3>2. CASE node' = [node EXCEPT !.cordoned = ~node.cordoned]
      BY <3>2 DEF TypeOK, NodeType
    <3>3. CASE \E t \in node.taints : node' = Retainted(node, {}, {t})
      BY <3>3 DEF TypeOK, NodeType, Retainted
    <3>4. QED
      BY <1>11, <3>1, <3>2, <3>3 DEF Tamper
  <2>2. budget' \in BudgetType
    BY <1>11, BudgetSpent DEF Tamper
  <2>3. QED
    BY <1>11, <2>1, <2>2 DEF Tamper, TypeOK, orders, memory
<1>12. QED
  BY <1>1, <1>2, <1>3, <1>4, <1>5, <1>6, <1>7, <1>8, <1>9, <1>10, <1>11 DEF Environment

\* Every variable stays in its domain in every behaviour of the controller.
THEOREM TypeCorrect == Spec => []TypeOK
<1>1. ASSUME TypeOK, [Next]_vars PROVE TypeOK'
  <2>1. CASE Controller
    BY <1>1, <2>1, PassType, DrainType, AriseType, VastType, DirectType, MaintenanceType,
       QuarantineType DEF Controller
  <2>2. CASE Failures
    BY <1>1, <2>2, FailuresType
  <2>3. CASE Environment
    BY <1>1, <2>3, EnvironmentType
  <2>4. CASE UNCHANGED vars
    BY <1>1, <2>4 DEF TypeOK, vars, orders, cluster, memory
  <2>5. QED
    BY <1>1, <2>1, <2>2, <2>3, <2>4 DEF Next
<1>2. QED
  BY InitType, <1>1, PTL DEF Spec

-----------------------------------------------------------------------------
(* The gate.                                                                *)

\* The calls of a pass that sanitizes, and of one that gives the node back.
SanitizePath == {"fence", "reclaim_volumes", "sanitizing_status", "sanitize"}
FlipPath     == {"recheck", "flip_label", "flip_taints", "flip_uncordon", "flip_status"}
\* The calls of a pass that drains, up to the list request.
DrainPath    == {"drain_read", "alloc_read", "volume_read", "prelist", "list"}
\* The calls before the pass has chosen what to do.
Choosing     == {"lookup", "get", "dispatch", "arise_unlist", "maint_unlist"}

\* What is sanitized or checked is off the market.
StatusUnsold == status.phase \in {"SANITIZING", "HEALTH_CHECK"} => ~market.listed

\* A pass on its way to sanitize or give back has seen the machine unlisted,
\* and gives back a machine that nobody rents.
PathUnsold ==
  /\ pc \in SanitizePath \cup FlipPath => ~market.listed
  /\ pc \in FlipPath => market.contracts = 0

\* A phase in flight that the pass read is still the reported one.
PhaseCurrent ==
  /\ pc \in DrainPath => status.phase = "DRAINING"
  /\ pc \in Choosing /\ tx.phase \in InFlight => status.phase = tx.phase

\* What the pass read of the marketplace still bounds what is there, until it
\* acts: listing is the controller's own doing, and only a listed machine is rented.
MarketCurrent ==
  /\ pc = "dispatch" => tx.listed = market.listed
  /\ pc = "dispatch" /\ ~tx.listed /\ tx.active = 0 => market.contracts = 0
  /\ pc = "arise_unlist" => tx.phase # "HEALTH_CHECK"
  /\ market.late = {}

ReclaimInv == TypeOK /\ StatusUnsold /\ PathUnsold /\ PhaseCurrent /\ MarketCurrent

\* The definitions every step of the proof looks into.
USE
DEF ReclaimInv, StatusUnsold, PathUnsold, PhaseCurrent, MarketCurrent, SanitizePath, FlipPath,
   DrainPath, Choosing, InFlight

\* A pass that ends by reporting no new sanitization.
LEMMA StatusEndReclaim ==
  ASSUME ReclaimInv, TypeOK', NEW from, NEW s, NEW c, StatusEnd(from, s, c),
         s.phase = status.phase \/ s.phase \notin {"SANITIZING", "HEALTH_CHECK"}
  PROVE  ReclaimInv'
BY DEF StatusEnd, Return, orders, cluster

\* The pass.
LEMMA PassReclaim == ASSUME ReclaimInv, Pass, TypeOK', LateLists = FALSE, AdapterModes =
   {"mock-v1"} PROVE ReclaimInv'
<1>1. CASE ListCRs
  BY <1>1 DEF ListCRs, TypeOK, TxType, NoTx, orders, cluster, memory
<1>2. CASE NodeMissing
  BY <1>2 DEF NodeMissing, Move, orders, cluster, memory
<1>3. CASE OperatorQuarantine
  BY <1>3 DEF OperatorQuarantine, FoundNode, orders, cluster, memory
<1>4. CASE HoldInherited
  BY <1>4 DEF HoldInherited, FoundNode, TypeOK, orders, cluster, memory
<1>5. CASE RefuseListing
  BY <1>5 DEF RefuseListing, Return, orders, cluster, memory
<1>6. CASE ProceedToMarket
  BY <1>6 DEF ProceedToMarket, FoundNode, TypeOK, TxType, orders, cluster, memory
<1>7. CASE HoldTaint
  BY <1>7 DEF HoldTaint, NodeStep, orders, memory
<1>8. CASE HoldCordon
  BY <1>8 DEF HoldCordon, Return, orders, cluster, memory
<1>9. CASE QuarantineRented
  BY <1>9 DEF QuarantineRented, Move, orders, cluster, memory
<1>10. CASE GetMachine
  BY <1>10
  DEF GetMachine, Contracts, IsListed, Superseded, TypeOK, TxType, MarketType, orders,
     cluster, memory
<1>11. CASE DriftFix
  BY <1>11 DEF DriftFix, Return, orders, cluster, memory
<1>12. CASE HoldGated
  BY <1>12 DEF HoldGated, Move, ReopenFrom, orders, cluster, memory
<1>13. CASE End
  BY <1>13 DEF End, Return, orders, cluster, memory
<1>14. CASE ReopenTaints
  BY <1>14 DEF ReopenTaints, NodeStep, orders, memory
<1>15. CASE ReopenUncordon
  BY <1>15 DEF ReopenUncordon, NodeStep, orders, memory
<1>16. CASE RentedStatus
  BY <1>16, ZenonT(30) DEF RentedStatus, StatusEnd, Return, Base, TypeOK, StatusType, orders, cluster
<1>17. CASE SaveState
  BY <1>17 DEF SaveState, orders, cluster, memory
<1>18. QED
  BY <1>1, <1>2, <1>3, <1>4, <1>5, <1>6, <1>7, <1>8, <1>9, <1>10, <1>11, <1>12, <1>13, <1>14,
     <1>15, <1>16, <1>17
  DEF Pass

\* The drain.
LEMMA DrainReclaim == ASSUME ReclaimInv, Drain, TypeOK' PROVE ReclaimInv'
<1>1. CASE DrainCordon
  BY <1>1 DEF DrainCordon, NodeStep, orders, memory
<1>2. CASE DrainTaint
  BY <1>2 DEF DrainTaint, orders, cluster, memory
<1>3. CASE DrainingStatus
  BY <1>3, ZenonT(30) DEF DrainingStatus, StatusEnd, Return, Base, TypeOK, StatusType, orders, cluster
<1>4. CASE DrainPending
  BY <1>4 DEF DrainPending, orders, cluster, memory
<1>5. CASE Drained
  BY <1>5 DEF Drained, Move, orders, cluster, memory
<1>6. CASE AllocationZero
  BY <1>6 DEF AllocationZero, Move, orders, cluster, memory
<1>7. CASE AllocationHeld
  BY <1>7 DEF AllocationHeld, Move, orders, cluster, memory
<1>8. CASE VolumesStranded
  BY <1>8 DEF VolumesStranded, Move, orders, cluster, memory
<1>9. CASE VolumesClear
  BY <1>9 DEF VolumesClear, Move, orders, cluster, memory
<1>10. QED
  BY <1>1, <1>2, <1>3, <1>4, <1>5, <1>6, <1>7, <1>8, <1>9 DEF Drain

\* _reconcile_arise.
LEMMA AriseHandlerReclaim == ASSUME ReclaimInv, Arise, TypeOK' PROVE ReclaimInv'
<1>1. CASE AriseSettled
  BY <1>1 DEF AriseSettled, Move, Handles, ReopenFrom, orders, cluster, memory
<1>2. CASE ReadyStatus
  BY <1>2, ZenonT(30) DEF ReadyStatus, StatusEnd, Return, Base, TypeOK, StatusType, orders, cluster
<1>3. CASE AriseReclaim
  BY <1>3 DEF AriseReclaim, Move, Handles, AfterAriseGate, orders, cluster, memory
<1>4. CASE AriseUnlist
  BY <1>4
  DEF AriseUnlist, Unlisted, AfterAriseGate, TypeOK, TxType, MarketType, orders, cluster, memory
<1>5. CASE Fence
  BY <1>5 DEF Fence, NodeStep, orders, memory
<1>6. CASE ReclaimHeld
  BY <1>6 DEF ReclaimHeld, StatusEnd, Return, Base, TypeOK, StatusType, orders, cluster
<1>7. CASE ReclaimVolumesClear
  BY <1>7 DEF ReclaimVolumesClear, Move, orders, cluster, memory
<1>8. CASE SanitizingStatus
  BY <1>8 DEF SanitizingStatus, Return, Base, TypeOK, StatusType, orders, cluster, memory
<1>9. CASE SanitizePassed
  BY <1>9 DEF SanitizePassed, StatusEnd, Return, Base, TypeOK, StatusType, orders, cluster
<1>10. CASE SanitizeFailed
  BY <1>10 DEF SanitizeFailed, Move, orders, cluster, memory
<1>11. CASE RecheckFailed
  BY <1>11 DEF RecheckFailed, StatusEnd, Return, Base, TypeOK, StatusType, orders, cluster
<1>12. CASE RecheckPassed
  BY <1>12 DEF RecheckPassed, Move, orders, cluster, memory
<1>13. CASE FlipLabel
  BY <1>13 DEF FlipLabel, NodeStep, orders, memory
<1>14. CASE FlipTaints
  BY <1>14 DEF FlipTaints, NodeStep, orders, memory
<1>15. CASE FlipUncordon
  BY <1>15 DEF FlipUncordon, NodeStep, orders, memory
<1>16. CASE FlipStatus
  BY <1>16 DEF FlipStatus, StatusEnd, Return, Base, TypeOK, StatusType, orders, cluster
<1>17. QED
  BY <1>1, <1>2, <1>3, <1>4, <1>5, <1>6, <1>7, <1>8, <1>9, <1>10, <1>11, <1>12, <1>13, <1>14,
     <1>15, <1>16
  DEF Arise

\* _reconcile_vast.
LEMMA VastReclaim == ASSUME ReclaimInv, Vast, TypeOK', LateLists = FALSE, AdapterModes =
   {"mock-v1"} PROVE ReclaimInv'
<1>1. CASE VastSteady
  BY <1>1 DEF VastSteady, Move, Handles, orders, cluster, memory
<1>2. CASE VastTaint
  BY <1>2 DEF VastTaint, NodeStep, orders, memory
<1>3. CASE VastCordon
  BY <1>3 DEF VastCordon, NodeStep, orders, memory
<1>4. CASE VastStatus
  <2> DEFINE s == [Base EXCEPT !.owner = "VAST",
                            !.phase = IF tx.active > 0 THEN "VAST_RENTED" ELSE "VAST_READY"]
  <2>1. s.phase = status.phase \/ s.phase \notin {"SANITIZING", "HEALTH_CHECK"}
    BY DEF Base, TypeOK, StatusType
  <2>2. StatusEnd("vast_status", s, clock)
    BY <1>4 DEF VastStatus
  <2>3. QED
    BY <2>1, <2>2, StatusEndReclaim
<1>5. CASE VastStart
  BY <1>5 DEF VastStart, Move, Handles, orders, cluster, memory
<1>6. CASE VastDrain
  BY <1>6 DEF VastDrain, Move, Handles, orders, cluster, memory
<1>7. CASE VastOther
  BY <1>7 DEF VastOther, Move, Handles, orders, cluster, memory
<1>8. CASE PrelistPassed
  BY <1>8 DEF PrelistPassed, Move, orders, cluster, memory
<1>9. CASE PrelistFailed
  BY <1>9 DEF PrelistFailed, Move, orders, cluster, memory
<1>10. CASE ListMachine
  BY <1>10 DEF ListMachine, ListEffect, TypeOK, TxType, MarketType, orders, cluster, memory
<1>11. CASE QueryListed
  BY <1>11 DEF QueryListed, Move, orders, cluster, memory
<1>12. CASE QueryUnlisted
  BY <1>12 DEF QueryUnlisted, Move, orders, cluster, memory
<1>13. CASE ReadbackListed
  BY <1>13 DEF ReadbackListed, orders, cluster, memory
<1>14. CASE ReadbackMismatch
  BY <1>14 DEF ReadbackMismatch, Move, orders, cluster, memory
<1>15. CASE HandoverTaints
  BY <1>15 DEF HandoverTaints, NodeStep, orders, memory
<1>16. CASE HandoverLabel
  BY <1>16 DEF HandoverLabel, NodeStep, orders, memory
<1>17. CASE HandoverStatus
  <2> DEFINE s == [Base EXCEPT !.owner = "VAST", !.op = TRUE,
                            !.phase = IF tx.active > 0 THEN "VAST_RENTED" ELSE "VAST_READY"]
  <2>1. s.phase = status.phase \/ s.phase \notin {"SANITIZING", "HEALTH_CHECK"}
    BY DEF Base, TypeOK, StatusType
  <2>2. StatusEnd("handover_status", s, clock)
    BY <1>17 DEF HandoverStatus
  <2>3. QED
    BY <2>1, <2>2, StatusEndReclaim
<1>18. QED
  BY <1>1, <1>2, <1>3, <1>4, <1>5, <1>6, <1>7, <1>8, <1>9, <1>10, <1>11, <1>12, <1>13, <1>14,
     <1>15, <1>16, <1>17
  DEF Vast

\* _reconcile_direct.
LEMMA DirectReclaim == ASSUME ReclaimInv, Direct, TypeOK' PROVE ReclaimInv'
<1>1. CASE DirectListed
  BY <1>1 DEF DirectListed, Move, Handles, orders, cluster, memory
<1>2. CASE DirectUnlist
  BY <1>2 DEF DirectUnlist, Unlisted, TypeOK, TxType, MarketType, orders, cluster, memory
<1>3. CASE PendingStatus
  BY <1>3, ZenonT(30) DEF PendingStatus, StatusEnd, Return, Base, TypeOK, StatusType, orders, cluster
<1>4. CASE DirectRented
  BY <1>4 DEF DirectRented, Move, Handles, orders, cluster, memory
<1>5. CASE DirectAmbiguous
  BY <1>5 DEF DirectAmbiguous, Move, DirectFree, Handles, orders, cluster, memory
<1>6. CASE BaseStatus
  <2> DEFINE s == Base
  <2>1. s.phase = status.phase \/ s.phase \notin {"SANITIZING", "HEALTH_CHECK"}
    BY DEF Base, TypeOK, StatusType
  <2>2. StatusEnd("base_status", s, clock)
    BY <1>6 DEF BaseStatus
  <2>3. QED
    BY <2>1, <2>2, StatusEndReclaim
<1>7. CASE DirectSteady
  BY <1>7
  DEF DirectSteady, Move, DirectNamed, DirectFree, Handles, DirectDrift, orders, cluster, memory
<1>8. CASE RebindCordon
  BY <1>8 DEF RebindCordon, NodeStep, orders, memory
<1>9. CASE RebindLabel
  BY <1>9 DEF RebindLabel, NodeStep, orders, memory
<1>10. CASE RebindUncordon
  BY <1>10 DEF RebindUncordon, DirectDrift, NodeStep, orders, memory
<1>11. CASE DirectTaint
  BY <1>11 DEF DirectTaint, NodeStep, orders, memory
<1>12. CASE DirectUncordon
  BY <1>12 DEF DirectUncordon, NodeStep, orders, memory
<1>13. CASE DirectStatus
  BY <1>13, ZenonT(30) DEF DirectStatus, StatusEnd, Return, Base, TypeOK, StatusType, orders, cluster
<1>14. CASE DirectStart
  BY <1>14 DEF DirectStart, Move, DirectNamed, DirectFree, Handles, orders, cluster, memory
<1>15. CASE DirectDrain
  BY <1>15
  DEF DirectDrain, Move, DirectNamed, DirectFree, Handles, Phase, orders, cluster, memory
<1>16. CASE DirectOther
  BY <1>16 DEF DirectOther, Move, DirectNamed, DirectFree, Handles, orders, cluster, memory
<1>17. CASE BindLabel
  BY <1>17 DEF BindLabel, NodeStep, orders, memory
<1>18. CASE BindTaints
  BY <1>18 DEF BindTaints, NodeStep, orders, memory
<1>19. CASE BindUncordon
  BY <1>19 DEF BindUncordon, NodeStep, orders, memory
<1>20. CASE BindStatus
  BY <1>20, ZenonT(30) DEF BindStatus, StatusEnd, Return, Base, TypeOK, StatusType, orders, cluster
<1>21. QED
  BY <1>1, <1>2, <1>3, <1>4, <1>5, <1>6, <1>7, <1>8, <1>9, <1>10, <1>11, <1>12, <1>13, <1>14,
     <1>15, <1>16, <1>17, <1>18, <1>19, <1>20
  DEF Direct

\* _reconcile_maintenance.
LEMMA MaintenanceReclaim == ASSUME ReclaimInv, Maintenance, TypeOK' PROVE ReclaimInv'
<1>1. CASE MaintenanceBegin
  BY <1>1
  DEF MaintenanceBegin, Move, Handles, AfterMaintenanceGate, Phase, orders, cluster, memory
<1>2. CASE MaintenanceUnlist
  BY <1>2
  DEF MaintenanceUnlist, AfterMaintenanceGate, Phase, Unlisted, TypeOK, TxType, MarketType,
     orders, cluster, memory
<1>3. CASE MaintTaint
  BY <1>3 DEF MaintTaint, NodeStep, orders, memory
<1>4. CASE MaintCordon
  BY <1>4 DEF MaintCordon, NodeStep, orders, memory
<1>5. CASE MaintStatus
  BY <1>5, ZenonT(30) DEF MaintStatus, StatusEnd, Return, Base, TypeOK, StatusType, orders, cluster
<1>6. CASE MaintainTaints
  BY <1>6 DEF MaintainTaints, NodeStep, orders, memory
<1>7. CASE MaintainLabel
  BY <1>7 DEF MaintainLabel, NodeStep, orders, memory
<1>8. CASE MaintainStatus
  BY <1>8, ZenonT(30) DEF MaintainStatus, StatusEnd, Return, Base, TypeOK, StatusType, orders, cluster
<1>9. QED
  BY <1>1, <1>2, <1>3, <1>4, <1>5, <1>6, <1>7, <1>8 DEF Maintenance

\* quarantine.
LEMMA QuarantineReclaim == ASSUME ReclaimInv, Quarantine, TypeOK' PROVE ReclaimInv'
<1>1. CASE QuarantineUnlist
  BY <1>1 DEF QuarantineUnlist, Unlisted, TypeOK, TxType, MarketType, orders, cluster, memory
<1>2. CASE QuarantineTaint
  BY <1>2 DEF QuarantineTaint, NodeStep, orders, memory
<1>3. CASE QuarantineCordon
  BY <1>3 DEF QuarantineCordon, NodeStep, orders, memory
<1>4. CASE QuarantineLabel
  BY <1>4 DEF QuarantineLabel, NodeStep, orders, memory
<1>5. CASE QuarantineStatus
  BY <1>5, ZenonT(30) DEF QuarantineStatus, StatusEnd, Return, Base, TypeOK, StatusType, orders, cluster
<1>6. QED
  BY <1>1, <1>2, <1>3, <1>4, <1>5 DEF Quarantine

\* Failed calls, restarts and lost nodes.
LEMMA FailuresReclaim == ASSUME ReclaimInv, Failures, TypeOK', LateLists = FALSE, AdapterModes =
   {"mock-v1"} PROVE ReclaimInv'
<1>1. CASE GetFails
  BY <1>1 DEF GetFails, Return, orders, cluster, memory
<1>2. CASE PrelistUnhealthy
  BY <1>2 DEF PrelistUnhealthy, orders, cluster, memory
<1>3. CASE ListUncertain
  BY <1>3 DEF ListUncertain, ListEffect, TypeOK, TxType, MarketType, orders, cluster, memory
<1>4. CASE QueryFails
  BY <1>4 DEF QueryFails, orders, cluster, memory
<1>5. CASE UnlistFails
  BY <1>5 DEF UnlistFails, Unlisted, TypeOK, TxType, MarketType, orders, cluster, memory
<1>6. CASE CallFails
  BY <1>6 DEF CallFails, Return, orders, cluster, memory
<1>7. CASE Restart
  BY <1>7 DEF Restart, orders, cluster, memory
<1>8. CASE NodeVanishes
  BY <1>8 DEF NodeVanishes, orders, cluster, memory
<1>9. QED
  BY <1>1, <1>2, <1>3, <1>4, <1>5, <1>6, <1>7, <1>8 DEF Failures

\* Operators, the scheduler, renters, time and manual edits.
LEMMA EnvironmentReclaim == ASSUME ReclaimInv, Environment, TypeOK', LateLists = FALSE,
   AdapterModes = {"mock-v1"} PROVE ReclaimInv'
<1>1. CASE \E d \in DesiredOwners, t \in Tenants \cup {None}, w \in BOOLEAN : Submit(d, t, w)
  BY <1>1 DEF Submit, cluster, memory
<1>2. CASE ConsoleListsNodes
  BY <1>2 DEF ConsoleListsNodes, orders, cluster, memory
<1>3. CASE NotBeforePasses
  BY <1>3 DEF NotBeforePasses, orders, cluster, memory
<1>4. CASE TimePasses
  BY <1>4 DEF TimePasses, orders, cluster, memory
<1>5. CASE \E p \in Pods : PodBinds(p) \/ PodEnds(p)
  BY <1>5 DEF PodBinds, PodEnds, orders, memory
<1>6. CASE \E v \in Tenants \cup {Unbound} : VolumeChanges(v)
  BY <1>6 DEF VolumeChanges, orders, memory
<1>7. CASE ContractStarts
  BY <1>7 DEF ContractStarts, TypeOK, TxType, MarketType, orders, cluster, memory
<1>8. CASE ContractEnds
  BY <1>8 DEF ContractEnds, TypeOK, TxType, MarketType, orders, cluster, memory
<1>9. CASE \E k \in Tids : ListLands(k)
  BY <1>9 DEF ListLands
<1>10. CASE NodeReturns
  BY <1>10 DEF NodeReturns, orders, cluster, memory
<1>11. CASE Tamper
  BY <1>11 DEF Tamper, orders, cluster, memory
<1>12. QED
  BY <1>1, <1>2, <1>3, <1>4, <1>5, <1>6, <1>7, <1>8, <1>9, <1>10, <1>11 DEF Environment

LEMMA StepReclaim ==
  ASSUME ReclaimInv, [Next]_vars, TypeOK', LateLists = FALSE, AdapterModes = {"mock-v1"}
  PROVE  ReclaimInv'
<1>1. CASE Controller
  BY <1>1, PassReclaim, DrainReclaim, AriseHandlerReclaim, VastReclaim, DirectReclaim,
     MaintenanceReclaim, QuarantineReclaim DEF Controller
<1>2. CASE Failures
  BY <1>2, FailuresReclaim
<1>3. CASE Environment
  BY <1>3, EnvironmentReclaim
<1>4. CASE UNCHANGED vars
  BY <1>4 DEF vars, orders, cluster, memory
<1>5. QED
  BY <1>1, <1>2, <1>3, <1>4 DEF Next

\* The invariant itself, which the proofs about whole handovers start from.
LEMMA ReclaimInvariant ==
  ASSUME LateLists = FALSE, AdapterModes = {"mock-v1"}
  PROVE  Spec => []ReclaimInv
<1>1. Init => ReclaimInv
  BY InitType DEF Init
<1>2. ASSUME ReclaimInv, [Next]_vars, TypeOK' PROVE ReclaimInv'
  BY <1>2, StepReclaim
<1>3. QED
  BY <1>1, <1>2, TypeCorrect, PTL DEF Spec

\* "unlist is not reclaim" (ReclaimGate) holds in every behaviour.
THEOREM ReclaimSafe ==
  ASSUME LateLists = FALSE, AdapterModes = {"mock-v1"}
  PROVE  Spec => []ReclaimGate
<1>1. ReclaimInv => ReclaimGate
  BY DEF ReclaimGate
<1>2. QED
  BY <1>1, ReclaimInvariant, PTL

-----------------------------------------------------------------------------
(* "A quarantined node must not stay listed", when no call fails and the    *)
(* node is never lost: quarantine() makes its calls best effort, so a failed *)
(* unlist, or a status for a node it cannot find, breaks the claim by design. *)

QuarantinePath == {"q_taint", "q_cordon", "q_label", "q_status"}

\* quarantine() has unlisted the machine before it touches the node, and only
\* a pass that drains lists it again.
UnsoldInv ==
  /\ QuarantineUnsold
  /\ pc \in QuarantinePath => ~market.listed
  /\ node.seen

NothingFails == MaxFaults = 0 /\ MaxLosses = 0 /\ LateLists = FALSE /\ AdapterModes = {"mock-v1"}

\* Steps that list nothing, quarantine nothing and lose nothing.
LEMMA NothingSold ==
  ASSUME UnsoldInv, market'.listed => market.listed, node'.seen = node.seen,
         status'.phase = status.phase \/ status'.phase # "QUARANTINED",
         pc' \in QuarantinePath => pc \in QuarantinePath
  PROVE  UnsoldInv'
BY DEF UnsoldInv, QuarantineUnsold

LEMMA ReportUnsold ==
  ASSUME UnsoldInv, NEW from, NEW s, NEW c, StatusEnd(from, s, c),
         s.phase = status.phase \/ s.phase # "QUARANTINED"
  PROVE  UnsoldInv'
BY NothingSold DEF StatusEnd, Return, cluster, QuarantinePath

LEMMA StepUnsold ==
  ASSUME UnsoldInv, ReclaimInv, [Next]_vars, NothingFails
  PROVE  UnsoldInv'
<1>0. TypeOK /\ budget.faults = 0 /\ budget.losses = 0 /\ adapter = "mock-v1"
  BY DEF NothingFails, TypeOK, BudgetType
<1> USE <1>0 DEF NodeStep, Move, FoundNode, Return, QuarantinePath
<1>1. CASE Pass
  <2>1. CASE RentedStatus
    BY <2>1, ReportUnsold, ZenonT(30) DEF RentedStatus, Base, TypeOK, StatusType
  <2>2. CASE NodeMissing
    BY <2>2 DEF NodeMissing, UnsoldInv
  <2>3. CASE HoldTaint \/ HoldCordon \/ DriftFix \/ ReopenTaints \/ ReopenUncordon
    BY <2>3, NothingSold
    DEF HoldTaint, HoldCordon, DriftFix, ReopenTaints, ReopenUncordon, Retainted, Cordoned,
        Uncordoned, Labelled, TypeOK, NodeType
  <2>4. CASE \/ ListCRs \/ OperatorQuarantine \/ HoldInherited \/ RefuseListing
             \/ ProceedToMarket \/ QuarantineRented \/ GetMachine \/ HoldGated \/ End
             \/ SaveState
    BY <2>4, NothingSold
    DEF ListCRs, OperatorQuarantine, HoldInherited, RefuseListing, ProceedToMarket,
        QuarantineRented, GetMachine, HoldGated, ReopenFrom, End, SaveState, cluster
  <2>5. QED
    BY <1>1, <2>1, <2>2, <2>3, <2>4 DEF Pass
<1>2. CASE Drain
  <2>1. CASE DrainingStatus
    BY <2>1, ReportUnsold, ZenonT(30) DEF DrainingStatus, Base, TypeOK, StatusType
  <2>2. CASE DrainCordon \/ DrainTaint
    BY <2>2, NothingSold DEF DrainCordon, DrainTaint, Cordoned, Retainted, TypeOK, NodeType
  <2>3. CASE \/ DrainPending \/ Drained \/ AllocationZero \/ AllocationHeld
             \/ VolumesStranded \/ VolumesClear
    BY <2>3, NothingSold
    DEF DrainPending, Drained, AllocationZero, AllocationHeld, VolumesStranded, VolumesClear,
        cluster
  <2>4. QED
    BY <1>2, <2>1, <2>2, <2>3 DEF Drain
<1>3. CASE Arise
  <2>1. CASE ReadyStatus
    BY <2>1, ReportUnsold, ZenonT(30) DEF ReadyStatus, Base, TypeOK, StatusType
  <2>2. CASE ReclaimHeld
    BY <2>2, ReportUnsold, ZenonT(30) DEF ReclaimHeld, Base, TypeOK, StatusType
  <2>3. CASE SanitizePassed
    BY <2>3, ReportUnsold, ZenonT(30) DEF SanitizePassed, Base, TypeOK, StatusType
  <2>4. CASE RecheckFailed
    BY <2>4, ReportUnsold, ZenonT(30) DEF RecheckFailed, Base, TypeOK, StatusType
  <2>5. CASE FlipStatus
    BY <2>5, ReportUnsold, ZenonT(30) DEF FlipStatus, Base, TypeOK, StatusType
  <2>6. CASE SanitizingStatus
    BY <2>6, NothingSold DEF SanitizingStatus, Base, TypeOK, StatusType, cluster
  <2>7. CASE Fence \/ FlipLabel \/ FlipTaints \/ FlipUncordon
    BY <2>7, NothingSold
    DEF Fence, FlipLabel, FlipTaints, FlipUncordon, Cordoned, Labelled, Retainted, Uncordoned,
        TypeOK, NodeType
  <2>8. CASE AriseReclaim \/ AriseUnlist
    <3>1. AfterAriseGate \notin QuarantinePath
      BY DEF AfterAriseGate
    <3>2. QED
      BY <2>8, <3>1, NothingSold
      DEF AriseReclaim, AriseUnlist, Unlisted, TypeOK, MarketType, cluster
  <2>9. CASE AriseSettled \/ ReclaimVolumesClear \/ SanitizeFailed \/ RecheckPassed
    BY <2>9, NothingSold
    DEF AriseSettled, ReopenFrom, ReclaimVolumesClear, SanitizeFailed, RecheckPassed, cluster
  <2>10. QED
    BY <1>3, <2>1, <2>2, <2>3, <2>4, <2>5, <2>6, <2>7, <2>8, <2>9 DEF Arise
<1>4. CASE Vast
  <2>1. CASE VastStatus \/ HandoverStatus
    <3> DEFINE ph == IF tx.active > 0 THEN "VAST_RENTED" ELSE "VAST_READY"
               s  == [Base EXCEPT !.owner = "VAST", !.phase = ph]
               t  == [Base EXCEPT !.owner = "VAST", !.op = TRUE, !.phase = ph]
    <3>1. s.phase # "QUARANTINED" /\ t.phase # "QUARANTINED"
      BY DEF Base, TypeOK, StatusType
    <3>2. StatusEnd("vast_status", s, clock) \/ StatusEnd("handover_status", t, clock)
      BY <2>1 DEF VastStatus, HandoverStatus
    <3>3. QED
      BY <3>1, <3>2, ReportUnsold
  <2>2. CASE ListMachine
    BY <2>2 DEF ListMachine, UnsoldInv, QuarantineUnsold, ReclaimInv, cluster
  <2>3. CASE VastTaint \/ VastCordon \/ HandoverTaints \/ HandoverLabel
    BY <2>3, NothingSold
    DEF VastTaint, VastCordon, HandoverTaints, HandoverLabel, Cordoned, Retainted, Labelled,
        TypeOK, NodeType
  <2>4. CASE \/ VastSteady \/ VastStart \/ VastDrain \/ VastOther \/ PrelistPassed
             \/ PrelistFailed \/ QueryListed \/ QueryUnlisted \/ ReadbackListed
             \/ ReadbackMismatch
    BY <2>4, NothingSold
    DEF VastSteady, VastStart, VastDrain, VastOther, PrelistPassed, PrelistFailed,
        QueryListed, QueryUnlisted, ReadbackListed, ReadbackMismatch, cluster
  <2>5. QED
    BY <1>4, <2>1, <2>2, <2>3, <2>4 DEF Vast
<1>5. CASE Direct
  <2>1. CASE PendingStatus
    BY <2>1, ReportUnsold, ZenonT(30) DEF PendingStatus, Base, TypeOK, StatusType
  <2>2. CASE BaseStatus
    BY <2>2, ReportUnsold, ZenonT(30) DEF BaseStatus, Base, TypeOK, StatusType
  <2>3. CASE DirectStatus
    BY <2>3, ReportUnsold, ZenonT(30) DEF DirectStatus, Base, TypeOK, StatusType
  <2>4. CASE BindStatus
    BY <2>4, ReportUnsold, ZenonT(30) DEF BindStatus, Base, TypeOK, StatusType
  <2>5. CASE \/ RebindCordon \/ RebindLabel \/ RebindUncordon \/ DirectTaint
             \/ DirectUncordon \/ BindLabel \/ BindTaints \/ BindUncordon
    BY <2>5, NothingSold
    DEF RebindCordon, RebindLabel, RebindUncordon, DirectTaint, DirectUncordon, BindLabel,
        BindTaints, BindUncordon, DirectDrift, Cordoned, Uncordoned, Retainted, BoundTo,
        TypeOK, NodeType
  <2>6. CASE \/ DirectListed \/ DirectUnlist \/ DirectRented \/ DirectAmbiguous \/ DirectSteady
             \/ DirectStart \/ DirectDrain \/ DirectOther
    BY <2>6, NothingSold
    DEF DirectListed, DirectUnlist, DirectRented, DirectAmbiguous, DirectSteady, DirectDrift,
        DirectStart, DirectDrain, DirectOther, Unlisted, TypeOK, MarketType, cluster
  <2>7. QED
    BY <1>5, <2>1, <2>2, <2>3, <2>4, <2>5, <2>6 DEF Direct
<1>6. CASE Maintenance
  <2>1. CASE MaintStatus
    BY <2>1, ReportUnsold, ZenonT(30) DEF MaintStatus, Base, TypeOK, StatusType
  <2>2. CASE MaintainStatus
    BY <2>2, ReportUnsold, ZenonT(30) DEF MaintainStatus, Base, TypeOK, StatusType
  <2>3. CASE MaintenanceBegin \/ MaintenanceUnlist
    <3>1. AfterMaintenanceGate \notin QuarantinePath
      BY DEF AfterMaintenanceGate
    <3>2. QED
      BY <2>3, <3>1, NothingSold
      DEF MaintenanceBegin, MaintenanceUnlist, Unlisted, TypeOK, MarketType, cluster
  <2>4. CASE MaintTaint \/ MaintCordon \/ MaintainTaints \/ MaintainLabel
    BY <2>4, NothingSold
    DEF MaintTaint, MaintCordon, MaintainTaints, MaintainLabel, Cordoned, Retainted, Labelled,
        TypeOK, NodeType
  <2>5. QED
    BY <1>6, <2>1, <2>2, <2>3, <2>4 DEF Maintenance
<1>7. CASE Quarantine
  <2>1. CASE QuarantineUnlist
    BY <2>1 DEF QuarantineUnlist, Unlisted, UnsoldInv, QuarantineUnsold, TypeOK, MarketType,
                cluster
  <2>2. CASE QuarantineTaint \/ QuarantineCordon \/ QuarantineLabel
    BY <2>2, NothingSold
    DEF QuarantineTaint, QuarantineCordon, QuarantineLabel, Cordoned, Retainted, Labelled,
        TypeOK, NodeType
  <2>3. CASE QuarantineStatus
    BY <2>3 DEF QuarantineStatus, StatusEnd, UnsoldInv, QuarantineUnsold, cluster
  <2>4. QED
    BY <1>7, <2>1, <2>2, <2>3 DEF Quarantine
<1>8. CASE Failures
  <2>1. CASE Restart
    BY <2>1, NothingSold DEF Restart, cluster
  <2>2. QED
    BY <1>8, <2>1
    DEF Failures, GetFails, PrelistUnhealthy, ListUncertain, QueryFails, UnlistFails, CallFails,
        NodeVanishes, Spend
<1>9. CASE Environment
  <2>1. CASE \/ \E d \in DesiredOwners, t \in Tenants \cup {None}, w \in BOOLEAN : Submit(d, t, w)
             \/ ConsoleListsNodes \/ NotBeforePasses \/ TimePasses
             \/ \E p \in Pods : PodBinds(p) \/ PodEnds(p)
             \/ \E v \in Tenants \cup {Unbound} : VolumeChanges(v)
    BY <2>1, NothingSold
    DEF Submit, ConsoleListsNodes, NotBeforePasses, TimePasses, PodBinds, PodEnds,
        VolumeChanges, cluster
  <2>2. CASE ContractStarts \/ ContractEnds
    BY <2>2, NothingSold DEF ContractStarts, ContractEnds, TypeOK, MarketType, cluster
  <2>3. CASE \E k \in Tids : ListLands(k)
    BY <2>3 DEF ListLands
  <2>4. CASE NodeReturns
    BY <2>4 DEF NodeReturns, UnsoldInv
  <2>5. CASE Tamper
    <3>1. node'.seen = node.seen
      <4>1. CASE \E o \in Owners : node' = Labelled(node, o)
        BY <4>1 DEF Labelled, TypeOK, NodeType
      <4>2. CASE node' = [node EXCEPT !.cordoned = ~node.cordoned]
        BY <4>2 DEF TypeOK, NodeType
      <4>3. CASE \E t \in node.taints : node' = Retainted(node, {}, {t})
        BY <4>3 DEF Retainted, TypeOK, NodeType
      <4>4. QED
        BY <2>5, <4>1, <4>2, <4>3 DEF Tamper
    <3>2. UNCHANGED <<status, market, pc>>
      BY <2>5 DEF Tamper
    <3>3. QED
      BY <3>1, <3>2, NothingSold
  <2>6. QED
    BY <1>9, <2>1, <2>2, <2>3, <2>4, <2>5 DEF Environment
<1>10. CASE UNCHANGED vars
  BY <1>10, NothingSold DEF vars, cluster
<1>11. QED
  BY <1>1, <1>2, <1>3, <1>4, <1>5, <1>6, <1>7, <1>8, <1>9, <1>10 DEF Next, Controller

\* quarantine(), "marketplace invariant: a quarantined node must not stay
\* listed": as long as every call is answered, no transition, crash or manual
\* edit puts a machine reported QUARANTINED on the market, or leaves it there.
THEOREM QuarantineOffMarket == ASSUME NothingFails PROVE Spec => []QuarantineUnsold
<1>1. Init => UnsoldInv
  BY DEF Init, UnsoldInv, QuarantineUnsold, QuarantinePath
<1>2. Spec => []ReclaimInv
  BY ReclaimInvariant DEF NothingFails
<1>3. ASSUME UnsoldInv, ReclaimInv, [Next]_vars PROVE UnsoldInv'
  BY <1>3, StepUnsold
<1>4. UnsoldInv => QuarantineUnsold
  BY DEF UnsoldInv
<1>5. QED
  BY <1>1, <1>2, <1>3, <1>4, PTL DEF Spec

-----------------------------------------------------------------------------
(* "A transition under way keeps the machine off the pool", by two fences:  *)
(* a taint on the node, and a cordon or a label other than the pool's.      *)

Tainted == node.taints # {}
Relabelled == node.owner # "ARISE"
Barred  == node.cordoned \/ Relabelled

\* Hands at the Node leave one of the two alone, or reach for it once.
HandsSpare == "taint" \notin HandEdits \/ HandEdits \subseteq {"taint"} \/ MaxTampers <= 1

\* No hand can have taken the taints, nor the cordon or the label.
TaintsSure == "taint" \notin HandEdits \/ budget.tampers = MaxTampers
BarSure    == HandEdits \subseteq {"taint"} \/ budget.tampers = MaxTampers

Fenced(bar) == (Tainted \/ bar) /\ (TaintsSure => Tainted) /\ (BarSure => bar)

\* The calls that take a fence away, or lead to one that does.
Opening == {"reopen_taints", "reopen_uncordon", "recheck", "flip_label", "flip_taints",
            "flip_uncordon", "rebind_cordon", "rebind_label", "rebind_uncordon", "direct_taint",
            "direct_uncordon"}

\* A drain under way is fenced; it is opened for a customer only under the
\* customer's label, and no other call that opens the node meets a drain.
FenceInv ==
  /\ status.phase = "DRAINING" \/ pc = "draining_status" => Fenced(Barred)
  /\ pc = "drain_taint" /\ BarSure => Barred
  /\ pc = "bind_taints" /\ BarSure => Relabelled
  /\ pc = "bind_uncordon" => Fenced(Relabelled)
  /\ pc \in Opening => status.phase # "DRAINING"
  /\ pc \in DrainPath \cup {"query"} => status.phase = "DRAINING"
  /\ pc \in Choosing => (tx.phase = "DRAINING" <=> status.phase = "DRAINING")

LEMMA FenceTypes ==
  ASSUME TypeOK
  PROVE  /\ node.taints \subseteq Taints
         /\ budget.tampers \in Nat /\ budget.tampers <= MaxTampers
         /\ status.phase \in Phases
BY ConstantsAssumption DEF TypeOK, NodeType, BudgetType, StatusType

\* What each write of the Node does to the fences.
LEMMA FenceWrites ==
  ASSUME TypeOK
  PROVE  /\ \A o : /\ Labelled(node, o).owner = o /\ Labelled(node, o).cordoned = node.cordoned
                   /\ Labelled(node, o).taints = node.taints
         /\ \A t : /\ BoundTo(node, t).owner = "DIRECT" /\ BoundTo(node, t).cordoned = node.cordoned
                   /\ BoundTo(node, t).taints = node.taints
         /\ Cordoned(node).owner = node.owner /\ Cordoned(node).cordoned
         /\ Cordoned(node).taints = node.taints
         /\ Uncordoned(node).owner = node.owner /\ Uncordoned(node).taints = node.taints
         /\ \A add, remove :
              /\ Retainted(node, add, remove).owner = node.owner
              /\ Retainted(node, add, remove).cordoned = node.cordoned
              /\ Retainted(node, add, remove).taints = (node.taints \ remove) \cup add
BY DEF TypeOK, NodeType, Labelled, BoundTo, Cordoned, Uncordoned, Retainted

\* Steps that take no fence away, report no drain and open nothing.
LEMMA FenceKept ==
  ASSUME FenceInv, Tainted => Tainted', Barred => Barred', Relabelled => Relabelled',
         budget'.tampers = budget.tampers,
         status'.phase = "DRAINING" => status.phase = "DRAINING",
         pc' \in {"drain_taint", "draining_status", "bind_taints", "bind_uncordon"}
           => pc' = pc \/ (pc' = "draining_status" /\ status.phase = "DRAINING"),
         pc' \in Opening => pc \in Opening \/ status.phase # "DRAINING",
         pc' \in DrainPath \cup {"query"}
           => pc \in DrainPath \cup {"query"} \/ status.phase = "DRAINING",
         pc' \in DrainPath \cup {"query"} => status'.phase = status.phase,
         pc' \in Choosing =>
           (tx'.phase = "DRAINING" <=> status'.phase = "DRAINING")
  PROVE  FenceInv'
BY DEF FenceInv, Fenced, TaintsSure, BarSure

\* Calls that only move on, or write the Node.
LEMMA FenceQuiet ==
  ASSUME FenceInv, UNCHANGED <<budget, status, tx>>,
         Tainted => Tainted', Barred => Barred', Relabelled => Relabelled',
         pc' \in {"drain_taint", "draining_status", "bind_taints", "bind_uncordon"}
           => pc' = pc \/ (pc' = "draining_status" /\ status.phase = "DRAINING"),
         pc' \in Opening => pc \in Opening \/ status.phase # "DRAINING",
         pc' \in DrainPath \cup {"query"}
           => pc \in DrainPath \cup {"query"} \/ status.phase = "DRAINING",
         pc' \in Choosing => pc \in Choosing
  PROVE  FenceInv'
BY FenceKept DEF FenceInv

\* A pass that ends by reporting a phase other than DRAINING, or the one it found.
LEMMA FenceReport ==
  ASSUME FenceInv, NEW from, NEW s, NEW c, StatusEnd(from, s, c),
         s.phase = status.phase \/ s.phase # "DRAINING" \/ pc = "draining_status"
  PROVE  FenceInv'
BY DEF StatusEnd, Return, cluster, FenceInv, Fenced, TaintsSure, BarSure, Tainted, Barred,
       Relabelled, Opening

LEMMA StepFence ==
  ASSUME FenceInv, TypeOK, TypeOK', [Next]_vars, HandsSpare
  PROVE  FenceInv'
<1> USE FenceTypes DEF Opening, Tainted, Barred, Relabelled
<1>1. CASE Pass
  <2>1. CASE ListCRs
    BY <2>1, FenceKept DEF ListCRs, cluster, TypeOK, TxType, NoTx
  <2>2. CASE OperatorQuarantine \/ HoldInherited \/ ProceedToMarket
    <3>1. tx'.phase = tx.phase /\ pc' \in {"q_unlist", "hold_taint", "get"} /\ pc = "lookup"
      BY <2>2 DEF OperatorQuarantine, HoldInherited, ProceedToMarket, FoundNode, TypeOK, TxType
    <3>2. UNCHANGED <<status, node, budget>>
      BY <2>2 DEF OperatorQuarantine, HoldInherited, ProceedToMarket, FoundNode, cluster
    <3>3. QED
      BY <3>1, <3>2, FenceKept DEF FenceInv
  <2>3. CASE GetMachine
    <3>1. tx'.phase = "DRAINING" <=> tx.phase = "DRAINING"
      BY <2>3 DEF GetMachine, Superseded, TypeOK, TxType
    <3>2. QED
      BY <2>3, <3>1, FenceKept DEF FenceInv, GetMachine, cluster
  <2>4. CASE RefuseListing \/ End \/ SaveState \/ NodeMissing \/ QuarantineRented
    BY <2>4, FenceKept
    DEF RefuseListing, End, SaveState, NodeMissing, QuarantineRented, Move, Return, cluster, memory
  <2>5. CASE HoldTaint
    BY <2>5, FenceQuiet, FenceWrites DEF HoldTaint, NodeStep, memory
  <2>6. CASE HoldCordon
    BY <2>6, FenceKept, FenceWrites DEF HoldCordon, Return
  <2>7. CASE DriftFix
    <3>1. pc = "dispatch" /\ pc' = "save" /\ UNCHANGED <<status, budget>>
      BY <2>7 DEF DriftFix, Return
    <3>2. node' = Labelled(node, ExpectedOwner(tx.phase))
      BY <2>7 DEF DriftFix
    <3>3. CASE status.phase = "DRAINING"
      <4>1. ExpectedOwner(tx.phase) = tx.owner /\ Drifted
        BY <2>7, <3>1, <3>3 DEF DriftFix, FenceInv, ExpectedOwner
      <4>2. QED
        BY <4>1 DEF Drifted
    <3>4. CASE status.phase # "DRAINING"
      BY <3>1, <3>4 DEF FenceInv
    <3>5. QED
      BY <3>3, <3>4
  <2>8. CASE HoldGated
    BY <2>8, FenceQuiet DEF HoldGated, ReopenFrom, Move, cluster, memory, FenceInv
  <2>9. CASE ReopenTaints \/ ReopenUncordon
    BY <2>9 DEF ReopenTaints, ReopenUncordon, NodeStep, FenceInv
  <2>10. CASE RentedStatus
    BY <2>10, FenceReport, ZenonT(30) DEF RentedStatus, Base, TypeOK, StatusType
  <2>11. QED
    BY <1>1, <2>1, <2>2, <2>3, <2>4, <2>5, <2>6, <2>7, <2>8, <2>9, <2>10 DEF Pass
<1>2. CASE Drain
  <2>1. CASE DrainCordon
    BY <2>1, FenceWrites DEF DrainCordon, NodeStep, FenceInv, Fenced, TaintsSure, BarSure
  <2>2. CASE DrainTaint
    <3>1. Tainted' /\ (Barred => Barred') /\ pc = "drain_taint" /\ pc' = "draining_status"
      BY <2>2, FenceWrites DEF DrainTaint
    <3>2. UNCHANGED <<status, tx, budget>>
      BY <2>2 DEF DrainTaint
    <3>3. QED
      BY <3>1, <3>2 DEF FenceInv, Fenced, TaintsSure, BarSure
  <2>3. CASE DrainingStatus
    BY <2>3, FenceReport DEF DrainingStatus, StatusEnd
  <2>4. CASE DrainPending \/ VolumesStranded
    <3>1. pc' \in {"q_unlist", "draining_status"} /\ status.phase = "DRAINING"
      BY <2>4 DEF DrainPending, VolumesStranded, Move, FenceInv
    <3>2. UNCHANGED <<status, node, tx, budget>>
      BY <2>4 DEF DrainPending, VolumesStranded, Move, cluster, memory
    <3>3. QED
      BY <3>1, <3>2, FenceQuiet
  <2>5. CASE Drained \/ AllocationZero \/ AllocationHeld \/ VolumesClear
    BY <2>5, FenceQuiet
    DEF Drained, AllocationZero, AllocationHeld, VolumesClear, Move, cluster, memory
  <2>6. QED
    BY <1>2, <2>1, <2>2, <2>3, <2>4, <2>5 DEF Drain
<1>3. CASE Arise
  <2>1. CASE ReadyStatus
    BY <2>1, FenceReport, ZenonT(30) DEF ReadyStatus, Base, TypeOK, StatusType
  <2>2. CASE ReclaimHeld
    BY <2>2, FenceReport, ZenonT(30) DEF ReclaimHeld, Base, TypeOK, StatusType
  <2>3. CASE SanitizePassed
    BY <2>3, FenceReport, ZenonT(30) DEF SanitizePassed, Base, TypeOK, StatusType
  <2>4. CASE RecheckFailed
    BY <2>4, FenceReport, ZenonT(30) DEF RecheckFailed, Base, TypeOK, StatusType
  <2>5. CASE FlipStatus
    BY <2>5, FenceReport, ZenonT(30) DEF FlipStatus, Base, TypeOK, StatusType
  <2>6. CASE SanitizingStatus
    BY <2>6, FenceKept DEF SanitizingStatus, Return, Base, TypeOK, StatusType, cluster
  <2>7. CASE Fence
    BY <2>7, FenceQuiet, FenceWrites DEF Fence, NodeStep, memory
  <2>8. CASE FlipLabel \/ FlipTaints \/ FlipUncordon
    BY <2>8 DEF FlipLabel, FlipTaints, FlipUncordon, NodeStep, FenceInv
  <2>9. CASE AriseReclaim \/ AriseUnlist
    <3>1. AfterAriseGate \in {"rented_status", "recheck", "fence", "reclaim_volumes"}
      BY DEF AfterAriseGate
    <3>2. AfterAriseGate = "recheck" => tx.phase = "HEALTH_CHECK"
      BY DEF AfterAriseGate
    <3>3. QED
      BY <2>9, <3>1, <3>2, FenceQuiet
      DEF AriseReclaim, AriseUnlist, Move, Handles, cluster, memory, FenceInv
  <2>10. CASE AriseSettled \/ ReclaimVolumesClear \/ SanitizeFailed \/ RecheckPassed
    BY <2>10, FenceQuiet
    DEF AriseSettled, ReopenFrom, ReclaimVolumesClear, SanitizeFailed, RecheckPassed, Move,
        Handles, cluster, memory, FenceInv
  <2>11. QED
    BY <1>3, <2>1, <2>2, <2>3, <2>4, <2>5, <2>6, <2>7, <2>8, <2>9, <2>10 DEF Arise
<1>4. CASE Vast
  <2>1. CASE VastStatus \/ HandoverStatus
    <3> DEFINE ph == IF tx.active > 0 THEN "VAST_RENTED" ELSE "VAST_READY"
               s  == [Base EXCEPT !.owner = "VAST", !.phase = ph]
               t  == [Base EXCEPT !.owner = "VAST", !.op = TRUE, !.phase = ph]
    <3>1. s.phase # "DRAINING" /\ t.phase # "DRAINING"
      BY DEF Base, TypeOK, StatusType
    <3>2. StatusEnd("vast_status", s, clock) \/ StatusEnd("handover_status", t, clock)
      BY <2>1 DEF VastStatus, HandoverStatus
    <3>3. QED
      BY <3>1, <3>2, FenceReport
  <2>2. CASE VastTaint \/ VastCordon \/ HandoverTaints \/ HandoverLabel
    BY <2>2, FenceQuiet, FenceWrites
    DEF VastTaint, VastCordon, HandoverTaints, HandoverLabel, NodeStep, memory
  <2>3. CASE ReadbackListed
    BY <2>3, FenceKept DEF ReadbackListed, cluster
  <2>4. CASE \/ VastSteady \/ VastStart \/ VastDrain \/ VastOther \/ PrelistPassed
             \/ PrelistFailed \/ ListMachine \/ QueryListed \/ QueryUnlisted \/ ReadbackMismatch
    BY <2>4, FenceQuiet
    DEF VastSteady, VastStart, VastDrain, VastOther, PrelistPassed, PrelistFailed, ListMachine,
        QueryListed, QueryUnlisted, ReadbackMismatch, Move, Handles, cluster, memory, FenceInv
  <2>5. QED
    BY <1>4, <2>1, <2>2, <2>3, <2>4 DEF Vast
<1>5. CASE Direct
  <2>1. CASE PendingStatus
    BY <2>1, FenceReport, ZenonT(30) DEF PendingStatus, Base, TypeOK, StatusType
  <2>2. CASE BaseStatus
    BY <2>2, FenceReport, ZenonT(30) DEF BaseStatus, Base, TypeOK, StatusType
  <2>3. CASE DirectStatus
    BY <2>3, FenceReport, ZenonT(30) DEF DirectStatus, Base, TypeOK, StatusType
  <2>4. CASE BindStatus
    BY <2>4, FenceReport, ZenonT(30) DEF BindStatus, Base, TypeOK, StatusType
  <2>5. CASE RebindCordon \/ RebindLabel \/ DirectTaint
    BY <2>5, FenceQuiet, FenceWrites DEF RebindCordon, RebindLabel, DirectTaint, NodeStep, memory
  <2>6. CASE RebindUncordon \/ DirectUncordon
    BY <2>6 DEF RebindUncordon, DirectUncordon, DirectDrift, NodeStep, FenceInv
  <2>7. CASE BindLabel
    BY <2>7, FenceWrites DEF BindLabel, NodeStep, FenceInv, Fenced, TaintsSure, BarSure
  <2>8. CASE BindTaints
    BY <2>8, FenceWrites DEF BindTaints, NodeStep, FenceInv, Fenced, TaintsSure, BarSure
  <2>9. CASE BindUncordon
    BY <2>9, FenceWrites DEF BindUncordon, NodeStep, FenceInv, Fenced, TaintsSure, BarSure
  <2>10. CASE \/ DirectListed \/ DirectUnlist \/ DirectRented \/ DirectAmbiguous \/ DirectSteady
              \/ DirectStart \/ DirectDrain \/ DirectOther
    BY <2>10, FenceQuiet
    DEF DirectListed, DirectUnlist, DirectRented, DirectAmbiguous, DirectSteady, DirectDrift,
        DirectStart, DirectDrain, DirectOther, DirectNamed, DirectFree, Phase, Move, Handles,
        cluster, memory, FenceInv
  <2>11. QED
    BY <1>5, <2>1, <2>2, <2>3, <2>4, <2>5, <2>6, <2>7, <2>8, <2>9, <2>10 DEF Direct
<1>6. CASE Maintenance
  <2>1. CASE MaintStatus
    BY <2>1, FenceReport, ZenonT(30) DEF MaintStatus, Base, TypeOK, StatusType
  <2>2. CASE MaintainStatus
    BY <2>2, FenceReport, ZenonT(30) DEF MaintainStatus, Base, TypeOK, StatusType
  <2>3. CASE MaintenanceBegin \/ MaintenanceUnlist
    <3>1. AfterMaintenanceGate \in {"rented_status", "maint_taint", "maint_status",
                                    "drain_cordon", "drain_read", "end"}
      BY DEF AfterMaintenanceGate
    <3>2. AfterMaintenanceGate = "drain_read" => tx.phase = "DRAINING"
      BY DEF AfterMaintenanceGate, Phase
    <3>3. QED
      BY <2>3, <3>1, <3>2, FenceQuiet
      DEF MaintenanceBegin, MaintenanceUnlist, Move, Handles, cluster, memory, FenceInv
  <2>4. CASE MaintTaint \/ MaintCordon \/ MaintainTaints \/ MaintainLabel
    BY <2>4, FenceQuiet, FenceWrites
    DEF MaintTaint, MaintCordon, MaintainTaints, MaintainLabel, NodeStep, memory
  <2>5. QED
    BY <1>6, <2>1, <2>2, <2>3, <2>4 DEF Maintenance
<1>7. CASE Quarantine
  <2>1. CASE QuarantineUnlist
    BY <2>1, FenceQuiet DEF QuarantineUnlist, cluster, memory
  <2>2. CASE QuarantineTaint \/ QuarantineCordon \/ QuarantineLabel
    BY <2>2, FenceQuiet, FenceWrites
    DEF QuarantineTaint, QuarantineCordon, QuarantineLabel, NodeStep, memory
  <2>3. CASE QuarantineStatus
    BY <2>3, FenceReport, ZenonT(30) DEF QuarantineStatus, TypeOK, StatusType
  <2>4. QED
    BY <1>7, <2>1, <2>2, <2>3 DEF Quarantine
<1>8. CASE Failures
  <2>1. CASE Restart
    BY <2>1, FenceKept DEF Restart, Spend, cluster, TypeOK, BudgetType
  <2>2. CASE NodeVanishes
    BY <2>2, FenceKept DEF NodeVanishes, Spend, TypeOK, BudgetType, NodeType, memory, FenceInv
  <2>3. CASE GetFails \/ PrelistUnhealthy \/ ListUncertain \/ QueryFails \/ UnlistFails \/ CallFails
    <3>1. UNCHANGED <<status, node>> /\ budget'.tampers = budget.tampers
      BY <2>3
      DEF GetFails, PrelistUnhealthy, ListUncertain, QueryFails, UnlistFails, CallFails, Spend,
          cluster, TypeOK, BudgetType
    <3>2. \/ pc' \in {"save", "idle", "q_unlist", "q_taint", "q_status", "rented_status"}
          \/ pc = "list" /\ pc' = "query"
      BY <2>3
      DEF GetFails, PrelistUnhealthy, ListUncertain, QueryFails, UnlistFails, CallFails, Return
    <3>3. QED
      BY <3>1, <3>2, FenceKept
  <2>4. QED
    BY <1>8, <2>1, <2>2, <2>3 DEF Failures
<1>9. CASE Environment
  <2>1. CASE \/ \E d \in DesiredOwners, t \in Tenants \cup {None}, w \in BOOLEAN : Submit(d, t, w)
             \/ ConsoleListsNodes \/ NotBeforePasses \/ TimePasses
             \/ \E p \in Pods : PodBinds(p) \/ PodEnds(p)
             \/ \E v \in Tenants \cup {Unbound} : VolumeChanges(v)
             \/ ContractStarts \/ ContractEnds \/ \E k \in Tids : ListLands(k)
    <3>1. UNCHANGED <<status, node, budget, pc, tx>>
      BY <2>1
      DEF Submit, ConsoleListsNodes, NotBeforePasses, TimePasses, PodBinds, PodEnds,
          VolumeChanges, ContractStarts, ContractEnds, ListLands, cluster, memory
    <3>2. QED
      BY <3>1, FenceQuiet
  <2>2. CASE NodeReturns
    BY <2>2, FenceQuiet DEF NodeReturns, TypeOK, NodeType, memory
  <2>3. CASE Tamper
    <3>1. UNCHANGED <<status, pc, tx>> /\ budget'.tampers = budget.tampers - 1 /\ budget.tampers > 0
      BY <2>3 DEF Tamper, Spend, memory, TypeOK, BudgetType
    <3>2. \/ "taint" \in HandEdits /\ node'.owner = node.owner /\ node'.cordoned = node.cordoned
          \/ ~(HandEdits \subseteq {"taint"}) /\ node'.taints = node.taints
      <4>1. CASE "label" \in HandEdits /\ \E o \in Owners \ {node.owner} : node' = Labelled(node, o)
        BY <4>1, FenceWrites
      <4>2. CASE "cordon" \in HandEdits /\ node' = [node EXCEPT !.cordoned = ~node.cordoned]
        BY <4>2 DEF TypeOK, NodeType
      <4>3. CASE "taint" \in HandEdits /\ \E t \in node.taints : node' = Retainted(node, {}, {t})
        BY <4>3, FenceWrites
      <4>4. QED
        BY <2>3, <4>1, <4>2, <4>3 DEF Tamper
    <3>3. (budget.tampers = MaxTampers /\ budget.tampers = 1) \/ "taint" \notin HandEdits
            \/ HandEdits \subseteq {"taint"}
      BY <3>1, ConstantsAssumption DEF HandsSpare
    <3>4. budget'.tampers # MaxTampers
      BY <3>1, ConstantsAssumption
    <3>5. FenceInv!1' /\ FenceInv!2' /\ FenceInv!3' /\ FenceInv!4'
      BY <3>1, <3>2, <3>3, <3>4 DEF FenceInv, Fenced, TaintsSure, BarSure
    <3>6. QED
      BY <3>1, <3>5 DEF FenceInv
  <2>4. QED
    BY <1>9, <2>1, <2>2, <2>3 DEF Environment
<1>10. CASE UNCHANGED vars
  BY <1>10, FenceQuiet DEF vars, cluster, memory
<1>11. QED
  BY <1>1, <1>2, <1>3, <1>4, <1>5, <1>6, <1>7, <1>8, <1>9, <1>10 DEF Next, Controller

\* The classes of users that the node's labels admit.
LEMMA PoolAdmission ==
  ASSUME "ARISE" \notin Customers, "ARISE" \in OpenTo
  PROVE  ~node.cordoned /\ node.owner = "ARISE" /\ node.taints = {}
BY DEF OpenTo, Admits, ClassOf

\* "A transition under way keeps the machine off the pool" (DrainFenced), whoever
\* asks for transitions and however, whatever fails, crashes or gets lost, with or
\* without the marketplace, and with hands at the Node that spare one of the fences.
THEOREM DrainStaysFenced ==
  ASSUME HandsSpare, "ARISE" \notin Customers
  PROVE  Spec => []DrainFenced
<1>1. Init => FenceInv
  BY DEF Init, FenceInv, Opening, NoTx
<1>2. ASSUME FenceInv, TypeOK, TypeOK', [Next]_vars PROVE FenceInv'
  BY <1>2, StepFence
<1>3. FenceInv => DrainFenced
  BY PoolAdmission DEF FenceInv, DrainFenced, Fenced, Tainted, Barred, Relabelled
<1>4. QED
  BY <1>1, <1>2, <1>3, TypeCorrect, PTL DEF Spec

=============================================================================
