------------------------------ MODULE Metering ------------------------------
(***************************************************************************)
(* services/metering: the poll loop (Meter.tick) and the append-only       *)
(* ledger behind every invoice (Ledger).  A subject is a pod or a bound    *)
(* claim, named by its uid; the cluster runs, ends and deletes subjects    *)
(* while the meter lists, records, fails and restarts.                     *)
(*                                                                         *)
(* A step of the meter ends at each list call, at each append (one fsync)  *)
(* and at the save of the last-seen file: between them only memory is      *)
(* touched.  Meter.open, last_close and done are the operators OpenUids,   *)
(* LastClose and Closed of the records in memory, which is how __init__    *)
(* builds them and what _open and _close keep them at.  A hash is the      *)
(* record's seq: equal exactly when the chain up to the record is.         *)
(***************************************************************************)
EXTENDS Integers, Sequences, FiniteSets

CONSTANTS
  Pods,          \* uids of tenant pods that request a GPU or a vCPU
  Claims,        \* uids of PersistentVolumeClaims
  LabelOnly,     \* subjects whose namespace is labelled but not registered
  Graces,        \* grace periods of deletes
  AppendErrors,  \* how an append may fail and the process live on
  MaxTime,       \* bound on the clock
  MaxFaults,     \* bound on failed calls
  MaxCrashes     \* bound on crashes

Subjects == Pods \cup Claims

Calls == {"idle", "list", "pods", "claims", "closing", "down"}

ASSUME MeterConstants ==
  /\ Subjects \cap Calls = {}
  /\ Pods \cap Claims = {} /\ LabelOnly \subseteq Subjects
  /\ Graces \subseteq Nat /\ AppendErrors \subseteq {"nothing", "line", "fragment"}
  /\ MaxTime \in Nat /\ MaxFaults \in Nat /\ MaxCrashes \in Nat

VARIABLES
  now,       \* the wall clock
  world,     \* uid -> what the API server says of it
  file,      \* the ledger's complete lines
  torn,      \* a partial line follows them
  records,   \* Ledger.records
  chainOk,   \* Ledger.chain_ok
  seen,      \* Meter.seen
  seenFile,  \* last_seen.json
  pc,        \* the next call of tick(), or the pod it is recording whole
  view,      \* what this tick listed
  blind,     \* the claims could not be listed this tick
  todo,      \* subjects the current loop has not come to
  clock,     \* tick()'s `now'
  budget     \* faults and crashes left

ledger == <<file, torn, records, chainOk>>
tick   == <<pc, view, blind, todo, clock>>
vars   == <<now, world, ledger, seen, seenFile, tick, budget>>

Never == -1                          \* a timestamp that is not there

\* A subject in the API: residency from start until it stops; a terminal pod
\* may carry a finishedAt (its stop) and any pod a deletionTimestamp (due).
Absent == [phase |-> "absent", start |-> Never, stop |-> Never, told |-> FALSE, due |-> Never]

Listed(p)   == p.phase \in {"running", "ended"}
Resident(p) == p.phase = "running"
Terminal(p) == p.phase = "ended"

\* pod_end_time(): finishedAt, else deletionTimestamp, else the observation.
EndTime(p) ==
  CASE p.told -> p.stop
    [] ~p.told /\ p.due # Never -> p.due
    [] OTHER -> now

Of(rs, u, e) == {i \in DOMAIN rs : rs[i].uid = u /\ rs[i].event = e}
Latest(I)    == CHOOSE i \in I : \A j \in I : j <= i

\* open_set(), by order: an open after a close re-opens.
OpenUids(rs) ==
  {u \in Subjects : \E i \in Of(rs, u, "open") : \A j \in Of(rs, u, "close") : j < i}
OpenedAt(rs, u)  == rs[Latest(Of(rs, u, "open"))].at
Closed(rs, u)    == Of(rs, u, "close") # {}
LastClose(rs, u) == rs[Latest(Of(rs, u, "close"))].at

\* The chain check of _load() and verify().
Chained(rs) ==
  \A i \in DOMAIN rs : rs[i].prev = (IF i = 1 THEN 0 ELSE rs[i - 1].seq)

Init ==
  /\ now = 0 /\ world = [u \in Subjects |-> Absent]
  /\ file = <<>> /\ torn = FALSE /\ records = <<>> /\ chainOk = TRUE
  /\ seen = [u \in Subjects |-> Never] /\ seenFile = seen
  /\ pc = "idle" /\ view = world /\ blind = FALSE /\ todo = {} /\ clock = 0
  /\ budget = [faults |-> MaxFaults, crashes |-> MaxCrashes]

-----------------------------------------------------------------------------
(* Ledger.append().                                                         *)

Line(e, u, at, from) ==
  [event |-> e, uid |-> u, at |-> at, from |-> from, seq |-> Len(records) + 1,
   prev |-> IF records = <<>> THEN 0 ELSE records[Len(records)].seq]

\* What reaches the disk: after a fragment the line is none of its own.
Written(l) ==
  /\ file' = Append(file, IF torn THEN [l EXCEPT !.event = "garbled"] ELSE l)
  /\ torn' = FALSE

\* The line reaches the disk, then the memory.
Recorded(l) == Written(l) /\ records' = Append(records, l) /\ UNCHANGED chainOk

\* The write raises and the memory does not get the record; the disk may have
\* nothing, the whole line (fsync failed) or a part of it.
Refused(l) ==
  /\ UNCHANGED <<records, chainOk>>
  /\ \/ "nothing" \in AppendErrors /\ UNCHANGED <<file, torn>>
     \/ "line" \in AppendErrors /\ Written(l)
     \/ "fragment" \in AppendErrors /\ torn' = TRUE /\ UNCHANGED file

\* Mutant: a re-opened interval starts at the pod's startTime again.
FloorIgnored(u, at) == at

\* _open(): no segment starts before the previous one closed.
Floor(u, at) ==
  IF Closed(records, u) /\ LastClose(records, u) > at THEN LastClose(records, u) ELSE at

OpenLine(u, at)  == Line("open", u, Floor(u, at), Never)
CloseLine(u, at) == Line("close", u, at, OpenedAt(records, u))

-----------------------------------------------------------------------------
(* Meter.tick().                                                            *)

\* What tick() keeps in locals is gone when it returns.
EndTick ==
  /\ pc' = "idle" /\ todo' = {} /\ clock' = 0 /\ blind' = FALSE
  /\ view' = [u \in Subjects |-> Absent]

Fail == budget.faults > 0 /\ budget' = [budget EXCEPT !.faults = @ - 1]

\* metered_namespaces(): all of them, or the registered ones alone when the
\* cluster's own cannot be listed.
Metered(names) ==
  \/ names = Subjects /\ UNCHANGED budget
  \/ names = Subjects \ LabelOnly /\ LabelOnly # {} /\ Fail

Wake ==
  /\ pc = "idle" /\ pc' = "list"
  /\ \E names \in {Subjects, Subjects \ LabelOnly} : Metered(names) /\ todo' = names \cap Pods
  /\ UNCHANGED <<now, world, ledger, seen, seenFile, view, blind, clock>>

\* One namespace's pods are listed at a time.
ListPods(u) ==
  /\ pc = "list" /\ u \in todo /\ todo' = todo \ {u}
  /\ view' = [view EXCEPT ![u] = world[u]]
  /\ UNCHANGED <<now, world, ledger, seen, seenFile, pc, blind, clock, budget>>

\* Mutant: a pod that was over when first listed is not recorded.
SubPollIgnored(u) == Resident(view[u])

\* Resident, or ran to completion between two polls and not recorded yet.
Recordable(u) == Resident(view[u]) \/ (Terminal(view[u]) /\ ~Closed(records, u))

\* `now' is taken after the list; a pod that was not scheduled, or was
\* recorded whole, is passed over.
TakeNow ==
  /\ pc = "list" /\ todo = {} /\ pc' = "pods" /\ clock' = now
  /\ todo' = {u \in Pods : (u \in OpenUids(records) /\ Listed(view[u])) \/ Recordable(u)}
  /\ UNCHANGED <<now, world, ledger, seen, seenFile, view, blind, budget>>

SeeSubject(u) ==
  /\ pc \in {"pods", "claims"} /\ u \in todo /\ todo' = todo \ {u}
  /\ u \in OpenUids(records) /\ seen' = [seen EXCEPT ![u] = clock]
  /\ UNCHANGED <<now, world, ledger, seenFile, pc, view, blind, clock, budget>>

\* The records u's turn in the current loop calls for, if any: a pod's
\* interval opens at its startTime, a claim's when it is first observed.
OpenDue(u) ==
  IF pc \in {"pods", "claims"} /\ u \in todo /\ u \notin OpenUids(records)
    THEN {OpenLine(u, IF u \in Pods THEN view[u].start ELSE clock)} ELSE {}

OpenInterval(u) ==
  /\ \E l \in OpenDue(u) : Recorded(l)
  /\ IF Resident(view[u])
       THEN todo' = todo \ {u} /\ seen' = [seen EXCEPT ![u] = clock] /\ UNCHANGED pc
       ELSE pc' = u /\ UNCHANGED <<todo, seen>>
  /\ UNCHANGED <<now, world, seenFile, view, blind, clock, budget>>

ListClaims ==
  /\ pc = "pods" /\ todo = {} /\ pc' = "claims"
  /\ \E names \in {Subjects, Subjects \ LabelOnly} :
       /\ Metered(names)
       /\ view' = [u \in Subjects |-> IF u \in Claims \cap names THEN world[u] ELSE view[u]]
       /\ todo' = {u \in Claims \cap names : Resident(world[u])}
  /\ UNCHANGED <<now, world, ledger, seen, seenFile, blind, clock>>

\* No claims this tick: none is opened, none is closed.
ClaimsFail ==
  /\ pc = "pods" /\ todo = {} /\ pc' = "claims" /\ Fail /\ blind' = TRUE
  /\ UNCHANGED <<now, world, ledger, seen, seenFile, view, todo, clock>>

\* Still there: a resident subject, or a claim on a blind tick.
Holding(u) == Resident(view[u]) \/ (blind /\ u \in Claims)

\* Mutant: only what was listed is closed.
CloseLoopListed ==
  /\ pc = "claims" /\ todo = {} /\ pc' = "closing"
  /\ todo' = {u \in OpenUids(records) : Terminal(view[u])}
  /\ UNCHANGED <<now, world, ledger, seen, seenFile, view, blind, clock, budget>>

\* The open intervals of what is terminal or gone.
CloseLoop ==
  /\ pc = "claims" /\ todo = {} /\ pc' = "closing"
  /\ todo' = {u \in OpenUids(records) : ~Holding(u)}
  /\ UNCHANGED <<now, world, ledger, seen, seenFile, view, blind, clock, budget>>

\* Where an interval that is no longer held ends: at the end the API shows,
\* else at the last instant it was seen, else where it began.
CloseAt(u) ==
  CASE Terminal(view[u]) -> EndTime(view[u])
    [] ~Terminal(view[u]) /\ seen[u] # Never -> seen[u]
    [] OTHER -> OpenedAt(records, u)

CloseDue(u) ==
  IF pc = u \/ (pc = "closing" /\ u \in todo) THEN {CloseLine(u, CloseAt(u))} ELSE {}

CloseInterval(u) ==
  /\ \E l \in CloseDue(u) : Recorded(l)
  /\ seen' = [seen EXCEPT ![u] = Never]
  /\ todo' = todo \ {u} /\ pc' = IF pc = u THEN "pods" ELSE pc
  /\ UNCHANGED <<now, world, seenFile, view, blind, clock, budget>>

SaveSeen ==
  /\ pc = "closing" /\ todo = {} /\ EndTick /\ seenFile' = seen
  /\ UNCHANGED <<now, world, ledger, seen, budget>>

\* main() counts the error and polls again.
TickFails ==
  /\ \/ pc = "list" /\ UNCHANGED ledger
     \/ pc = "closing" /\ todo = {} /\ UNCHANGED ledger
     \/ \E u \in Subjects : \E l \in OpenDue(u) \cup CloseDue(u) : Refused(l)
  /\ Fail /\ EndTick
  /\ UNCHANGED <<now, world, seen, seenFile>>

\* A crash, maybe in the middle of an append.
Crash ==
  /\ pc # "down" /\ budget.crashes > 0 /\ budget' = [budget EXCEPT !.crashes = @ - 1]
  /\ pc' = "down" /\ todo' = {} /\ records' = <<>>
  /\ torn' \in {torn} \cup {TRUE : l \in UNION {OpenDue(u) \cup CloseDue(u) : u \in Subjects}}
  /\ seen' = [u \in Subjects |-> Never] /\ view' = [u \in Subjects |-> Absent]
  /\ blind' = FALSE /\ clock' = 0
  /\ UNCHANGED <<now, world, file, chainOk, seenFile>>

\* Mutant: the fragment stays where it is.
FragmentKept == torn' = torn

\* _load() cuts a partial last line off.
Truncated == torn' = FALSE

\* _load(), then Meter.__init__: a line that is no JSON stops both.
Load ==
  /\ pc = "down" /\ pc' = "idle"
  /\ \A i \in DOMAIN file : file[i].event # "garbled"
  /\ Truncated /\ records' = file /\ chainOk' = Chained(file) /\ UNCHANGED file
  /\ seen' = [u \in Subjects |-> IF u \in OpenUids(file) THEN seenFile[u] ELSE Never]
  /\ UNCHANGED <<now, world, seenFile, view, blind, todo, clock, budget>>

-----------------------------------------------------------------------------
(* The cluster.                                                             *)

Becomes(u, p) ==
  /\ world' = [world EXCEPT ![u] = p]
  /\ UNCHANGED <<now, ledger, seen, seenFile, tick, budget>>

\* A pod is scheduled (startTime); a claim is bound.
Starts(u) == world[u].phase = "absent" /\ Becomes(u, [Absent EXCEPT !.phase = "running", !.start = now])

\* A pod's phase turns terminal, with or without container statuses.
Ends(u) ==
  /\ u \in Pods /\ Resident(world[u])
  /\ \E told \in BOOLEAN :
       Becomes(u, [world[u] EXCEPT !.phase = "ended", !.stop = now, !.told = told])

\* A delete with a grace period: the pod goes on until it ends or is gone.
Deleted(u) ==
  /\ u \in Pods /\ Resident(world[u]) /\ world[u].due = Never
  /\ \E g \in Graces : Becomes(u, [world[u] EXCEPT !.due = now + g])

\* The object is removed: a terminal pod's, or a running one's.
Gone(u) ==
  \/ Terminal(world[u]) /\ Becomes(u, [world[u] EXCEPT !.phase = "gone"])
  \/ Resident(world[u]) /\ Becomes(u, [world[u] EXCEPT !.phase = "vanished", !.stop = now])

TimePasses ==
  /\ now < MaxTime /\ now' = now + 1
  /\ UNCHANGED <<world, ledger, seen, seenFile, tick, budget>>

Meter ==
  \/ Wake \/ TakeNow \/ ListClaims \/ ClaimsFail \/ CloseLoop \/ SaveSeen \/ Load
  \/ \E u \in Subjects : ListPods(u) \/ SeeSubject(u) \/ OpenInterval(u) \/ CloseInterval(u)

Cluster == \E u \in Subjects : Starts(u) \/ Ends(u) \/ Deleted(u) \/ Gone(u)

Next == Meter \/ TickFails \/ Crash \/ Cluster \/ TimePasses

Spec == Init /\ [][Next]_vars
=============================================================================
